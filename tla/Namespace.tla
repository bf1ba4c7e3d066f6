----------------------------- MODULE Namespace ------------------------------
(***************************************************************************)
(* A namespace with one workload                                           *)
(* (crates/orchestrator/src/core/namespace/inner.rs): one action per       *)
(* message of the orchestrator, worker event, client command and timer,    *)
(* each followed by a cycle of the router (run_cycle). The core is single  *)
(* threaded: nothing else happens until the cycle is over.                 *)
(*                                                                         *)
(* Environment: the scheduler grants a requested pod to any worker it      *)
(* knows and revokes the lease of a pod that is gone; a worker reports     *)
(* whatever it may about the pods it was told to run; timers are untimed.  *)
(***************************************************************************)
EXTENDS NamespaceRouter

CONSTANTS
  EarlyGrants,   \* TRUE: grants also go to workers that are not set up yet
  MaxBatch       \* timers that may expire in one call of advance_to

VARIABLE ns

WorkerState == {"off",        \* not connected
                "known",      \* connected, but WorkerConnected not delivered yet
                "pending", "active",
                "failed"}     \* NamespaceFailed

Init ==
  ns = [ wl |-> None, ep |-> None, pods |-> [p \in Pods |-> None],
         spec |-> None, need |-> {},
         worker    |-> [w \in Workers |-> "off"],
         assigned  |-> [w \in Workers |-> {}],
         lease     |-> [p \in Pods |-> None],
         granted   |-> {}, deferred |-> {}, due |-> {},
         buffered  |-> [w \in Workers |-> NothingPlaced],
         vm        |-> [w \in Workers |-> NothingPlaced],
         placed    |-> [w \in Workers |-> NothingPlaced],
         artifacts |-> {}, valid |-> {}, refs |-> {}, deltas |-> <<>>,
         pending_ports |-> {}, settled |-> {},
         dirty |-> <<>>, ports |-> FALSE, events |-> <<>>, creates |-> {},
         new_ep |-> None, last |-> [i \in Inputs |-> Never],
         depth |-> 0, busy |-> FALSE, cause |-> None, panic |-> None ]

-----------------------------------------------------------------------------
(* The cycle.                                                              *)
Running == ns.busy /\ ns.panic = None

PropagateRound ==
  /\ Running
  /\ Pending(ns)
  /\ ns' = Round(ns)

(* destroy_artifact: validity edges mark the workload, references to the   *)
(* port are removed silently.                                              *)
DestroyArtifact(n, a) ==
  [n EXCEPT !.artifacts = @ \ {a},
            !.dirty = IF a \in n.valid THEN Append(@, <<"Artifact", WL>>) ELSE @,
            !.valid = @ \ {a},
            !.refs  = @ \ {a},
            !.wl    = IF @ = None THEN @ ELSE [@ EXCEPT !.out_artifact_ref = @ \ {a}]]

ArtifactDelta(n, d) ==
  LET a == d[2]
  IN IF d[1] = "Referenced"
     THEN [n EXCEPT !.valid = @ \cup {a}, !.settled = @ \cup {a},
                    !.dirty = Append(@, <<"Artifact", WL>>)]
     ELSE [DestroyArtifact(n, a) EXCEPT !.settled = @ \cup {a}]

\* Slip: the inputs are read without being drained.
ReconcileArtifacts_undrained ==
  /\ Running
  /\ ~Pending(ns)
  /\ ns.deltas # <<>>
  /\ ns' = [Fold(ArtifactDelta, ns, ns.deltas) EXCEPT !.depth = 0]

(* ArtifactAdapter::reconcile, the only adapter that writes back.          *)
ReconcileArtifacts ==
  /\ Running
  /\ ~Pending(ns)
  /\ ns.deltas # <<>>
  /\ ns' = [Fold(ArtifactDelta, [ns EXCEPT !.deltas = <<>>], ns.deltas) EXCEPT !.depth = 0]

\* Slip: ports nobody referenced are kept.
FinishCycle_keep_orphans ==
  /\ Running
  /\ ~Pending(ns)
  /\ ns.deltas = <<>>
  /\ ns' = [ns EXCEPT !.pending_ports = {}, !.settled = {}, !.depth = 0, !.busy = FALSE,
                      !.cause = None]

(* ArtifactAdapter::finalize: a port nobody referenced is destroyed.       *)
FinishCycle ==
  LET orphans == ns.pending_ports \ ns.settled
  IN /\ Running
     /\ ~Pending(ns)
     /\ ns.deltas = <<>>
     /\ ns' = [ns EXCEPT !.artifacts = @ \ orphans, !.pending_ports = {}, !.settled = {},
                         !.depth = 0, !.busy = FALSE, !.cause = None]

-----------------------------------------------------------------------------
(* The namespace is between two cycles. The shell delivers a revocation    *)
(* before it takes the next message.                                       *)
Revocable == {p \in ns.granted : ns.pods[p] = None}

Quiet ==
  /\ ~ns.busy /\ ns.panic = None
  /\ ns.due = {}
  /\ Revocable = {}

(* Bound: two pod ids are available, except for news about workers.        *)
Idle == Quiet /\ Cardinality(FreshPods(ns)) >= 2

Cycle(n, cause) == ns' = [n EXCEPT !.busy = TRUE, !.cause = cause]

Send(n, kind, sender, target, payload) ==
  [n EXCEPT !.events = Append(@, [kind |-> kind, sender |-> sender, target |-> target,
                                  payload |-> payload])]

Mark(n, i) == [n EXCEPT !.dirty = Append(@, i)]

(* apply_namespace_spec.                                                   *)
ApplySpec ==
  /\ Idle
  /\ \E spec \in Specs \ {ns.spec} :
       Cycle(Mark([ns EXCEPT !.spec = spec, !.ports = TRUE,
                             !.wl = IF @ = None THEN W!NewWorkload ELSE @], <<"Spec", WL>>), "spec")

RemoveSpec ==
  /\ Idle
  /\ ns.spec # None
  /\ Cycle(Mark([ns EXCEPT !.spec = None], <<"Spec", WL>>), "spec")

AdminCommand ==
  /\ Idle
  /\ ns.spec # None
  /\ \E cmd \in {"Restart", "Scavenge"} : Cycle(Send(ns, "AdminCommand", None, WL, cmd), "admin")

-----------------------------------------------------------------------------
(* Workers. Before WorkerConnected reaches the namespace, the scheduler    *)
(* may already know the worker.                                            *)
WorkerRegistered(w) ==
  /\ Quiet
  /\ ns.worker[w] = "off"
  /\ ns' = [ns EXCEPT !.worker[w] = "known"]

\* Slip: the arguments of the lease are swapped.
apply_grant_swapped(n, p, w) ==
  IF n.pods[p] = None THEN n
  ELSE [n EXCEPT !.lease[p] = p, !.assigned[w] = @ \cup {p},
                 !.dirty = @ \o <<<<"Lease", p>>, <<"Worker", p>>>>]

apply_grant(n, p, w) ==
  IF n.pods[p] = None THEN n
  ELSE [n EXCEPT !.lease[p] = w, !.assigned[w] = @ \cup {p},
                 !.dirty = @ \o <<<<"Lease", p>>, <<"Worker", p>>>>]

WorkerConnected(w) ==
  LET deferred == {d \in ns.deferred : d.worker = w}
  IN /\ Quiet
     /\ ns.worker[w] = "known"
     /\ Cycle(Fold(LAMBDA n, d : apply_grant(n, d.pod, w),
                   [ns EXCEPT !.worker[w] = "pending", !.deferred = @ \ deferred],
                   S!SetToSeq(deferred)), "event")

(* The buffered commands are sent to the worker.                           *)
NamespaceCreated(w) ==
  /\ Quiet
  /\ ns.worker[w] = "pending"
  /\ Cycle([ns EXCEPT !.worker[w] = "active", !.buffered[w] = NothingPlaced,
                      !.vm[w] = [p \in Pods |-> IF ns.buffered[w][p] # None
                                                 THEN ns.buffered[w][p] ELSE @[p]]], "event")

\* Slip: the assignment edges are dropped silently, too.
DestroyWorker_silent(n, w) ==
  [n EXCEPT
     !.pods     = [p \in Pods |-> IF @[p] = None THEN None
                                  ELSE [@[p] EXCEPT !.out_pod_placement = @ \ {w}]],
     !.assigned[w] = {},
     !.buffered[w] = NothingPlaced,
     !.placed[w]   = NothingPlaced,
     !.vm[w]       = NothingPlaced,
     !.deferred    = {d \in @ : d.worker # w}]

(* destroy_worker: WorkerAssignment edges mark their pods, PodPlacement    *)
(* edges to the port are removed silently. Edge tracking is cleared.       *)
DestroyWorker(n, w) ==
  [n EXCEPT
     !.dirty    = @ \o Marks(<<"Worker">>, n.assigned[w]),
     !.pods     = [p \in Pods |-> IF @[p] = None THEN None
                                  ELSE [@[p] EXCEPT !.out_pod_placement = @ \ {w}]],
     !.assigned[w] = {},
     !.buffered[w] = NothingPlaced,
     !.placed[w]   = NothingPlaced,
     !.vm[w]       = NothingPlaced,
     !.deferred    = {d \in @ : d.worker # w}]

NamespaceFailed(w) ==
  /\ Quiet
  /\ ns.worker[w] = "pending"
  /\ Cycle([DestroyWorker(ns, w) EXCEPT !.worker[w] = "failed"], "event")

\* Slip: the worker port is destroyed before its demand is withdrawn.
WorkerDisconnected_port_first(w) ==
  /\ Quiet
  /\ ns.worker[w] # "off"
  /\ LET n == [DestroyWorker(ns, w) EXCEPT !.worker[w] = "off", !.need = @ \ {w}]
     IN Cycle(IF w \in ns.need THEN Mark(n, <<"Need", EP>>) ELSE n, "event")

WorkerDisconnected(w) ==
  /\ Quiet
  /\ ns.worker[w] # "off"
  /\ LET n == IF w \in ns.need THEN Mark([ns EXCEPT !.need = @ \ {w}], <<"Need", EP>>) ELSE ns
     IN Cycle([DestroyWorker(n, w) EXCEPT !.worker[w] = "off"], "event")

-----------------------------------------------------------------------------
(* The scheduler's decisions: one Grant for the request of each pod.       *)
Grant(p, w) ==
  /\ Idle
  /\ ns.pods[p] # None
  /\ p \notin ns.granted
  /\ IF EarlyGrants THEN ns.worker[w] # "off" ELSE ns.worker[w] = "active"
  /\ LET n == [ns EXCEPT !.granted = @ \cup {p}]
     IN Cycle(IF HasPort(n, w) THEN apply_grant(n, p, w)
              ELSE [n EXCEPT !.deferred = @ \cup {[pod |-> p, worker |-> w]}], "decision")

Revoke(p) ==
  /\ ~ns.busy /\ ns.panic = None
  /\ p \in Revocable
  /\ Cycle([ns EXCEPT !.granted = @ \ {p}, !.lease[p] = None,
                      !.assigned = [w \in Workers |-> @[w] \ {p}],
                      !.dirty = @ \o <<<<"Lease", p>>, <<"Worker", p>>>>], "decision")

-----------------------------------------------------------------------------
(* Events of an active worker about a pod that it was told to run. Events  *)
(* about a pod that is gone are dropped.                                   *)
Runs(w, p) == Idle /\ ns.worker[w] = "active" /\ ns.vm[w][p] # None


Notify(n, w, p, status) ==
  IF n.pods[p] = None THEN n ELSE Send(n, "NotifyPodStatus", w, p, status)

PodRunning(w, p) ==
  /\ Runs(w, p)
  /\ Cycle(Notify(ns, w, p, "Running"), "event")

(* PodExited, with and without an error, and PodFailed.                    *)
PodExited(w, p) ==
  /\ Runs(w, p)
  /\ \E status \in {"Finished", "Failed"} :
       Cycle(Notify([ns EXCEPT !.vm[w][p] = None], w, p, status), "event")

PodSuspended(w, p) ==
  /\ Runs(w, p)
  /\ ns.vm[w][p].snapshot # None
  /\ LET a == ns.vm[w][p].snapshot
         n == [ns EXCEPT !.vm[w][p] = None]
     IN Cycle(IF n.pods[p] = None THEN n
              ELSE Send([n EXCEPT !.artifacts = @ \cup {a}, !.pending_ports = @ \cup {a}],
                        "NotifyPodSuspended", w, p, a), "event")

PodSuspendFailed(w, p) ==
  /\ Runs(w, p)
  /\ ns.vm[w][p].snapshot # None
  /\ Cycle(Notify([ns EXCEPT !.vm[w][p].snapshot = None], w, p, "Failed"), "event")

(* A report that was on its way when the pod went away.                    *)
LateReport(w, p) ==
  /\ Idle
  /\ ns.worker[w] = "active"
  /\ ns.pods[p] = None
  /\ Cycle(Notify(ns, w, p, "Failed"), "event")

(* EndpointDemand, when an endpoint with the address exists. The first one *)
(* of a worker creates its demand port, whose edge marks the input; a mark *)
(* without a change of the level is suppressed.                            *)
DemandActive(w) ==
  /\ Idle
  /\ ns.worker[w] = "active"
  /\ ns.ep # None
  /\ \E active \in BOOLEAN :
       Cycle(Mark([ns EXCEPT !.need = IF active THEN @ \cup {w} ELSE @ \ {w}], <<"Need", EP>>), "event")

DemandTraffic(w) ==
  /\ Idle
  /\ ns.worker[w] = "active"
  /\ ns.ep # None
  /\ Cycle(Send(Mark(ns, <<"Need", EP>>), "EndpointDemandTraffic", w, EP, None), "event")

ArtifactInvalidated(a) ==
  /\ Idle
  /\ a \in ns.artifacts
  /\ Cycle(DestroyArtifact(ns, a), "event")

-----------------------------------------------------------------------------
(* Timers. The wheel holds the timers that are wanted; those that expire   *)
(* together leave it together and are fired one by one.                    *)
Timer(kind, target, keys) == {[kind |-> kind, target |-> target, key |-> key] : key \in keys}

Armed ==
  (IF ns.wl = None THEN {} ELSE Timer("WorkloadTimerFired", WL, ns.wl.out_wanted_timers))
  \cup (IF ns.ep = None THEN {} ELSE Timer("EndpointTimerFired", EP, ns.ep.out_wanted_timers))
  \cup UNION {IF ns.pods[p] = None THEN {}
              ELSE Timer("PodTimerFired", p, ns.pods[p].out_wanted_timers) : p \in Pods}

FireExpired ==
  /\ Idle
  /\ \E expired \in SUBSET Armed \ {{}} :
       /\ Cardinality(expired) <= MaxBatch
       /\ ns' = [ns EXCEPT !.due = expired]

FireTimer ==
  /\ ~ns.busy /\ ns.panic = None
  /\ \E t \in ns.due : Cycle(Send([ns EXCEPT !.due = @ \ {t}], t.kind, None, t.target, t.key), "event")

-----------------------------------------------------------------------------
Next ==
  \/ PropagateRound
  \/ ReconcileArtifacts
  \/ FinishCycle
  \/ ApplySpec
  \/ RemoveSpec
  \/ AdminCommand
  \/ \E w \in Workers :
       \/ WorkerRegistered(w)
       \/ WorkerConnected(w)
       \/ NamespaceCreated(w)
       \/ NamespaceFailed(w)
       \/ WorkerDisconnected(w)
       \/ DemandActive(w)
       \/ DemandTraffic(w)
       \/ \E p \in Pods :
            \/ Grant(p, w)
            \/ PodRunning(w, p)
            \/ PodExited(w, p)
            \/ PodSuspended(w, p)
            \/ PodSuspendFailed(w, p)
            \/ LateReport(w, p)
  \/ \E p \in Pods : Revoke(p)
  \/ \E a \in Artifacts : ArtifactInvalidated(a)
  \/ FireExpired
  \/ FireTimer

Spec == Init /\ [][Next]_ns

(* run_cycle is one call in one thread: it goes on until it is over. While *)
(* it runs its steps are the only ones that are enabled, and one of them   *)
(* is, so that this is weak fairness of the three.                         *)
FairSpec == Spec /\ ([]<>~Running \/ []<><<TRUE>>_ns)

-----------------------------------------------------------------------------
Settled == ~ns.busy /\ ns.panic = None

Live == {p \in Pods : ns.pods[p] # None}

TypeOK ==
  /\ ns.wl \in W!Workload \cup {None}
  /\ ns.ep \in E!Endpoint \cup {None}
  /\ ns.pods \in [Pods -> P!Pod \cup {None}]
  /\ ns.spec \in Specs \cup {None}
  /\ ns.need \subseteq Workers
  /\ ns.worker \in [Workers -> WorkerState]
  /\ ns.assigned \in [Workers -> SUBSET Pods]
  /\ ns.lease \in [Pods -> Workers \cup {None}]
  /\ ns.deferred \subseteq [pod: Pods, worker: Workers]
  /\ ns.artifacts \subseteq Artifacts
  /\ ns.valid \subseteq ns.artifacts
  /\ ns.depth \in 0..(DepthLimit - 1)

(* No handler of the namespace panics: no event without an edge, no        *)
(* command for a worker without a pool, no propagation beyond the depth    *)
(* limit.                                                                  *)
NoPanic == ns.panic = None

(* Between cycles every pod belongs to the workload, and the pod knows it: *)
(* a pod nobody owns would never be stopped.                               *)
EveryPodIsOwned ==
  Settled => \A p \in Live :
                /\ OwnerOf(ns, p)
                /\ ns.pods[p].workload_id = WL
                /\ ns.pods[p].intent = ns.wl.out_pod_intent

(* Propagation leaves no machine with an old view: between cycles the      *)
(* value last delivered to an input is the value of its sources, whatever  *)
(* was created, destroyed or disconnected on the way.                      *)
Unset(k) ==
  CASE k = "Demand"    -> [active |-> FALSE, endpoints |-> {}]
    [] k = "PodStatus" -> {}
    [] k = "Artifact"  -> "invalid"
    [] k = "Need"      -> FALSE
    [] OTHER           -> None

Present(t) == CASE t = WL -> ns.wl # None [] t = EP -> ns.ep # None [] OTHER -> t \in Live

InputsAreCurrent ==
  Settled => \A i \in Inputs :
     Present(i[2]) => Aggregate(ns, i) = (IF ns.last[i] = Never THEN Unset(i[1]) ELSE ns.last[i])

(* A workload is announced ready only while its pod is running the current *)
(* pod spec, and traffic is sent to a worker that has that pod.            *)
ReadinessIsReal ==
  (Settled /\ ns.wl # None) =>
     LET r == ns.wl.out_readiness
     IN r # None =>
          /\ r.pod \in Live
          /\ ns.pods[r.pod].status = "Running"
          /\ r.worker \in Workers
          /\ ns.vm[r.worker][r.pod] # None
          /\ ns.vm[r.worker][r.pod].spec.pod_spec = ns.wl.current_pod_spec

(* A worker that is set up runs only pods that exist and are placed on it: *)
(* whatever was launched is stopped in the end.                            *)
NoOrphanVm ==
  Settled => \A w \in Workers, p \in Pods :
     ns.vm[w][p] # None => p \in Live /\ ns.pods[p].out_pod_placement = {w}

(* A worker is told to run the pod spec that the workload has now, unless  *)
(* the workload knows that its pod is out of date: the spec has reached    *)
(* the pod before the grant can turn it into a command.                    *)
LaunchedAsSpecified ==
  Settled => \A w \in Workers, p \in Live :
     \A c \in {ns.vm[w][p], ns.buffered[w][p]} \ {None} :
        /\ c.spec # None
        /\ c.spec.pod_spec # ns.wl.current_pod_spec => ns.wl.stale

(* Artifact ports exist exactly for the artifact that the workload refers  *)
(* to, and the workload's idea of its validity is the port's.              *)
ArtifactsAreReferenced ==
  Settled => /\ ns.artifacts = (IF ns.wl = None THEN {} ELSE ns.wl.out_artifact_ref)
             /\ ns.wl # None => (ns.wl.artifact_confirmed <=> ns.valid # {})

(* Demand is served: between cycles a workload with demand, its endpoint's *)
(* or its own, has a pod, unless it has completed, has failed for good, or *)
(* waits for its backoff or its artifact with the timer that ends the wait *)
(* armed. No order of events leaves it asleep.                             *)
DemandIsServed ==
  (Settled /\ ns.wl # None) =>
     LET armed == ns.wl.out_wanted_timers
         waits == \/ W!OutOfRetries(ns.wl)
                  \/ ns.wl.in_backoff /\ "RetryBackoff" \in armed
                  \/ W!AwaitsArtifact(ns.wl) /\ "ArtifactConfirm" \in armed
     IN (ns.ep.out_demand \/ ~ns.wl.respects_demand) /\ ~ns.wl.completed /\ ~waits
           => ns.wl.pod_id \in Live

(* What the comment on the flush of buffered commands says: a Resume may   *)
(* arrive before the worker completed its setup (build_resume_command).    *)
ResumeMayArriveEarly == ns.panic # "resume target worker must have a pool"

(* What advance_to says of the timers that expired together: one that is   *)
(* not wanted any more is not fired.                                       *)
ExpiredTimersAreWanted ==
  ns.panic \notin {"no edge between timer and workload", "no edge between timer and endpoint",
                   "no edge between timer and pod"}

(* A scheduler decision makes the namespace send no new message to the     *)
(* scheduler: it creates and destroys no pod and no artifact reference.    *)
DecisionIsFinal ==
  ns.cause = "decision" => /\ {p \in Pods : ns'.pods[p] # None} = Live
                           /\ ns'.refs = ns.refs
                           /\ ns'.creates = {}
DecisionsAreFinal == [][DecisionIsFinal]_ns

(* A job that has completed is run again only after a new spec, an admin   *)
(* command, or a lapse of demand that it respects.                         *)
JobIsOver ==
  (ns.wl # None /\ ns.wl.completed /\ ns'.wl # None /\ ~ns'.wl.completed) =>
     ns.cause \in {"spec", "admin"} \/ ns.wl.respects_demand

(* Every cycle ends: the loop between propagation and the artifact adapter *)
(* in run_cycle has no bound of its own.                                   *)
CycleEnds == ns.busy ~> ~ns.busy
=============================================================================
