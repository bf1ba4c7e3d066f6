---------------------------- MODULE Orchestrator ----------------------------
(***************************************************************************)
(* The orchestrator core (OrchestratorCore) under the asynchronous shell:  *)
(* workers connect and disconnect, namespaces are created and destroyed,   *)
(* namespaces request and drop leases and artifact references, workers     *)
(* report pressure, conditions and artifact writes.                        *)
(*                                                                         *)
(* The shell is one task.  A handler runs to its end before the next event *)
(* is taken; what it still has to deliver to namespaces is `inbox', and    *)
(* while that is not empty only Deliver is enabled.  A namespace's answer  *)
(* is processed inline, before the rest of the inbox.                      *)
(*                                                                         *)
(* A namespace unit is reduced to what it exchanges with the core: the     *)
(* workers it knows, the pods it has asked leases for, the leases and the  *)
(* grants it defers, the artifacts it holds.  Its inside is Namespace.tla. *)
(*                                                                         *)
(* wires[w] is what worker w has been told and what it does: the last      *)
(* registry, the namespaces it was told to create, the artifacts it is     *)
(* writing and holds (artifact id -> namespace that wrote it).             *)
(***************************************************************************)
EXTENDS SchedulerSm

CONSTANTS
    MaxWorkers,     \* bound on worker ids, which are never reused
    Tunnelled,      \* the workers that announce a tunnel
    Names,          \* namespace names
    MaxNs,          \* bound on the namespace counter
    Segments,       \* number of segment id values (65536 in the code)
    Pods,           \* pods of a namespace
    Running,        \* the namespaces (name and counter) that run pods
    Suspending,     \* those of them that suspend pods
    MaxArtifacts,   \* bound on the artifact counter of a namespace
    Pressured,      \* the workers that report pressure
    Drainable,      \* the workers that report the draining condition
    Psi,            \* pressure samples
    Failing         \* the workers that may fail to create a namespace

VARIABLES core, sched, ws, units, wires, inbox
vars == <<core, sched, ws, units, wires, inbox>>

Busy == inbox # <<>>
Alive == DOMAIN units

NewUnit == [known |-> {}, want |-> {}, leases |-> Empty, deferred |-> {},
            artifacts |-> {}, next_artifact |-> 1]

Init ==
    /\ core = [connected |-> {}, next_worker |-> 1, ids |-> {}, next_namespace |-> 1,
               next_segment |-> 1, active_segments |-> {}, segments |-> Empty]
    /\ sched = NewScheduler
    /\ ws = [workers |-> Empty, namespace_segments |-> Empty]
    /\ units = Empty
    /\ wires = Empty
    /\ inbox = <<>>

-----------------------------------------------------------------------------
(* What a handler accumulates: OrchestratorOutput, with the two cores.     *)

Output == [sched |-> sched, ws |-> ws, todo |-> <<>>, to_namespaces |-> <<>>,
           broadcasts |-> <<>>, creates |-> {}, deletes |-> {}, reported |-> {}]

Broadcast(out) == [out EXCEPT !.broadcasts = Append(@, build_worker_registry(out.ws))]

\* The decisions still to be routed: first the pod count, then the message.
Steps(decisions) == FlattenSeq([i \in DOMAIN decisions |->
    <<[step |-> "count", decision |-> decisions[i]], [step |-> "send", decision |-> decisions[i]]>>])

\* A changed worker is offered to the scheduler; what it grants goes first.
UpdateScheduler(out, worker) ==
    LET r == WorkerUpdate(out.sched, worker, to_candidate(out.ws.workers[worker]))
    IN  [out EXCEPT !.sched = r.sched, !.todo = Steps(r.decisions) \o @]

\* Slip: the count is changed but the scheduler keeps its old copy.
PodCountChange_local(out, worker, delta) ==
    IF worker \notin DOMAIN out.ws.workers THEN out
    ELSE [out EXCEPT !.ws.workers[worker].pod_count = Max({0, @ + delta})]

PodCountChange(out, worker, delta) ==
    IF worker \notin DOMAIN out.ws.workers THEN out
    ELSE UpdateScheduler(
            [out EXCEPT !.ws.workers[worker] =
                recompute_pressure_from_psi([@ EXCEPT !.pod_count = Max({0, @ + delta})])],
            worker)

RouteStep(out) ==
    LET head == Head(out.todo)
        rest == [out EXCEPT !.todo = Tail(@)]
        d    == head.decision
    IN  IF out.todo = <<>> THEN out
        ELSE IF head.step = "send"
        THEN [rest EXCEPT !.to_namespaces = Append(@, [ns |-> d.key[1], msg |-> d])]
        ELSE PodCountChange(rest, d.worker, IF d.kind = "Grant" THEN 1 ELSE -1)

\* Every nested grant empties a pending entry, which bounds the routing.
Route(out) ==
    FoldLeft(LAMBDA o, i : RouteStep(o), out,
             [i \in 1 .. 2 * (Len(out.todo) + Cardinality(DOMAIN out.sched.pending)) |-> i])

route_scheduler_effects(out, result) ==
    Route([out EXCEPT !.sched = result.sched, !.todo = Steps(result.decisions)])

\* Invalidations go to all namespaces.
RouteInvalidations(out, lost) ==
    [out EXCEPT !.to_namespaces = @ \o SetToSeq(
        {[ns |-> n, msg |-> [kind |-> "ArtifactInvalidated", artifact |-> a]] :
            n \in core.ids, a \in lost})]

NamespaceAssigned(out, worker, n) ==
    LET segment == out.ws.namespace_segments[n]
    IN  IF segment \in out.ws.workers[worker].segments THEN out
        ELSE Broadcast([out EXCEPT !.ws.workers[worker].segments = @ \cup {segment}])

\* Slip: the workers are not told that a segment is gone.
NamespaceUnassigned_quiet(out, worker, n) ==
    IF worker \notin DOMAIN out.ws.workers THEN out
    ELSE [out EXCEPT !.ws.workers[worker].segments = @ \ {out.ws.namespace_segments[n]}]

NamespaceUnassigned(out, worker, n) ==
    IF worker \notin DOMAIN out.ws.workers THEN out
    ELSE IF out.ws.namespace_segments[n] \notin out.ws.workers[worker].segments THEN out
    ELSE Broadcast([out EXCEPT !.ws.workers[worker].segments =
                        @ \ {out.ws.namespace_segments[n]}])

\* What one message of a namespace does.
FromNamespace(out, n, m) ==
    CASE m.kind = "RequestLease" ->
            route_scheduler_effects(out, RequestLease(out.sched, <<n, m.pod>>, m.artifact))
      [] m.kind = "DropRequest" ->
            route_scheduler_effects(out, DropRequest(out.sched, <<n, m.pod>>))
      [] m.kind = "ArtifactReferenced" ->
            [out EXCEPT !.sched = ArtifactReferenced(@, m.artifact, n)]
      [] m.kind = "ArtifactReleased" ->
            LET r == ArtifactReleased(out.sched, m.artifact)
            IN  [out EXCEPT !.sched = r.sched,
                            !.deletes = @ \cup {<<w, m.artifact>> : w \in r.deletes}]

FromNamespaceAll(out, n, messages) ==
    FoldLeft(LAMBDA o, m : FromNamespace(o, n, m), out, messages)

-----------------------------------------------------------------------------
(* The shell puts the output on the wires and delivers the messages.       *)

route_orchestrator_output(out, slots, rest) ==
    /\ sched' = out.sched
    /\ ws' = out.ws
    /\ inbox' = out.to_namespaces \o rest
    /\ wires' = [w \in slots |->
           LET old == IF w \in DOMAIN wires THEN wires[w]
                      ELSE [registry |-> Empty, created |-> {}, writing |-> {}, files |-> Empty]
               gone == {a \in DOMAIN old.files : <<w, a>> \in out.deletes}
           IN  [old EXCEPT !.registry = IF out.broadcasts = <<>> THEN @ ELSE Last(out.broadcasts),
                           !.created = @ \cup {c[2] : c \in {d \in out.creates : d[1] = w}},
                           !.writing = {x \in @ : <<w, x[1], x[2]>> \notin out.reported},
                           !.files = Without(@, gone)]]

Slots == DOMAIN wires
Settle(out) == route_orchestrator_output(out, Slots, <<>>)

\* A worker connection: the slot exists before the output is routed, and
\* what the scheduler grants comes before the WorkerConnected messages.
worker_connected ==
    /\ ~Busy
    /\ core.next_worker <= MaxWorkers
    /\ LET w   == core.next_worker
           out == Route(UpdateScheduler(
                     Broadcast([Output EXCEPT !.ws.workers = (w :> NewWorker(w \in Tunnelled)) @@ @]),
                     w))
           Join(o, n) ==
               NamespaceAssigned(
                   [o EXCEPT !.creates = @ \cup {<<w, n>>},
                             !.to_namespaces =
                                 Append(@, [ns |-> n, msg |-> [kind |-> "WorkerConnected", worker |-> w]])],
                   w, n)
       IN  /\ core' = [core EXCEPT !.next_worker = @ + 1, !.connected = @ \cup {w}]
           /\ route_orchestrator_output(FoldLeft(Join, out, SetToSeq(core.ids)), Slots \cup {w}, <<>>)
    /\ UNCHANGED units

\* A handshake that fails after the hello uses up the worker id.
handshake_failed ==
    /\ ~Busy
    /\ core.next_worker < MaxWorkers
    /\ core' = [core EXCEPT !.next_worker = @ + 1]
    /\ UNCHANGED <<sched, ws, units, wires, inbox>>

worker_disconnected(w) ==
    /\ ~Busy
    /\ w \in core.connected
    /\ LET r   == WorkerRemoved(sched, w)
           out == RouteInvalidations(
                     Broadcast([Output EXCEPT !.sched = r.sched, !.ws.workers = Without(@, {w})]),
                     r.invalidations)
           Leave(o, n) ==
               NamespaceUnassigned(
                   [o EXCEPT !.to_namespaces =
                       Append(@, [ns |-> n, msg |-> [kind |-> "WorkerDisconnected", worker |-> w]])],
                   w, n)
       IN  /\ core' = [core EXCEPT !.connected = @ \ {w}]
           /\ route_orchestrator_output(FoldLeft(Leave, out, SetToSeq(core.ids)), Slots \ {w}, <<>>)
    /\ UNCHANGED units

\* Slip: the ids that are in use are not skipped.
alloc_segment_id_blind(next, active) == IF next = 0 THEN 1 ELSE next

\* The first free id from `next' on, wrapping around and skipping 0.
alloc_segment_id(next, active) ==
    LET At(i) == (next + i) % Segments
        free  == {i \in 0 .. Segments - 1 : At(i) # 0 /\ At(i) \notin active}
    IN  At(Min(free))

create_namespace(name) ==
    /\ ~Busy
    /\ core.next_namespace <= MaxNs
    /\ \A n \in core.ids : n[1] # name
    \* With every id taken the loop of the code does not end.
    /\ Cardinality(core.active_segments) < Segments - 1
    /\ LET n   == <<name, core.next_namespace>>
           seg == alloc_segment_id(core.next_segment, core.active_segments)
           out == [Output EXCEPT !.ws.namespace_segments = (n :> seg) @@ @]
           Join(o, w) == NamespaceAssigned([o EXCEPT !.creates = @ \cup {<<w, n>>}], w, n)
           told == SetToSeq({[ns |-> n, msg |-> [kind |-> "WorkerConnected", worker |-> w]] :
                                w \in core.connected})
       IN  /\ core' = [core EXCEPT !.ids = @ \cup {n}, !.next_namespace = @ + 1,
                                   !.next_segment = (seg + 1) % Segments,
                                   !.active_segments = @ \cup {seg},
                                   !.segments = (n :> seg) @@ @]
           /\ route_orchestrator_output(FoldLeft(Join, out, SetToSeq(core.connected)), Slots, told)
           /\ units' = (n :> NewUnit) @@ units

\* Neither the workers nor the scheduler are told of it.
destroy_namespace(n) ==
    /\ ~Busy
    /\ n \in core.ids
    /\ LET Leave(o, w) == NamespaceUnassigned(o, w, n)
           out == FoldLeft(Leave, Output, SetToSeq(core.connected))
       IN  /\ core' = [core EXCEPT !.ids = @ \ {n}, !.active_segments = @ \ {core.segments[n]},
                                   !.segments = Without(@, {n})]
           /\ Settle([out EXCEPT !.ws.namespace_segments = Without(@, {n})])
    /\ units' = Without(units, {n})

-----------------------------------------------------------------------------
(* What a namespace unit does with a message, and what it sends back.      *)

Drops(pods) == SetToSeq({[kind |-> "DropRequest", pod |-> p] : p \in pods})

\* The pods placed on a worker that is lost fail and their leases are dropped.
LoseWorker(u, w) ==
    LET lost == {p \in DOMAIN u.leases : u.leases[p] = w}
    IN  [unit |-> [u EXCEPT !.known = @ \ {w}, !.leases = Without(@, lost), !.want = @ \ lost,
                            !.deferred = {d \in @ : d[2] # w}],
         sends |-> Drops(lost)]

Quiet(u) == [unit |-> u, sends |-> <<>>]

\* Slip: a grant for a worker the namespace does not know yet is dropped.
UnitGrant_lost(u, p, w) ==
    IF w \in u.known THEN [u EXCEPT !.leases = (p :> w) @@ @] ELSE u

\* A grant for a worker that is not known yet is deferred.
UnitGrant(u, p, w) ==
    IF w \in u.known THEN [u EXCEPT !.leases = (p :> w) @@ @]
    ELSE [u EXCEPT !.deferred = @ \cup {<<p, w>>}]

UnitWorkerConnected(u, w) ==
    LET now == {d \in u.deferred : d[2] = w}
    IN  [u EXCEPT !.known = @ \cup {w}, !.deferred = @ \ now,
                  !.leases = [p \in {d[1] : d \in now} |-> w] @@ @]

UnitReaction(u, m) ==
    CASE m.kind = "Grant" -> Quiet(UnitGrant(u, m.key[2], m.worker))
      [] m.kind = "Revoke" -> Quiet([u EXCEPT !.leases = Without(@, {m.key[2]})])
      [] m.kind = "WorkerConnected" -> Quiet(UnitWorkerConnected(u, m.worker))
      [] m.kind = "WorkerDisconnected" -> LoseWorker(u, m.worker)
      [] m.kind = "ArtifactInvalidated" -> Quiet([u EXCEPT !.artifacts = @ \ {m.artifact}])

\* The unit changes to u and its messages are processed before the rest.
UnitStep(n, u, sends, rest) ==
    /\ units' = [units EXCEPT ![n] = u]
    /\ UNCHANGED core
    /\ route_orchestrator_output(FromNamespaceAll(Output, n, sends), Slots, rest)

\* The next message of the running handler; one for a namespace that is
\* gone is dropped.
Deliver ==
    /\ Busy
    /\ LET n == Head(inbox).ns
           r == UnitReaction(units[n], Head(inbox).msg)
       IN  IF n \in Alive THEN UnitStep(n, r.unit, r.sends, Tail(inbox))
           ELSE inbox' = Tail(inbox) /\ UNCHANGED <<core, sched, ws, units, wires>>

\* A pod wants a lease, from nothing or from an artifact the namespace holds.
request_lease(n, p, artifact) ==
    /\ ~Busy
    /\ p \notin units[n].want
    /\ artifact = NoArtifact \/ artifact \in units[n].artifacts
    /\ UnitStep(n, [units[n] EXCEPT !.want = @ \cup {p}],
                <<[kind |-> "RequestLease", pod |-> p, artifact |-> artifact]>>, <<>>)

\* A pod ends, for any reason.
drop_request(n, p) ==
    /\ ~Busy
    /\ p \in units[n].want
    /\ UnitStep(n, [units[n] EXCEPT !.want = @ \ {p}, !.leases = Without(@, {p})],
                Drops({p}), <<>>)

\* A workload lets go of an artifact.
release_artifact(n, a) ==
    /\ ~Busy
    /\ a \in units[n].artifacts
    /\ UnitStep(n, [units[n] EXCEPT !.artifacts = @ \ {a}],
                <<[kind |-> "ArtifactReleased", artifact |-> a]>>, <<>>)

\* The worker could not create the namespace: its pods there are displaced,
\* and nobody else is told.  No pod of the namespace has run there.
namespace_failed(n, w) ==
    /\ ~Busy
    /\ w \in units[n].known
    /\ \A x \in wires[w].writing : x[1] # n
    /\ n \notin Range(wires[w].files)
    /\ LET r == LoseWorker(units[n], w) IN UnitStep(n, r.unit, r.sends, <<>>)

-----------------------------------------------------------------------------
(* Events of the workers *)

worker_condition(w, draining) ==
    /\ ~Busy
    /\ w \in core.connected /\ ws.workers[w].draining # draining
    /\ Settle(Route(UpdateScheduler([Output EXCEPT !.ws.workers[w].draining = draining], w)))
    /\ UNCHANGED <<core, units>>

pressure_update(w, psi) ==
    /\ ~Busy
    /\ w \in core.connected /\ ws.workers[w].psi # {psi}
    /\ Settle(Route(UpdateScheduler(
           [Output EXCEPT !.ws.workers[w] = recompute_pressure_from_psi([@ EXCEPT !.psi = {psi}])], w)))
    /\ UNCHANGED <<core, units>>

\* A suspend on worker w writes the namespace's next artifact id.
write_started(w, n) ==
    /\ ~Busy
    /\ n \in Suspending /\ w \in Slots
    /\ \E p \in DOMAIN units[n].leases : units[n].leases[p] = w
    /\ units[n].next_artifact <= MaxArtifacts
    /\ LET a == units[n].next_artifact
       IN  /\ sched' = ArtifactEvent(sched, w, a, "Writing")
           /\ wires' = [wires EXCEPT ![w].writing = @ \cup {<<n, a, "started">>}]
    /\ units' = [units EXCEPT ![n].next_artifact = @ + 1]
    /\ UNCHANGED <<core, ws, inbox>>

write_committed(w, n, a) ==
    /\ ~Busy
    /\ <<n, a, "started">> \in wires[w].writing
    /\ sched' = ArtifactEvent(sched, w, a, "Ready")
    /\ wires' = [wires EXCEPT ![w].writing = (@ \ {<<n, a, "started">>}) \cup {<<n, a, "committed">>},
                              ![w].files = (a :> n) @@ @]
    /\ UNCHANGED <<core, ws, units, inbox>>

\* PodSuspended arrives: the artifact is taken up, or released at once when
\* nothing wants it any more.  For a namespace that is gone it is dropped.
pod_suspended(w, n, a, taken) ==
    /\ ~Busy
    /\ <<n, a, "committed">> \in wires[w].writing
    /\ LET send == [kind |-> IF taken THEN "ArtifactReferenced" ELSE "ArtifactReleased",
                    artifact |-> a]
           out  == FromNamespace(Output, n, send)
       IN  IF n \in Alive
           THEN /\ units' = [units EXCEPT ![n].artifacts = IF taken THEN @ \cup {a} ELSE @]
                /\ route_orchestrator_output([out EXCEPT !.reported = {<<w, n, a>>}], Slots, <<>>)
           ELSE /\ wires' = [wires EXCEPT ![w].writing = @ \ {<<n, a, "committed">>}]
                /\ UNCHANGED <<sched, ws, units, inbox>>
    /\ UNCHANGED core

-----------------------------------------------------------------------------
Next ==
    \/ worker_connected
    \/ handshake_failed
    \/ \E w \in core.connected : worker_disconnected(w)
    \/ \E name \in Names : create_namespace(name)
    \/ \E n \in core.ids : destroy_namespace(n)
    \/ Deliver
    \/ \E n \in Running \cap Alive, p \in Pods, a \in 0 .. MaxArtifacts : request_lease(n, p, a)
    \/ \E n \in Alive, p \in Pods : drop_request(n, p)
    \/ \E n \in Alive, a \in 1 .. MaxArtifacts : release_artifact(n, a)
    \/ \E n \in Alive, w \in Failing : namespace_failed(n, w)
    \/ \E w \in Drainable, d \in BOOLEAN : worker_condition(w, d)
    \/ \E w \in Pressured, psi \in Psi : pressure_update(w, psi)
    \/ \E w \in Slots, n \in Alive : write_started(w, n)
    \/ \E w \in Slots, n \in Suspending, a \in 1 .. MaxArtifacts : write_committed(w, n, a)
    \/ \E w \in Slots, n \in Suspending, a \in 1 .. MaxArtifacts, taken \in BOOLEAN :
           pod_suspended(w, n, a, taken)

Spec == Init /\ [][Next]_vars

-----------------------------------------------------------------------------
(* Properties *)

LeasesOn(w) == {k \in DOMAIN sched.granted : sched.granted[k] = w}

\* The pod counts by which workers are compared are right: between handlers
\* the count of every connected worker is the number of pods granted on it,
\* although counting a grant updates the scheduler, which may grant again;
\* and the scheduler's candidates are the current state of the workers.
PodCountsAreLeases ==
    /\ DOMAIN sched.workers = DOMAIN ws.workers
    /\ \A w \in DOMAIN ws.workers :
           /\ ws.workers[w].pod_count = Cardinality(LeasesOn(w))
           /\ sched.workers[w] = to_candidate(ws.workers[w])

\* No request waits while it could be placed: if any is pending no worker is
\* eligible, whatever order of updates led there, and no pod is both pending
\* and granted.  (scheduler: process, retry_pending)
PendingMeansNoWorker ==
    /\ DOMAIN sched.pending # {} => Eligible(sched.workers) = {}
    /\ DOMAIN sched.pending \cap DOMAIN sched.granted = {}

\* Applying the same pressure sample again changes no band.  Every change of
\* a pod count does so, and must not move a worker's band by itself.
\* (worker_state.rs: recompute_pressure_from_psi)
BandsAreSettled ==
    \A w \in DOMAIN ws.workers :
        recompute_pressure_from_psi(ws.workers[w]) = ws.workers[w]

\* A segment stands for one namespace: live namespaces have distinct, nonzero
\* segments even after the ids wrapped around, every connected worker is
\* assigned exactly those, and the registry each worker was last sent says so.
SegmentsAreAgreed ==
    /\ DOMAIN core.segments = core.ids
    /\ \A n \in core.ids : core.segments[n] # 0
    /\ \A m, n \in core.ids : m # n => core.segments[m] # core.segments[n]
    /\ \A w \in core.connected :
           /\ ws.workers[w].segments = {core.segments[n] : n \in core.ids}
           /\ wires[w].registry = build_worker_registry(ws)

\* What a namespace holds is what the scheduler granted: between handlers
\* every grant of a live namespace has reached it as a lease, or waits in it
\* for a worker that has gone; and it holds no other lease.
LeasesAreGrants ==
    ~Busy => \A n \in Alive :
        /\ \A p \in DOMAIN units[n].leases :
               <<n, p>> \in DOMAIN sched.granted /\ sched.granted[<<n, p>>] = units[n].leases[p]
        /\ \A k \in DOMAIN sched.granted :
               k[1] = n /\ sched.granted[k] \in units[n].known => k[2] \in DOMAIN units[n].leases


\* A worker runs only namespaces that exist: the destruction of a namespace
\* is sent to every worker that was told to create it.
DestroyedOnWorkers == \A w \in Slots : wires[w].created \subseteq core.ids

\* A worker on which the namespace could not be created gets no pods of it:
\* between handlers every pod of a namespace granted on a connected worker is
\* on a worker that the namespace knows.
NoPodsOnFailedWorkers ==
    ~Busy => \A k \in DOMAIN sched.granted :
        k[1] \in Alive /\ sched.granted[k] \in core.connected
            => sched.granted[k] \in units[k[1]].known
=============================================================================
