----------------------------- MODULE MCControl ------------------------------
(***************************************************************************)
(* The parts of the orchestrator outside the cycle of a namespace, and the *)
(* client that watches one, checked side by side: on names the part a      *)
(* behaviour exercises and the state of the others stays as it began, so   *)
(* that the state space is the sum of theirs.                              *)
(***************************************************************************)
EXTENDS Workload, Integers, Sequences, FiniteSets

CONSTANT Parts  \* of "workload", "orchestrator", "addresses", "announce", "logs", "watch", "link"
VARIABLE on

(* Every combination of the pod specs and the three configuration flags. *)
AllSpecs == WorkloadSpec

----------------------------------------------------------------------------
(* The core, its scheduler and the state of the workers.  Psi: calm, and   *)
(* above High; the memory score 45 is Elevated only after 60.              *)
CONSTANTS MaxWorkers, Tunnelled, Names, MaxNs, Segments, UnitPods, MaxArtifacts, Pressured,
          Drainable, Failing
Running == {<<"a", 1>>, <<"b", 2>>}
Suspending == {<<"a", 1>>}
Psi == {[compute |-> 30, memory |-> 60, storage |-> 0],
        [compute |-> 90, memory |-> 45, storage |-> 0]}
VARIABLES core, sched, ws, units, wires, inbox
O == INSTANCE Orchestrator WITH Pods <- UnitPods
oVars == <<core, sched, ws, units, wires, inbox>>

(* Addresses alone, for resources of which some have written addresses,    *)
(* and the endpoints and names with the workers they are announced to.     *)
CONSTANTS Addressed, Written, Resources, Subnet, WgReserve, MaxPatch, MaxConnects, Peers, Connections,
          Activated, MaxQueue
VARIABLES al, current, wgNext, wgPeers, worker, queue, answered, backend, endpoint_cache,
          wg_peer_cache, dns_cache, table, names, peers
D == INSTANCE Addresses WITH Resources <- Addressed, Explicit <- Written,
                             Gateways <- Connections
A == INSTANCE Announce WITH Workers <- Connections, Gateways <- Connections, Explicit <- {}
workerVars == <<worker, queue, answered, backend, endpoint_cache, wg_peer_cache, dns_cache,
                table, names, peers>>
aVars == <<al, current, wgNext, wgPeers, workerVars>>

(* The log bus. *)
CONSTANTS Topics, Subs, LogRing, LogChannel, SweepThreshold, MaxSeq, MaxStreams
VARIABLES topics, standing, chan, last, live, known, stream, seq, missed
L == INSTANCE LogBus WITH RingSize <- LogRing, ChannelSize <- LogChannel
lVars == <<topics, standing, chan, last, live, known, stream, seq, missed>>

(* The events of a namespace and a client that watches it. *)
CONSTANTS Statuses, Watched, RingSize, ChannelSize, MaxEvents
VARIABLES status, pods, ring, sub, client, since, made
N == INSTANCE Watch WITH wl <- status, Pods <- Watched
nVars == <<status, pods, ring, sub, client, since, made>>

(* The shell and its connections to the workers. *)
CONSTANTS Links, Chan, Wire, MaxClients, MaxCommands
VARIABLES shell, link, issued, got
K == INSTANCE ControlLink WITH Workers <- Links
kVars == <<shell, link, issued, got>>

----------------------------------------------------------------------------
ControlInit == on \in Parts /\ Init /\ O!Init /\ A!NInit /\ L!LInit /\ N!NInit /\ K!KInit

ControlNext ==
  \/ on = "workload" /\ Next /\ UNCHANGED <<on, oVars, aVars, lVars, nVars, kVars>>
  \/ on = "orchestrator" /\ O!Next /\ UNCHANGED <<on, vars, aVars, lVars, nVars, kVars>>
  \/ on = "addresses" /\ D!ANext /\ UNCHANGED <<on, workerVars, vars, oVars, lVars, nVars, kVars>>
  \/ on = "announce" /\ A!NNext /\ UNCHANGED <<on, vars, oVars, lVars, nVars, kVars>>
  \/ on = "logs" /\ L!LNext /\ UNCHANGED <<on, vars, oVars, aVars, nVars, kVars>>
  \/ on = "watch" /\ N!NNext /\ UNCHANGED <<on, vars, oVars, aVars, lVars, kVars>>
  \/ on = "link" /\ K!KNext /\ UNCHANGED <<on, vars, oVars, aVars, lVars, nVars>>

ControlSpec ==
  ControlInit /\ [][ControlNext]_<<on, vars, oVars, aVars, lVars, nVars, kVars>>

----------------------------------------------------------------------------
(* Every handler leaves the workload reconciled, with the timer of each    *)
(* wait and a pod under each suspend; a backoff is a retry that is allowed *)
(* (sm/workload.rs).                                                       *)
WorkloadIsReconciled ==
  Reconciled /\ SuspendHasPod /\ EveryWaitHasItsTimer /\ EdgesMatchFields /\ BackoffMeansRetry

(* Between handlers the scheduler has settled: pod counts are grants, no   *)
(* request waits that could be placed, and no band would move by itself    *)
(* (scheduler/mod.rs, worker_state.rs).                                    *)
SchedulerIsSettled == O!PodCountsAreLeases /\ O!PendingMeansNoWorker /\ O!BandsAreSettled

(* The layers agree: the leases a namespace holds are the scheduler's      *)
(* grants, and the registry of every worker names the segments of the live *)
(* namespaces (orchestrator/mod.rs).                                       *)
LayersAgree == O!LeasesAreGrants /\ O!SegmentsAreAgreed


(* No address is allocated twice, and a worker that has taken its commands *)
(* has the namespace's names and the peers placed on it (ip_alloc.rs,      *)
(* inner.rs).                                                              *)
WorkersAreCurrent == D!AllocationsAreDistinct /\ A!ActiveWorkersAreCurrent

(* A subscriber takes each chunk of a log at most once and in order        *)
(* (log_bus.rs).                                                           *)
ChunksComeOnceInOrder == L!ChunksComeOnceInOrder

(* A watcher that has read everything agrees with the namespace            *)
(* (client/src/watcher.rs).                                                *)
ReadUpMeansAgreed == N!ReadUpMeansAgreed

(* A worker takes the commands the shell had for it in their order         *)
(* (shell/async/mod.rs).                                                   *)
CommandsComeInOrder == K!CommandsComeInOrder
=============================================================================
