------------------------------ MODULE MCLive --------------------------------
(***************************************************************************)
(* The parts besides the pod machine that must make progress, checked side *)
(* by side: the endpoint machine, the cycles of a namespace, the worker's  *)
(* main loop with its pod supervisors, and the reports of a guest.  on     *)
(* names the part a behaviour exercises and the state of the others stays  *)
(* as it began, so that the state space is the sum of theirs.              *)
(***************************************************************************)
EXTENDS Endpoint, Naturals, Sequences

CONSTANT Parts  \* of "endpoint", "namespace", "worker", "events"
VARIABLE on

(* A namespace with a service that is suspended when idle. *)
CONSTANTS NsPods, NsWorkers, Artifacts, PodSpecs, MaxRetries, DepthLimit, MaxBatch, Never
Suspending ==
  [pod_spec: PodSpecs, respects_demand: {TRUE}, suspend_on_idle: {TRUE}, run_policy: {"Service"}]
VARIABLE ns
N == INSTANCE Namespace WITH Pods <- NsPods, Workers <- NsWorkers, Specs <- Suspending,
                             EarlyGrants <- FALSE

(* The main loop and its supervisors, all pods in one namespace. *)
CONSTANTS Namespaces, BgCapacity, Telemetry, MaxSuspends, MaxCreates, Traffic
Home(p) == CHOOSE n \in Namespaces : TRUE
VARIABLES sup, bg, disk, namespaces, pods, main, log, asked
W == INSTANCE Worker
wVars == <<sup, bg, disk, namespaces, pods, main, log, asked>>

(* What a guest reports. *)
CONSTANTS Sizes, MaxOom
VARIABLES guest, fresh, awake, tracker, told, outcome
G == INSTANCE GuestEvents
gVars == <<guest, fresh, awake, tracker, told, outcome>>

----------------------------------------------------------------------------
LiveInit == /\ on \in Parts
            /\ Init /\ N!Init /\ W!Init /\ G!Init
            /\ on # "endpoint" => ~ep.has_activation

LiveNext == \/ on = "endpoint" /\ Next /\ UNCHANGED <<on, ns, wVars, gVars>>
            \/ on = "namespace" /\ N!Next /\ UNCHANGED <<on, ep, wVars, gVars>>
            \/ on = "worker" /\ W!Next /\ UNCHANGED <<on, ep, ns, gVars>>
            \/ on = "events" /\ G!Next /\ UNCHANGED <<on, ep, ns, wVars>>

(* The fairness of each part: a requested timer fires; run_cycle is one    *)
(* call that goes on until it is over; the runtime schedules the worker's  *)
(* main task and every supervisor.                                         *)
LiveSpec == /\ LiveInit /\ [][LiveNext]_<<on, ep, ns, wVars, gVars>>
            /\ WF_ep(RequestedTimer)
            /\ []<>~N!Running \/ []<><<TRUE>>_ns
            /\ W!Fairness

----------------------------------------------------------------------------
(* Every cycle of a namespace ends: the loop between propagation and the   *)
(* artifact adapter in run_cycle has no bound of its own (inner.rs).       *)
CycleEnds == N!CycleEnds

(* The endpoint announces only a ready backend and wants its workload for  *)
(* a reason, and without traffic the demand ends (sm/endpoint.rs).         *)
DemandEnds == /\ [](DemandHasItsReason /\ AnnouncedBackendIsReady)
              /\ DemandEndsWithoutTraffic

(* No VM outlives the supervisor task that owns it (task_handle.rs). *)
NoStrayVm == W!NoStrayVm

(* The orchestrator sees the story of a pod in order (supervisor.rs). *)
StoryIsInOrder == W!StoryIsInOrder


(* What the watch channel swallows is still reported (StateTracker). *)
GuestIsReported == G!GuestIsReported
=============================================================================
