----------------------------- MODULE PodProofs -----------------------------
(***************************************************************************)
(* Proofs about one pod, for all sets of workloads, workers, artifacts and *)
(* specs.                                                                  *)
(*                                                                         *)
(* The inductive invariant is a predicate on the record alone, PodInv: the *)
(* four invariants of Pod taken together. It holds of a new pod, and a     *)
(* lemma per handler of PodSm shows that the handler preserves it and is a *)
(* step of the lifecycle (Follows). Unreaped is the invariant of a pod in  *)
(* the middle of a handler, before its final maybe_reap.                   *)
(***************************************************************************)
EXTENDS Pod, TLAPS

(* Timers and placement agree with the status.                             *)
Consistent(p) ==
  /\ p.out_wanted_timers = TimersOf(p.status)
  /\ ~is_terminal(p.status) =>
        /\ p.out_pod_placement = {p.assigned_worker} \ {None}
        /\ p.out_schedule_request.suspend = (p.status = "Suspending")

Unreaped(p) == p \in Pod /\ ~p.destroyed /\ Consistent(p)

PodInv(p) ==
  /\ p \in Pod
  /\ p.destroyed <=> (is_terminal(p.status) /\ p.workload_id = None)
  /\ Consistent(p)

(* The status changes a handler may make.                                  *)
Follows(p, q) ==
  \/ q.status = p.status
  \/ p.status = "Pending"    /\ q.status = "Running"
  \/ p.status = "Running"    /\ q.status = "Suspending"
  \/ p.status = "Suspending" /\ q.status = "Suspended"
  \/ ~is_terminal(p.status)  /\ q.status \in {"Finished", "Failed", "Displaced"}

(* What a handler owes to the live pod p it was given; only OwnerInput     *)
(* changes the owner.                                                      *)
Preserves(p, q) == PodInv(q) /\ Follows(p, q) /\ q.workload_id = p.workload_id

-----------------------------------------------------------------------------
LEMMA TimersOfType ==
  ASSUME NEW s PROVE TimersOf(s) \in SUBSET PodTimerKey
BY DEF TimersOf

(* BecomeStatus changes the status and the timers and nothing else.        *)
LEMMA BecomeStatusFields ==
  ASSUME NEW p \in Pod, NEW s \in PodStatus
  PROVE  /\ BecomeStatus(p, s) \in Pod
         /\ BecomeStatus(p, s).status = s
         /\ BecomeStatus(p, s).out_wanted_timers = TimersOf(s)
         /\ BecomeStatus(p, s).workload_id = p.workload_id
         /\ BecomeStatus(p, s).destroyed = p.destroyed
         /\ BecomeStatus(p, s).assigned_worker = p.assigned_worker
         /\ BecomeStatus(p, s).out_pod_placement = p.out_pod_placement
         /\ BecomeStatus(p, s).out_schedule_request = p.out_schedule_request
BY TimersOfType DEF BecomeStatus, update_timer_signal, Pod

(* A pod that reaches a terminal status is consistent.                     *)
LEMMA DeadIsConsistent ==
  ASSUME NEW p \in Pod, ~p.destroyed, NEW s \in PodStatus, is_terminal(s)
  PROVE  Unreaped(BecomeStatus(p, s))
BY BecomeStatusFields DEF Unreaped, Consistent

(* The final maybe_reap of a handler establishes the reaping rule.         *)
LEMMA MaybeReapInv ==
  ASSUME NEW p, Unreaped(p)
  PROVE  /\ PodInv(maybe_reap(p))
         /\ maybe_reap(p).status = p.status
         /\ maybe_reap(p).workload_id = p.workload_id
<1>1. CASE is_terminal(p.status) /\ p.workload_id = None
  <2> DEFINE q == [p EXCEPT !.destroyed = TRUE]
  <2>1. /\ q \in Pod /\ q.destroyed
        /\ q.status = p.status /\ q.workload_id = p.workload_id
        /\ q.out_wanted_timers = p.out_wanted_timers
    BY DEF Unreaped, Pod
  <2>2. PodInv(q)
    BY <1>1, <2>1 DEF Unreaped, Consistent, PodInv
  <2> QED
    BY <1>1, <2>1, <2>2 DEF maybe_reap
<1>2. CASE ~(is_terminal(p.status) /\ p.workload_id = None)
  BY <1>2 DEF maybe_reap, Unreaped, PodInv
<1> QED
  BY <1>1, <1>2

(* A live pod that a handler kills and reaps.                              *)
LEMMA DieStep ==
  ASSUME NEW p \in Pod, ~p.destroyed, ~is_terminal(p.status),
         NEW s \in {"Finished", "Failed", "Displaced"}
  PROVE  Preserves(p, maybe_reap(BecomeStatus(p, s)))
<1>1. s \in PodStatus /\ is_terminal(s)
  BY DEF PodStatus, is_terminal
<1>2. Unreaped(BecomeStatus(p, s))
  BY <1>1, DeadIsConsistent
<1> QED
  BY <1>1, <1>2, MaybeReapInv, BecomeStatusFields DEF Preserves, Follows

LEMMA Alive ==
  ASSUME NEW p, PodInv(p), ~p.destroyed
  PROVE  Unreaped(p) /\ Preserves(p, p)
BY DEF PodInv, Unreaped, Preserves, Follows

-----------------------------------------------------------------------------
LEMMA NewPodInv ==
  ASSUME NEW a \in Artifacts \cup {None}
  PROVE  PodInv(NewPod(a)) /\ NewPod(a).status = "Pending" /\ ~NewPod(a).destroyed
BY NoneAssumption, TimersOfType
DEF NewPod, PodInv, Consistent, Pod, update_timer_signal, is_terminal, PodStatus,
    PodScheduleRequest, PodIntent

LEMMA LaunchSpecStep ==
  ASSUME NEW p, PodInv(p), ~p.destroyed, NEW s \in Specs \cup {None}
  PROVE  Preserves(p, LaunchSpecInput(p, s))
<1> DEFINE q == [p EXCEPT !.launch_spec = s]
           r == [q EXCEPT !.out_schedule_request = make_schedule_request(q)]
<1>1. q \in Pod
  BY DEF PodInv, Pod
<1>2. make_schedule_request(q) \in PodScheduleRequest
  BY <1>1 DEF make_schedule_request, PodScheduleRequest, Pod
<1>3. r \in Pod
  BY <1>1, <1>2 DEF Pod
<1>4. r.out_schedule_request.suspend = (r.status = "Suspending")
  BY <1>1 DEF make_schedule_request, Pod
<1>5. /\ r.status = p.status /\ r.workload_id = p.workload_id
      /\ r.destroyed = p.destroyed
      /\ r.out_wanted_timers = p.out_wanted_timers
      /\ r.out_pod_placement = p.out_pod_placement
      /\ r.assigned_worker = p.assigned_worker
  BY DEF PodInv, Pod
<1>6. Preserves(p, r)
  BY <1>3, <1>4, <1>5 DEF PodInv, Consistent, Preserves, Follows
<1> QED
  BY <1>6, Alive DEF LaunchSpecInput

LEMMA WorkerStep ==
  ASSUME NEW p, PodInv(p), ~p.destroyed, NEW w \in Workers \cup {None}
  PROVE  Preserves(p, WorkerInput(p, w))
<1> DEFINE q == IF w # p.worker_id
                THEN [p EXCEPT !.worker_id = w, !.out_assigned_worker = w]
                ELSE p
<1>1. /\ q \in Pod /\ ~q.destroyed
      /\ q.status = p.status /\ q.workload_id = p.workload_id
      /\ q.out_wanted_timers = p.out_wanted_timers
      /\ q.out_pod_placement = p.out_pod_placement
      /\ q.assigned_worker = p.assigned_worker
      /\ q.out_schedule_request = p.out_schedule_request
      /\ q.destroyed = p.destroyed
  BY DEF PodInv, Pod
<1>2. Preserves(p, q)
  BY <1>1 DEF PodInv, Consistent, Preserves, Follows
<1>3. ASSUME ~is_terminal(q.status)
      PROVE  Preserves(p, maybe_reap(BecomeStatus(q, "Displaced")))
  <2>1. Preserves(q, maybe_reap(BecomeStatus(q, "Displaced")))
    BY <1>1, <1>3, DieStep
  <2> QED
    BY <1>1, <2>1 DEF Preserves, Follows
<1> QED
  BY <1>2, <1>3 DEF WorkerInput

(* The pod between AdoptOwner and FailIfOwnerLost.                         *)
LEMMA AdoptOwnerFields ==
  ASSUME NEW p, Unreaped(p), NEW owner \in Owner \cup {None}
  PROVE  /\ Unreaped(AdoptOwner(p, owner))
         /\ AdoptOwner(p, owner).status = p.status
         /\ (AdoptOwner(p, owner).workload_id = None) <=> (owner = None)
         /\ owner = None => AdoptOwner(p, owner).intent = "None"
<1> DEFINE q == AdoptOwner(p, owner)
<1>1. CASE owner = None
  BY <1>1 DEF AdoptOwner, Unreaped, Consistent, Pod, PodIntent
<1>2. CASE owner \in Owner
  <2>1. owner.workload \in Workloads /\ owner.intent \in PodIntent
    BY <1>2 DEF Owner
  <2>2. owner # None
    BY <1>2, NoOwnerAssumption
  <2>3. ASSUME NEW wl \in Workloads, NEW i \in PodIntent,
               q = [p EXCEPT !.workload_id = wl, !.intent = i, !.out_pod_report = {wl}]
        PROVE  Unreaped(q) /\ q.status = p.status /\ q.workload_id # None
    <3> DEFINE r == [p EXCEPT !.workload_id = wl, !.intent = i, !.out_pod_report = {wl}]
    <3>1. /\ r \in Pod /\ r.destroyed = p.destroyed /\ r.status = p.status
          /\ r.workload_id = wl
          /\ r.out_wanted_timers = p.out_wanted_timers
          /\ r.out_pod_placement = p.out_pod_placement
          /\ r.assigned_worker = p.assigned_worker
          /\ r.out_schedule_request = p.out_schedule_request
      BY DEF Unreaped, Pod
    <3> HIDE DEF r
    <3>2. Unreaped(r)
      BY <3>1 DEF Unreaped, Consistent
    <3>3. q = r
      BY <2>3 DEF r
    <3> QED
      BY <3>1, <3>2, <3>3, NoneAssumption
  <2> QED
    BY <2>1, <2>2, <2>3 DEF AdoptOwner
<1> QED
  BY <1>1, <1>2

LEMMA BeginSuspendFields ==
  ASSUME NEW p, Unreaped(p)
  PROVE  /\ Unreaped(BeginSuspend(p))
         /\ BeginSuspend(p).workload_id = p.workload_id
         /\ \/ BeginSuspend(p).status = p.status
            \/ /\ p.status = "Running" /\ p.intent = "Suspend"
               /\ BeginSuspend(p).status = "Suspending"
<1>1. CASE p.status = "Running" /\ p.intent = "Suspend"
  <2> DEFINE q == BecomeStatus(p, "Suspending")
             r == [q EXCEPT !.out_schedule_request = make_schedule_request(q)]
  <2>1. /\ q \in Pod /\ q.status = "Suspending" /\ q.destroyed = p.destroyed
        /\ q.out_wanted_timers = TimersOf("Suspending")
        /\ q.workload_id = p.workload_id
        /\ q.assigned_worker = p.assigned_worker
        /\ q.out_pod_placement = p.out_pod_placement
    BY BecomeStatusFields DEF PodStatus, Unreaped
  <2>2. make_schedule_request(q) \in PodScheduleRequest
    BY <2>1 DEF make_schedule_request, PodScheduleRequest, Pod
  <2>3. /\ r \in Pod /\ r.status = q.status /\ r.destroyed = q.destroyed
        /\ r.out_wanted_timers = q.out_wanted_timers
        /\ r.workload_id = q.workload_id
        /\ r.assigned_worker = q.assigned_worker
        /\ r.out_pod_placement = q.out_pod_placement
    BY <2>1, <2>2 DEF Pod
  <2>4. r.out_schedule_request.suspend = (r.status = "Suspending")
    BY <2>1 DEF make_schedule_request, Pod
  <2>5. ~is_terminal(p.status)
    BY <1>1 DEF is_terminal
  <2>6. Unreaped(r)
    BY <2>1, <2>3, <2>4, <2>5 DEF Unreaped, Consistent
  <2> QED
    BY <1>1, <2>1, <2>3, <2>6 DEF BeginSuspend
<1>2. CASE ~(p.status = "Running" /\ p.intent = "Suspend")
  BY <1>2 DEF BeginSuspend
<1> QED
  BY <1>1, <1>2

(* Owner loss kills a live pod, and the pod that lost its owner is reaped. *)
LEMMA OwnerStep ==
  ASSUME NEW p, PodInv(p), ~p.destroyed, NEW owner \in Owner \cup {None}
  PROVE  /\ PodInv(OwnerInput(p, owner))
         /\ Follows(p, OwnerInput(p, owner))
         /\ p.workload_id # None /\ OwnerInput(p, owner).workload_id = None
               => OwnerInput(p, owner).destroyed
<1> DEFINE a == AdoptOwner(p, owner)
           b == BeginSuspend(a)
           c == FailIfOwnerLost(b, p.workload_id # None)
<1>1. Unreaped(p)
  BY Alive
<1>2. /\ Unreaped(a) /\ a.status = p.status
      /\ (a.workload_id = None) <=> (owner = None)
      /\ owner = None => a.intent = "None"
  BY <1>1, AdoptOwnerFields
<1>3. /\ Unreaped(b) /\ b.workload_id = a.workload_id
      /\ \/ b.status = a.status
         \/ a.status = "Running" /\ a.intent = "Suspend" /\ b.status = "Suspending"
  BY <1>2, BeginSuspendFields
<1>4. Follows(p, b) /\ (a.workload_id = None => b.status = p.status)
  BY <1>2, <1>3 DEF Follows
<1>5. CASE p.workload_id # None /\ b.workload_id = None /\ ~is_terminal(b.status)
  <2>1. c = BecomeStatus(b, "Failed")
    BY <1>5 DEF FailIfOwnerLost
  <2>2. Preserves(b, maybe_reap(c))
    BY <1>3, <1>5, <2>1, DieStep DEF Unreaped
  <2>3. maybe_reap(c).status = "Failed"
    <3>1. Unreaped(c) /\ c.status = "Failed"
      BY <1>3, <2>1, DeadIsConsistent, BecomeStatusFields
      DEF PodStatus, is_terminal, Unreaped
    <3> QED BY <3>1, MaybeReapInv
  <2>4. ~is_terminal(p.status)
    BY <1>2, <1>3, <1>4, <1>5
  <2> QED
    BY <1>5, <2>2, <2>3, <2>4 DEF OwnerInput, Preserves, PodInv, Follows, is_terminal
<1>6. CASE ~(p.workload_id # None /\ b.workload_id = None /\ ~is_terminal(b.status))
  <2>1. c = b
    BY <1>6 DEF FailIfOwnerLost
  <2>2. /\ PodInv(maybe_reap(b)) /\ maybe_reap(b).status = b.status
        /\ maybe_reap(b).workload_id = b.workload_id
    BY <1>3, MaybeReapInv
  <2> QED
    BY <1>4, <1>6, <2>1, <2>2 DEF OwnerInput, PodInv, Follows
<1> QED
  BY <1>5, <1>6

LEMMA NotifyStatusStep ==
  ASSUME NEW p, PodInv(p), ~p.destroyed, NEW s \in {"Running", "Finished", "Failed"}
  PROVE  Preserves(p, NotifyPodStatus(p, s))
<1>1. CASE ~AcceptsStatus(p, s)
  BY <1>1, Alive DEF NotifyPodStatus
<1>2. CASE AcceptsStatus(p, s) /\ s # "Running"
  <2>1. Preserves(p, maybe_reap(BecomeStatus(p, s)))
    BY <1>2, DieStep DEF AcceptsStatus, PodInv
  <2> QED
    BY <1>2, <2>1 DEF NotifyPodStatus
<1>3. CASE AcceptsStatus(p, s) /\ s = "Running"
  <2> DEFINE q == BecomeStatus(p, "Running")
  <2>1. /\ q \in Pod /\ q.status = "Running" /\ q.destroyed = p.destroyed
        /\ q.out_wanted_timers = TimersOf("Running")
        /\ q.workload_id = p.workload_id
        /\ q.assigned_worker = p.assigned_worker
        /\ q.out_pod_placement = p.out_pod_placement
        /\ q.out_schedule_request = p.out_schedule_request
    BY BecomeStatusFields DEF PodStatus, PodInv
  <2>2. p.status = "Pending" /\ ~is_terminal("Pending")
    BY <1>3 DEF AcceptsStatus, is_terminal
  <2>3. Unreaped(q)
    BY <2>1, <2>2 DEF Unreaped, PodInv, Consistent
  <2> QED
    BY <1>3, <2>1, <2>2, <2>3, MaybeReapInv DEF NotifyPodStatus, Preserves, Follows
<1> QED
  BY <1>1, <1>2, <1>3

LEMMA NotifySuspendedStep ==
  ASSUME NEW p, PodInv(p), ~p.destroyed, NEW a \in Artifacts
  PROVE  Preserves(p, NotifyPodSuspended(p, a))
<1>1. CASE p.status # "Suspending"
  BY <1>1, Alive DEF NotifyPodSuspended
<1>2. CASE p.status = "Suspending"
  <2> DEFINE q == BecomeStatus(p, "Suspended")
             r == [q EXCEPT !.artifact_id = a]
  <2>1. /\ Unreaped(q) /\ q.status = "Suspended" /\ q.workload_id = p.workload_id
    BY DeadIsConsistent, BecomeStatusFields DEF PodInv, PodStatus, is_terminal
  <2>2. /\ r \in Pod /\ r.status = q.status /\ r.destroyed = q.destroyed
        /\ r.workload_id = q.workload_id
        /\ r.out_wanted_timers = q.out_wanted_timers
    BY <2>1 DEF Unreaped, Pod
  <2>3. Unreaped(r)
    BY <2>1, <2>2 DEF Unreaped, Consistent, is_terminal
  <2> QED
    BY <1>2, <2>1, <2>2, <2>3, MaybeReapInv DEF NotifyPodSuspended, Preserves, Follows
<1> QED
  BY <1>1, <1>2

LEMMA LeaseStep ==
  ASSUME NEW p, PodInv(p), ~p.destroyed, NEW w \in Workers \cup {None}
  PROVE  Preserves(p, LeaseInput(p, w))
<1>1. CASE w # None /\ p.assigned_worker = None /\ p.status = "Pending"
  <2> DEFINE q == LeaseGranted(p, w)
  <2>a. p \in Pod /\ w \in Workers
    BY <1>1 DEF PodInv
  <2>b. q \in Pod
    BY <2>a DEF LeaseGranted, Pod
  <2>1. /\ q \in Pod /\ q.status = p.status /\ q.destroyed = p.destroyed
        /\ q.workload_id = p.workload_id
        /\ q.out_wanted_timers = p.out_wanted_timers
        /\ q.out_schedule_request = p.out_schedule_request
        /\ q.assigned_worker = w /\ q.out_pod_placement = {w}
    BY <2>a, <2>b DEF LeaseGranted, Pod
  <2>2. Preserves(p, q)
    BY <1>1, <2>1 DEF PodInv, Consistent, Preserves, Follows
  <2> QED
    BY <1>1, <2>2 DEF LeaseInput
<1>2. CASE w = None /\ p.assigned_worker # None /\ ~is_terminal(p.status)
  <2> DEFINE q == [p EXCEPT !.assigned_worker = None, !.out_pod_placement = {}]
  <2>a. p \in Pod
    BY DEF PodInv
  <2>1. /\ q \in Pod /\ q.status = p.status /\ q.destroyed = p.destroyed
        /\ q.workload_id = p.workload_id
    BY <2>a DEF Pod
  <2>2. Preserves(q, maybe_reap(BecomeStatus(q, "Displaced")))
    BY <1>2, <2>1, DieStep
  <2>3. Preserves(p, LeaseRevoked(p))
    BY <2>1, <2>2 DEF LeaseRevoked, Preserves, Follows
  <2> QED
    BY <1>2, <2>3 DEF LeaseInput
<1>3. CASE /\ ~(w # None /\ p.assigned_worker = None /\ p.status = "Pending")
           /\ ~(w = None /\ p.assigned_worker # None /\ ~is_terminal(p.status))
  <2>1. LeaseInput(p, w) = p
    BY <1>3 DEF LeaseInput
  <2> QED
    BY <2>1, Alive
<1> QED
  BY <1>1, <1>2, <1>3

LEMMA TimerStep ==
  ASSUME NEW p, PodInv(p), ~p.destroyed, NEW key \in PodTimerKey
  PROVE  Preserves(p, PodTimerFired(p, key))
<1>1. ASSUME p.status \in {"Pending", "Suspending"}
      PROVE  Preserves(p, maybe_reap(BecomeStatus(p, "Failed")))
  <2>1. ~is_terminal(p.status)
    BY <1>1 DEF is_terminal
  <2> QED
    BY <2>1, DieStep DEF PodInv
<1> QED
  BY <1>1, Alive DEF PodTimerFired

-----------------------------------------------------------------------------
(* A step of the specification, in terms of the two records.               *)
StepOK(p, q) ==
  /\ PodInv(q)
  /\ Follows(p, q)
  /\ p.workload_id # None /\ q.workload_id = None => q.destroyed

LEMMA NextStep ==
  ASSUME PodInv(pod), Next
  PROVE  ~pod.destroyed /\ StepOK(pod, pod')
<1>1. ~pod.destroyed
  BY DEF Next, OnLaunchSpec, OnWorker, OnOwner, OnNotifyStatus, OnNotifySuspended,
         OnLease, OnTimer, Exists
<1>2. ASSUME NEW q, Preserves(pod, q) PROVE StepOK(pod, q)
  BY <1>2 DEF StepOK, Preserves
<1>3. CASE OnLaunchSpec
  BY <1>1, <1>2, <1>3, LaunchSpecStep DEF OnLaunchSpec
<1>4. CASE OnWorker
  BY <1>1, <1>2, <1>4, WorkerStep DEF OnWorker
<1>5. CASE OnOwner
  BY <1>1, <1>5, OwnerStep DEF OnOwner, StepOK
<1>6. CASE OnNotifyStatus
  BY <1>1, <1>2, <1>6, NotifyStatusStep DEF OnNotifyStatus
<1>7. CASE OnNotifySuspended
  BY <1>1, <1>2, <1>7, NotifySuspendedStep DEF OnNotifySuspended
<1>8. CASE OnLease
  BY <1>1, <1>2, <1>8, LeaseStep DEF OnLease
<1>9. CASE OnTimer
  BY <1>1, <1>2, <1>9, TimerStep DEF OnTimer
<1> QED
  BY <1>1, <1>3, <1>4, <1>5, <1>6, <1>7, <1>8, <1>9 DEF Next

(* PodInv is an inductive invariant of the pod.                            *)
THEOREM Invariance == Spec => []PodInv(pod)
<1>1. Init => PodInv(pod)
  BY NewPodInv DEF Init
<1>2. PodInv(pod) /\ [Next]_pod => PodInv(pod)'
  BY NextStep DEF StepOK
<1> QED
  BY <1>1, <1>2, PTL DEF Spec

(* The record of a pod (struct PodSm and the signals and edges it sets)    *)
(* keeps its type.                                                         *)
THEOREM TypeCorrect == Spec => []TypeOK
<1>1. PodInv(pod) => TypeOK
  BY DEF PodInv, TypeOK
<1> QED
  BY <1>1, Invariance, PTL

(* maybe_reap is called wherever it is needed: a pod leaves the router     *)
(* exactly when it is terminal and unowned.                                *)
THEOREM Reaping == Spec => []ReapedExactlyWhenDone
<1>1. PodInv(pod) => ReapedExactlyWhenDone
  BY DEF PodInv, ReapedExactlyWhenDone
<1> QED
  BY <1>1, Invariance, PTL

(* update_timer_signal is called wherever it is needed.                    *)
THEOREM Timeouts == Spec => []EveryWaitHasItsTimeout
<1>1. PodInv(pod) => EveryWaitHasItsTimeout
  BY DEF PodInv, Consistent, EveryWaitHasItsTimeout
<1> QED
  BY <1>1, Invariance, PTL

(* The placement edge and the suspend request stay in step with the lease  *)
(* and the status, for every order of LeaseInput, WorkerInput and          *)
(* LaunchSpecInput.                                                        *)
THEOREM Placement == Spec => []PlacementFollowsLease
<1>1. PodInv(pod) => PlacementFollowsLease
  BY DEF PodInv, Consistent, PlacementFollowsLease
<1> QED
  BY <1>1, Invariance, PTL

(* The abandon path of pod.rs: losing the owner destroys the pod in the    *)
(* same step.                                                              *)
THEOREM Abandonment == Spec => AbandonedPodDies
<1>1. PodInv(pod) /\ [Next]_pod
        => [pod.workload_id # None /\ pod'.workload_id = None => pod'.destroyed]_pod
  BY NextStep DEF StepOK
<1> QED
  BY <1>1, Invariance, PTL DEF Spec, AbandonedPodDies

(* The pod implements the linear lifecycle drawn in the header of pod.rs.  *)
THEOREM Refinement == Spec => LinearLifecycle
<1>1. Init => Lifecycle!Init
  BY NewPodInv DEF Init, Lifecycle!Init, PodInv, Pod
<1>2. PodInv(pod) /\ [Next]_pod => [Lifecycle!Next]_Lifecycle!vars
  <2>1. CASE UNCHANGED pod
    BY <2>1 DEF Lifecycle!vars
  <2>2. CASE PodInv(pod) /\ Next
    <3>1. /\ ~pod.destroyed /\ PodInv(pod') /\ Follows(pod, pod')
      BY <2>2, NextStep DEF StepOK
    <3>2. pod.destroyed = FALSE /\ pod'.destroyed \in BOOLEAN
      BY <2>2, <3>1 DEF PodInv, Pod
    <3>3. pod'.destroyed => is_terminal(pod'.status)
      BY <3>1 DEF PodInv
    <3>4. CASE pod'.status = pod.status
      BY <3>2, <3>3, <3>4
      DEF Lifecycle!Next, Lifecycle!Reap, Lifecycle!vars, Lifecycle!Dead, is_terminal
    <3>5. CASE pod'.status # pod.status
      BY <2>2, <3>1, <3>2, <3>3, <3>5
      DEF Follows, is_terminal, PodInv, Pod, PodStatus, Lifecycle!Next, Lifecycle!Run,
          Lifecycle!Suspend, Lifecycle!Suspended, Lifecycle!Die, Lifecycle!Advance,
          Lifecycle!Live, Lifecycle!Dead
    <3> QED
      BY <3>4, <3>5
  <2> QED
    BY <2>1, <2>2
<1> QED
  BY <1>1, <1>2, Invariance, PTL DEF Spec, LinearLifecycle, Lifecycle!Spec
=============================================================================
