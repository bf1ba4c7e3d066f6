---------------------------- MODULE SchedulerSm ----------------------------
(***************************************************************************)
(* The scheduler and the worker state of the orchestrator core, as         *)
(* operators on records: pressure bands with hysteresis, worker            *)
(* candidates, worker selection, the lease tables, the artifact placement  *)
(* table and the segment registry of the workers.                          *)
(*                                                                         *)
(*   sched = [pending   : pod key -> artifact it resumes from,             *)
(*            granted   : pod key -> worker,                               *)
(*            workers   : worker -> candidate,                             *)
(*            placements: artifact -> (worker -> "Writing" | "Ready"),     *)
(*            artifact_refs: artifact -> namespace]                        *)
(*   ws    = [workers   : worker -> tracked state,                         *)
(*            namespace_segments: namespace -> segment]                    *)
(*                                                                         *)
(* Pressure scores are percentages.  The network dimension is always 0 and *)
(* is left out.  `active' is always true in the code and is left out.      *)
(***************************************************************************)
EXTENDS Integers, Sequences, FiniteSets, FiniteSetsExt, SequencesExt, TLC

\* `psi' is the last sample, as a set of at most one.
NoArtifact == 0
NoWorker == 0

Without(f, S) == [x \in DOMAIN f \ S |-> f[x]]
Empty == [x \in {} |-> x]

-----------------------------------------------------------------------------
(* Pressure bands *)

Normal == 0
Elevated == 1
High == 2
Critical == 3
Dimensions == {"compute", "memory", "storage"}

enter_threshold(band) == <<0, 50, 80, 95>>[band + 1]
leave_threshold(band) == <<0, 40, 70, 85>>[band + 1]

\* Slip: a band is left one level at a time.
compute_band_stepwise(current, score) ==
    LET entered == {b \in {Elevated, High} : score >= enter_threshold(b) /\ current < b}
    IN  IF score >= enter_threshold(Critical) THEN Critical
        ELSE IF entered # {} THEN Max(entered)
        ELSE IF current > Normal /\ score < leave_threshold(current) THEN current - 1
        ELSE current

compute_band_with_hysteresis(current, score) ==
    LET entered == {b \in {Elevated, High} : score >= enter_threshold(b) /\ current < b}
        lower   == {b \in Normal .. (current - 1) : score >= enter_threshold(b)}
    IN  IF score >= enter_threshold(Critical) THEN Critical
        ELSE IF entered # {} THEN Max(entered)
        ELSE IF current > Normal /\ score < leave_threshold(current) THEN Max(lower)
        ELSE current

update_bands(bands, psi) ==
    [d \in Dimensions |-> compute_band_with_hysteresis(bands[d], psi[d])]

max_band(bands) == Max({bands[d] : d \in Dimensions})

-----------------------------------------------------------------------------
(* Worker state: TrackedWorkerStateCore and the registry of peers *)

NewWorker(tunnel) ==
    [bands |-> [d \in Dimensions |-> Normal], psi |-> {}, draining |-> FALSE,
     pod_count |-> 0, tunnel |-> tunnel, segments |-> {}]

recompute_pressure_from_psi(state) ==
    IF state.psi = {} THEN state
    ELSE [state EXCEPT !.bands = update_bands(@, CHOOSE psi \in state.psi : TRUE)]

to_candidate(state) ==
    [band |-> max_band(state.bands), pod_count |-> state.pod_count,
     draining |-> state.draining]

build_worker_registry(ws) ==
    [w \in {v \in DOMAIN ws.workers : ws.workers[v].tunnel} |-> ws.workers[w].segments]

-----------------------------------------------------------------------------
(* Placement table *)

ApplyPlacement(placements, worker, artifact, status) ==
    LET old == IF artifact \in DOMAIN placements THEN placements[artifact] ELSE Empty
    IN  (artifact :> ((worker :> status) @@ old)) @@ placements


remove_worker(placements, worker) ==
    LET left == [a \in DOMAIN placements |-> Without(placements[a], {worker})]
    IN  Without(left, {a \in DOMAIN left : DOMAIN left[a] = {}})

workers_with_artifact(placements, artifact) ==
    IF artifact \notin DOMAIN placements THEN {}
    ELSE {w \in DOMAIN placements[artifact] : placements[artifact][w] = "Ready"}

-----------------------------------------------------------------------------
(* Worker selection and the lease tables *)

Eligible(candidates) ==
    {w \in DOMAIN candidates : ~candidates[w].draining /\ candidates[w].band < High}

\* Active, not draining, pressure below High; then affinity to the artifact,
\* the lowest band, the fewest pods, the lowest id.
select_worker(candidates, artifact, placements) ==
    LET eligible == Eligible(candidates)
        near     == eligible \cap workers_with_artifact(placements, artifact)
        affine   == IF near = {} THEN eligible ELSE near
        calm     == {w \in affine : \A v \in affine : candidates[w].band <= candidates[v].band}
        light    == {w \in calm : \A v \in calm : candidates[w].pod_count <= candidates[v].pod_count}
    IN  IF eligible = {} THEN NoWorker ELSE Min(light)

NewScheduler ==
    [pending |-> Empty, granted |-> Empty, workers |-> Empty,
     placements |-> Empty, artifact_refs |-> Empty]

Choice(sched, artifact) == select_worker(sched.workers, artifact, sched.placements)

Grant(key, worker) == [kind |-> "Grant", key |-> key, worker |-> worker]
Revoke(key, worker) == [kind |-> "Revoke", key |-> key, worker |-> worker]

\* Every scheduler input yields the new tables and the decisions.
RequestLease(sched, key, artifact) ==
    LET w == Choice(sched, artifact)
    IN  IF w # NoWorker
        THEN [sched |-> [sched EXCEPT !.granted = (key :> w) @@ @], decisions |-> <<Grant(key, w)>>]
        ELSE [sched |-> [sched EXCEPT !.pending = (key :> artifact) @@ @], decisions |-> <<>>]

\* Slip: dropping a granted pod is not reported as a revocation.
DropRequest_silent(sched, key) ==
    [sched |-> [sched EXCEPT !.granted = Without(@, {key}), !.pending = Without(@, {key})],
     decisions |-> <<>>]

DropRequest(sched, key) ==
    IF key \in DOMAIN sched.granted
    THEN [sched |-> [sched EXCEPT !.granted = Without(@, {key})],
          decisions |-> <<Revoke(key, sched.granted[key])>>]
    ELSE [sched |-> [sched EXCEPT !.pending = Without(@, {key})], decisions |-> <<>>]

\* All pending pods are placed by the counts from before the batch.
retry_pending(sched) ==
    LET ready   == {k \in DOMAIN sched.pending : Choice(sched, sched.pending[k]) # NoWorker}
        placed  == [k \in ready |-> Choice(sched, sched.pending[k])]
        ordered == SetToSeq(ready)
    IN  [sched |-> [sched EXCEPT !.pending = Without(@, ready), !.granted = placed @@ @],
         decisions |-> [i \in DOMAIN ordered |-> Grant(ordered[i], placed[ordered[i]])]]

\* Slip: an update of a known worker does not look at the pending pods.
WorkerUpdate_noretry(sched, worker, candidate) ==
    LET known == worker \in DOMAIN sched.workers
        s     == [sched EXCEPT !.workers = (worker :> candidate) @@ @]
    IN  IF known THEN [sched |-> s, decisions |-> <<>>] ELSE retry_pending(s)

WorkerUpdate(sched, worker, candidate) ==
    retry_pending([sched EXCEPT !.workers = (worker :> candidate) @@ @])

\* The artifacts whose last ready copy was on the worker are invalidated.
WorkerRemoved(sched, worker) ==
    LET left == remove_worker(sched.placements, worker)
        lost == {a \in DOMAIN sched.artifact_refs : workers_with_artifact(left, a) = {}}
    IN  [sched |-> [sched EXCEPT !.workers = Without(@, {worker}), !.placements = left,
                                 !.artifact_refs = Without(@, lost)],
         invalidations |-> lost]

ArtifactEvent(sched, worker, artifact, status) ==
    [sched EXCEPT !.placements = ApplyPlacement(@, worker, artifact, status)]

ArtifactReferenced(sched, artifact, namespace) ==
    [sched EXCEPT !.artifact_refs = (artifact :> namespace) @@ @]

\* One worker with a ready copy, any of them, is told to delete it.
ArtifactReleased(sched, artifact) ==
    [sched |-> [sched EXCEPT !.artifact_refs = Without(@, {artifact}),
                             !.placements = Without(@, {artifact})],
     deletes |-> workers_with_artifact(sched.placements, artifact)]
=============================================================================
