----------------------------- MODULE ImageStore -----------------------------
(***************************************************************************)
(* How launches on one worker share an image in containerd: every launch   *)
(* takes a lease, has the image pulled, unpacks its layers one after the   *)
(* other under the UnpackCoordinator, labels the result and mounts a view. *)
(* Launches fail and are cancelled anywhere, the worker crashes, and       *)
(* containerd collects what nothing refers to.                             *)
(*                                                                         *)
(*   job     for each launch slot: pc, the number n of its run, the layer  *)
(*           it is at and the token it waits on (a set of at most one)     *)
(*   runs    launches so far                                               *)
(*   claims  UnpackCoordinator::in_progress: layer -> token (as a set)     *)
(*   live    tokens that are not cancelled                                 *)
(*   store   committed layers, active snapshots, whether the GC label of   *)
(*           the image config is set                                       *)
(*   leases  the leases containerd has, with the snapshots each protects   *)
(*   queue   lease ids on their way to the LeaseManager's cleanup task     *)
(*   stale   leases whose deletion failed: the worker forgets them         *)
(* A lease is named by the run that made it, a token by run and layer.     *)
(***************************************************************************)
EXTENDS Naturals, Sequences, FiniteSets

CONSTANTS Jobs,     \* launch slots
          Layers,   \* layers of the image
          MaxRuns   \* launches
VARIABLES job, runs, claims, live, store, leases, queue, stale

iVars == <<job, runs, claims, live, store, leases, queue, stale>>

Idle == [pc |-> "idle", n |-> 0, layer |-> 1, wait |-> {}]
Token(t) == <<job[t].n, job[t].layer>>
Committed(l) == [kind |-> "layer", of |-> l]
Active(t) == [kind |-> "active", of |-> Token(t)]

IInit == /\ job = [t \in Jobs |-> Idle] /\ runs = 0
         /\ claims = [l \in 1..Layers |-> {}]
         /\ live = {}
         /\ store = [snaps |-> {}, labelled |-> FALSE]
         /\ leases = {} /\ queue = {} /\ stale = {}

Goes(t, pc) == job' = [job EXCEPT ![t].pc = pc]
(* The lease of run r now protects x as well: created under its request(). *)
Protect(t, x) == leases' = {IF e.run = job[t].n THEN [e EXCEPT !.holds = @ \cup {x}] ELSE e : e \in leases}

----------------------------------------------------------------------------
(* prepare *)

create_persistent_lease(t) ==
  /\ job[t].pc = "idle" /\ runs < MaxRuns
  /\ runs' = runs + 1
  /\ job' = [job EXCEPT ![t] = [Idle EXCEPT !.pc = "image", !.n = runs + 1]]
  /\ leases' = leases \cup {[run |-> runs + 1, holds |-> {}]}
  /\ UNCHANGED <<claims, live, store, queue, stale>>

(* Pulls the image unless it is there, and adds its record to the lease.   *)
ensure_image(t) == /\ job[t].pc = "image"
                   /\ Goes(t, "claim")
                   /\ UNCHANGED <<runs, claims, live, store, leases, queue, stale>>

----------------------------------------------------------------------------
(* ensure_unpacked *)

(* An absent or cancelled entry is replaced by a fresh token, a live one   *)
(* is waited for.                                                          *)
claim(t) ==
  LET l == job[t].layer
      holder == claims[l] \cap live
  IN /\ job[t].pc = "claim"
     /\ IF holder # {}
        THEN /\ job' = [job EXCEPT ![t].pc = "waiting", ![t].wait = holder]
             /\ UNCHANGED <<claims, live>>
        ELSE /\ claims' = [claims EXCEPT ![l] = {Token(t)}]
             /\ live' = live \cup {Token(t)}
             /\ Goes(t, "stat")
     /\ UNCHANGED <<runs, store, leases, queue, stale>>

woken(t) == /\ job[t].pc = "waiting" /\ job[t].wait \cap live = {}
            /\ job' = [job EXCEPT ![t].pc = "claim", ![t].wait = {}]
            /\ UNCHANGED <<runs, claims, live, store, leases, queue, stale>>

stat_snapshot(t) ==
  /\ job[t].pc = "stat"
  /\ Goes(t, IF Committed(job[t].layer) \in store.snaps THEN "release" ELSE "prepare")
  /\ UNCHANGED <<runs, claims, live, store, leases, queue, stale>>

(* Prepare needs the parent's snapshot; the active one is in the lease.    *)
unpack_layer(t) ==
  /\ job[t].pc = "prepare"
  /\ IF job[t].layer > 1 => Committed(job[t].layer - 1) \in store.snaps
     THEN /\ store' = [store EXCEPT !.snaps = @ \cup {Active(t)}]
          /\ Protect(t, Active(t))
          /\ Goes(t, "apply")
     ELSE Goes(t, "failing") /\ UNCHANGED <<store, leases>>
  /\ UNCHANGED <<runs, claims, live, queue, stale>>

(* Commit turns the active snapshot into the layer; AlreadyExists, from a  *)
(* client outside this worker, only removes the active one.  An error      *)
(* removes it too.                                                         *)
apply_and_commit(t) ==
  /\ job[t].pc = "apply"
  /\ \/ /\ store' = [store EXCEPT !.snaps = (@ \ {Active(t)}) \cup {Committed(job[t].layer)}]
        /\ IF Committed(job[t].layer) \in store.snaps THEN UNCHANGED leases
           ELSE Protect(t, Committed(job[t].layer))
        /\ Goes(t, "release")
     \/ /\ store' = [store EXCEPT !.snaps = @ \ {Active(t)}]
        /\ Goes(t, "failing") /\ UNCHANGED leases
  /\ UNCHANGED <<runs, claims, live, queue, stale>>

\* Slip: the entry is removed but the guard is kept until the image is up.
release_keeps_guard(t) ==
  /\ job[t].pc \in {"release", "failing"}
  /\ claims' = [claims EXCEPT ![job[t].layer] = {}]
  /\ job' = [job EXCEPT ![t].pc = IF job[t].pc = "failing" THEN "drop"
                                  ELSE IF job[t].layer = Layers THEN "label" ELSE "claim",
                        ![t].layer = IF job[t].pc = "failing" \/ job[t].layer = Layers
                                     THEN @ ELSE @ + 1]
  /\ UNCHANGED <<runs, live, store, leases, queue, stale>>

(* The entry goes, then the guard, which wakes the waiters: after success  *)
(* and after an error alike.                                               *)
release(t) ==
  /\ job[t].pc \in {"release", "failing"}
  /\ claims' = [claims EXCEPT ![job[t].layer] = {}]
  /\ live' = live \ {Token(t)}
  /\ job' = [job EXCEPT ![t].pc = IF job[t].pc = "failing" THEN "drop"
                                  ELSE IF job[t].layer = Layers THEN "label" ELSE "claim",
                        ![t].layer = IF job[t].pc = "failing" \/ job[t].layer = Layers
                                     THEN @ ELSE @ + 1]
  /\ UNCHANGED <<runs, store, leases, queue, stale>>


set_snapshot_gc_label(t) ==
  /\ job[t].pc = "label"
  /\ store' = [store EXCEPT !.labelled = TRUE]
  /\ Goes(t, "view")
  /\ UNCHANGED <<runs, claims, live, leases, queue, stale>>

(* A view of the last layer, mounted for the life of the VM; containerd    *)
(* does not count it into the lease.                                       *)
create_overlayfs_view(t) ==
  /\ job[t].pc = "view"
  /\ Goes(t, IF Committed(Layers) \in store.snaps THEN "up" ELSE "drop")
  /\ UNCHANGED <<runs, claims, live, store, leases, queue, stale>>

----------------------------------------------------------------------------
(* The end of a launch or of its VM: the lease is dropped, which only      *)
(* queues it; a future dropped while it unpacks also drops its guard, but  *)
(* neither releases the entry nor removes the active snapshot.             *)
drop_lease(t) ==
  /\ job[t].pc # "idle"
  /\ queue' = queue \cup {job[t].n}
  /\ live' = live \ {Token(t)}
  /\ job' = [job EXCEPT ![t] = Idle]
  /\ UNCHANGED <<runs, claims, store, leases, stale>>

cleanup_task(r) ==
  /\ r \in queue
  /\ queue' = queue \ {r}
  /\ \/ leases' = {e \in leases : e.run # r} /\ UNCHANGED stale
     \/ stale' = stale \cup {r} /\ UNCHANGED leases
  /\ UNCHANGED <<runs, job, claims, live, store>>

\* Slip: the old leases are listed but not deleted.
cleanup_stale_leases_lists ==
  /\ job' = [t \in Jobs |-> Idle]
  /\ claims' = [l \in 1..Layers |-> {}] /\ live' = {}
  /\ queue' = {} /\ stale' = {}
  /\ UNCHANGED <<runs, store, leases>>

(* The worker crashes and starts again: every lease of its prefix goes. *)
cleanup_stale_leases ==
  /\ job' = [t \in Jobs |-> Idle]
  /\ claims' = [l \in 1..Layers |-> {}] /\ live' = {}
  /\ queue' = {}
  /\ \E kept \in SUBSET {e.run : e \in leases} :
       /\ stale' = kept
       /\ leases' = {e \in leases : e.run \in kept}
  /\ UNCHANGED <<runs, store>>

(* containerd's collector: a snapshot goes when no lease, no label and no  *)
(* child refers to it.                                                     *)
gc(x) ==
  /\ x \in store.snaps
  /\ \A e \in leases : x \notin e.holds
  /\ x.kind = "layer" =>
       /\ ~(store.labelled /\ x.of = Layers)
       /\ \A y \in store.snaps :
            (IF y.kind = "layer" THEN y.of ELSE y.of[2]) # x.of + 1
  /\ store' = [store EXCEPT !.snaps = @ \ {x}]
  /\ UNCHANGED <<runs, job, claims, live, leases, queue, stale>>

INext == \/ \E t \in Jobs : \/ create_persistent_lease(t) \/ ensure_image(t) \/ claim(t)
                            \/ woken(t) \/ stat_snapshot(t) \/ unpack_layer(t)
                            \/ apply_and_commit(t) \/ release(t) \/ set_snapshot_gc_label(t)
                            \/ create_overlayfs_view(t) \/ drop_lease(t)
         \/ \E r \in queue : cleanup_task(r)
         \/ cleanup_stale_leases
         \/ \E x \in store.snaps : gc(x)
ISpec == IInit /\ [][INext]_iVars

----------------------------------------------------------------------------
(* Properties *)

(* Every launch that waits for a layer waits for one that is at work on    *)
(* it, or is already woken: no failure or cancellation of the holder       *)
(* leaves the others waiting (UnpackCoordinator::claim).                   *)
WaitersAreWoken == \A t \in Jobs : job[t].pc = "waiting" =>
  \A r \in job[t].wait \cap live :
    \E h \in Jobs : /\ Token(h) = r /\ job[h].layer = job[t].layer
                    /\ job[h].pc \in {"stat", "prepare", "apply", "release", "failing"}


(* Every lease containerd keeps for this worker has a launch or a VM, is   *)
(* about to be deleted or could not be: a crash pins nothing for ever.     *)
LeasesHaveOwners == \A e \in leases :
  \/ e.run \in queue \cup stale
  \/ \E t \in Jobs : job[t].n = e.run

(* unpack.rs:79-80: the protocol has no Stat before Prepare, which "avoids *)
(* TOCTOU races between snapshot existence checks and creation".  A layer  *)
(* a launch has gone past is there until the launch is through.            *)
PassedLayersStay == \A t \in Jobs :
  job[t].pc \in {"claim", "waiting", "stat", "prepare", "apply", "label", "view"} =>
    \A l \in 1..(job[t].layer - 1) : Committed(l) \in store.snaps
=============================================================================
