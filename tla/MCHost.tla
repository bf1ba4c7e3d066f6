------------------------------ MODULE MCHost --------------------------------
(***************************************************************************)
(* The parts of a worker host and of the guests on it that have only       *)
(* safety properties, checked side by side: on names the part a behaviour  *)
(* exercises and the others keep one of their initial states, so that the  *)
(* state space is the sum of theirs.                                       *)
(***************************************************************************)
EXTENDS Integers, Sequences

CONSTANT Parts  \* of "init", "memory", "boot", "vm", "images", "transfer", "capacity"
VARIABLE on

----------------------------------------------------------------------------
(* The guest's supervisor of containers and sessions. *)
CONSTANTS Containers, Captured, Capacity, MaxChunks, MaxConnections
VARIABLES phase, listed, todo, box, exits, events, hand, drains, link, vm, stuck
I == INSTANCE GuestInit
iVars == <<phase, listed, todo, box, exits, events, hand, drains, link, vm, stuck>>

(* The guest's memory manager. *)
CONSTANTS VmMem, Balloon, Kernel, Gap, InitialStep, MaxStep, InflationStep, Headroom,
          StreakRequired, Chunk, MaxAsked, MaxChanges
VARIABLES mem, asked, target, pages, seen, changes, told, count
M == INSTANCE GuestMemory
mVars == <<mem, asked, target, pages, seen, changes, told, count>>

(* How the guest boots and watches its cgroups. *)
CONSTANTS Booted, MaxCount
VARIABLES boot, sys, host, proc, links, counters, noted, mon, psi
B == INSTANCE GuestBoot WITH Containers <- Booted, count <- counters
bVars == <<boot, sys, host, proc, links, counters, noted, mon, psi>>

(* Starting, snapshotting and dropping a VM. *)
CONSTANT MaxClock
VARIABLES route, at, world, owned, signalled, guest, snap
V == INSTANCE VmLaunch
vVars == <<route, at, world, owned, signalled, guest, snap>>

(* Images, layers and leases. *)
CONSTANTS Jobs, Layers, MaxRuns
VARIABLES job, runs, claims, live, store, leases, queue, stale
S == INSTANCE ImageStore
sVars == <<job, runs, claims, live, store, leases, queue, stale>>

(* Moving artifacts between pools and workers. *)
CONSTANTS NearPools, FarPools, Files, MaxTransfers
VARIABLES dir, partial, transfer, peer, wire, erasing, said, table
T == INSTANCE Transfer WITH job <- transfer
tVars == <<dir, partial, transfer, peer, wire, erasing, said, table>>

(* Capacity reports. *)
CONSTANTS Size, Free, Loads, Soft, Hard
VARIABLES free, load, lastPools, lastPsi, outbox, report
C == INSTANCE Capacity WITH told <- report
cVars == <<free, load, lastPools, lastPsi, outbox, report>>

----------------------------------------------------------------------------
Init == /\ on \in Parts
        /\ I!Init /\ M!Init /\ B!BInit /\ V!VInit /\ S!IInit /\ T!TInit /\ C!CInit
        /\ on # "boot" => ~sys.balloon
        /\ on # "vm" => route = CHOOSE r \in DOMAIN V!Route : TRUE
        /\ on # "capacity" => free = CHOOSE f \in Free : TRUE
        /\ on # "capacity" => load = CHOOSE l \in Loads : TRUE

(* The parts other than the named one keep their state. *)
Still(part, running, state) == IF part = running THEN TRUE ELSE UNCHANGED state
Only(part) ==
  /\ on = part /\ UNCHANGED on
  /\ Still("init", part, iVars) /\ Still("memory", part, mVars)
  /\ Still("boot", part, bVars) /\ Still("vm", part, vVars)
  /\ Still("images", part, sVars) /\ Still("transfer", part, tVars)
  /\ Still("capacity", part, cVars)

Next == \/ Only("init") /\ I!Next
        \/ Only("memory") /\ M!Next
        \/ Only("boot") /\ B!BNext
        \/ Only("vm") /\ V!VNext
        \/ Only("images") /\ S!INext
        \/ Only("transfer") /\ T!TNext
        \/ Only("capacity") /\ C!CNext

vars == <<on, iVars, mVars, bVars, vVars, sVars, tVars, cVars>>

Spec == Init /\ [][Next]_vars

----------------------------------------------------------------------------
(* Every container that was started is accounted for across lost           *)
(* connections, and output that is dropped is reported as lost             *)
(* (guest-init supervisor.rs, session.rs).                                 *)
StartedAreAccountedFor == I!StartedAreAccountedFor /\ I!LossIsReported

(* Memory that was asked for and not given back yet is what the manager    *)
(* still waits for (memory/manager.rs).                                    *)
PendingCoversReleases == M!PendingCoversReleases


(* The files a VM uses are there for as long as it runs, and a snapshot    *)
(* shows memory and disk of one instant (vmm/cloud_hypervisor).            *)
FilesOutliveTheVm == V!FilesOutliveTheVm /\ V!SnapshotIsOneInstant



=============================================================================
