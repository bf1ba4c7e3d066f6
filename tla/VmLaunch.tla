------------------------------ MODULE VmLaunch ------------------------------
(***************************************************************************)
(* How a worker brings one VM up and takes it down: the steps of           *)
(* pod_launch and pod_restore through CloudHypervisorBuilder::launch,      *)
(* CloudHypervisor::restore and QemuBuilder::launch, any of which may fail *)
(* or be cancelled while it awaits, and the snapshot of a running VM.      *)
(*                                                                         *)
(*   route     "launch", "restore" or "qemu"                               *)
(*   at        the step of the route that comes next; then "running",      *)
(*             "dropping" while owners are dropped and "gone"              *)
(*   world     what exists on the host: the containerd lease and view, the *)
(*             mount of the view, virtiofsd, the directories, the TAP, the *)
(*             child process                                               *)
(*   owned     the part of it some Rust value gives back when dropped      *)
(*   signalled the child was sent SIGKILL                                  *)
(*   guest     paused: the vCPUs are stopped; clock: what the guest wrote  *)
(*             to its memory and its volumes so far                        *)
(*   snap      the snapshot directory: for each part, the clock it holds   *)
(* A tokio Child that is dropped goes on running: no Command of the crate  *)
(* sets kill_on_drop.                                                      *)
(***************************************************************************)
EXTENDS Naturals, Sequences, FiniteSets

CONSTANT MaxClock   \* writes of the guest
VARIABLES route, at, world, owned, signalled, guest, snap

vVars == <<route, at, world, owned, signalled, guest, snap>>

Containerd == <<"unpack", "view", "mount", "fsd", "share">>
Connected == <<"port", "vsock", "instance", "setup">>
PodLaunch == <<"lease", "image", "volumes", "builder">>
PodRestore == <<"lease", "image", "volumes">>
LaunchRoute == PodLaunch \o <<"scratch">> \o Containerd
               \o <<"spawn", "wait", "tap", "boot">> \o Connected \o <<"configure", "running">>
RestoreRoute == PodRestore \o <<"copy">> \o Containerd
                \o <<"tap", "patch", "spawn", "wait", "restore">> \o Connected \o <<"running">>
(* QEMU takes block images only and has no network. *)
QemuRoute == <<"volumes", "builder", "scratch", "spawn", "wait", "qmp", "serial",
               "instance", "setup", "configure", "running">>
Route == [launch |-> LaunchRoute, restore |-> RestoreRoute, qemu |-> QemuRoute]
Position == CHOOSE i \in DOMAIN Route[route] : Route[route][i] = at
After == Route[route][Position + 1]

VInit == /\ route \in DOMAIN Route
         /\ at = Route[route][1]
         /\ world = {} /\ owned = {} /\ signalled = FALSE
         /\ guest = [paused |-> FALSE, clock |-> 0]
         /\ snap = <<>>

(* The step made things, and owned ones are given back on every exit. *)
Made(things, given) == /\ world' = world \cup things /\ owned' = owned \cup given
                       /\ at' = After
                       /\ UNCHANGED <<route, signalled, guest, snap>>

----------------------------------------------------------------------------
(* The image and the files. *)

create_persistent_lease == at = "lease" /\ Made({"lease"}, {"lease"})
ensure_image == at = "image" /\ Made({}, {})
prepare_volumes == at = "volumes" /\ Made({"voldir"}, {"voldir"})
builder == at = "builder" /\ Made({"tmpdir"}, {"tmpdir"})
create_overlay_image == at = "scratch" /\ Made({}, {})
copy_snapshot_to_tmpdir == at = "copy" /\ Made({"tmpdir"}, {"tmpdir"})
ensure_unpacked_with_gc_labels == at = "unpack" /\ Made({}, {})
create_overlayfs_view == at = "view" /\ Made({"view"}, {})
mount_containerd_mounts == at = "mount" /\ Made({"mount"}, {})
(* virtiofsd runs from here on, but its owner, and the one of the mount,   *)
(* are built when its socket has appeared.                                 *)
spawn_virtiofsd == at = "fsd" /\ Made({"fsd"}, {})
materialize_containerd == at = "share" /\ Made({}, {"fsd", "mount", "view"})

----------------------------------------------------------------------------
(* The VM process. *)

spawn_cloud_hypervisor == at = "spawn" /\ Made({"child"}, {})
wait_for_file == at = "wait" /\ "child" \in world /\ Made({}, {})
build_tap == at = "tap" /\ Made({"tap"}, {"tap"})
api_request == at \in {"boot", "restore"} /\ "child" \in world /\ Made({}, {})
patch_snapshot_config == at = "patch" /\ Made({}, {})
qmp_connect == at = "qmp" /\ "child" \in world /\ Made({}, {})
connect_virtio_serial == at = "serial" /\ "child" \in world /\ Made({}, {})
tap_to_fabric_port == at = "port" /\ Made({"port"}, {"port"})
connect_vsock_retry == at = "vsock" /\ "child" \in world /\ Made({}, {})
new_instance == at = "instance" /\ Made({}, {"child"})
setup_instance == at = "setup" /\ "child" \in world /\ Made({}, {})
configure_guest == at = "configure" /\ "child" \in world /\ Made({}, {})

----------------------------------------------------------------------------
(* The way down.  pod_launch returns an error or is cancelled: whatever    *)
(* has an owner is dropped; so is a running VM when its ManagedVm is.      *)

drop_begins == /\ at \notin {"instance", "dropping", "gone"}
               /\ at' = "dropping"
               /\ UNCHANGED <<route, world, owned, signalled, guest, snap>>

(* Field order of the instance, and Drop::drop before any field.  Without  *)
(* an instance the locals of launch go, the last declared one first.       *)
InstanceOrder == <<"child", "fsd", "mount", "view", "lease", "tmpdir", "tap", "port", "voldir">>
LocalOrder == <<"tap", "port", "lease", "mount", "view", "fsd", "tmpdir", "voldir">>

\* Slip: the instance keeps the process in the last field and has no Drop.
drop_order_late == IF "child" \in owned THEN Append(Tail(InstanceOrder), "child")
                   ELSE LocalOrder

drop_order == IF "child" \in owned \/ signalled THEN InstanceOrder ELSE LocalOrder

drop_next ==
  /\ at = "dropping" /\ owned # {}
  /\ LET left == SelectSeq(drop_order, LAMBDA x : x \in owned)
         x == Head(left)
     IN /\ owned' = owned \ {x}
        /\ IF x = "child" THEN signalled' = TRUE /\ UNCHANGED world
           ELSE world' = world \ {x} /\ UNCHANGED signalled
  /\ UNCHANGED <<route, at, guest, snap>>

drop_ends == /\ at = "dropping" /\ owned = {}
             /\ at' = "gone"
             /\ UNCHANGED <<route, world, owned, signalled, guest, snap>>

(* The kernel ends a signalled child; a VM may also die by itself. *)
child_exits == /\ "child" \in world
               /\ world' = world \ {"child"}
               /\ UNCHANGED <<route, at, owned, signalled, guest, snap>>

----------------------------------------------------------------------------
(* The snapshot of a running VM: pause, vm.snapshot, the volumes, the      *)
(* metadata.  A failed step ends it: suspend consumes the instance, so the *)
(* VM goes down; snapshot (a clone) leaves it paused.                      *)

guest_writes == /\ at = "running" /\ "child" \in world
                /\ ~guest.paused /\ guest.clock < MaxClock
                /\ guest' = [guest EXCEPT !.clock = @ + 1]
                /\ UNCHANGED <<route, at, world, owned, signalled, snap>>

Snapshotting(part) == /\ at = "running" /\ "child" \in world /\ route # "qemu"
                      /\ snap' = Append(snap, [part |-> part, clock |-> guest.clock])
                      /\ UNCHANGED <<route, world, owned, signalled>>

\* Slip: the VM is left running while it is copied.
pause_vm_not == Snapshotting("dir") /\ snap = <<>> /\ UNCHANGED <<at, guest>>

pause_vm == /\ Snapshotting("dir") /\ snap = <<>>
            /\ guest' = [guest EXCEPT !.paused = TRUE]
            /\ UNCHANGED at
snapshot_vm == Snapshotting("memory") /\ Len(snap) = 1 /\ UNCHANGED <<at, guest>>
copy_volumes == Snapshotting("volumes") /\ Len(snap) = 2 /\ UNCHANGED <<at, guest>>
write_metadata == /\ Snapshotting("metadata") /\ Len(snap) = 3
                  /\ \/ at' = "dropping" /\ UNCHANGED guest
                     \/ guest' = [guest EXCEPT !.paused = FALSE] /\ UNCHANGED at

VNext == \/ create_persistent_lease \/ ensure_image \/ prepare_volumes \/ builder
         \/ create_overlay_image \/ copy_snapshot_to_tmpdir
         \/ ensure_unpacked_with_gc_labels \/ create_overlayfs_view
         \/ mount_containerd_mounts \/ spawn_virtiofsd \/ materialize_containerd
         \/ spawn_cloud_hypervisor \/ wait_for_file \/ build_tap \/ api_request
         \/ patch_snapshot_config \/ qmp_connect \/ connect_virtio_serial
         \/ tap_to_fabric_port \/ connect_vsock_retry \/ new_instance
         \/ setup_instance \/ configure_guest
         \/ drop_begins \/ drop_next \/ drop_ends \/ child_exits
         \/ guest_writes \/ pause_vm \/ snapshot_vm \/ copy_volumes \/ write_metadata
VSpec == VInit /\ [][VNext]_vVars

----------------------------------------------------------------------------
(* Properties *)

(* While an instance owns a VM that was not told to die, everything the VM *)
(* works on is still there: its disks and sockets, virtiofsd, the mounted  *)
(* image and the lease that keeps the layers (instance.rs: "child MUST be  *)
(* first").                                                                *)
FilesOutliveTheVm == "child" \in owned =>
  (IF route = "qemu" THEN {"tmpdir"} ELSE {"tmpdir", "fsd", "mount", "view", "lease"}) \subseteq world

(* A snapshot directory that has its metadata, the file a resume looks     *)
(* for, holds the memory and the volumes of one instant of the guest,      *)
(* however the guest writes while it is taken.                             *)
SnapshotIsOneInstant == Len(snap) = 4 =>
  \A i, j \in 2..3 : snap[i].clock = snap[j].clock

(* virtiofs.rs:12: virtiofsd is "Killed on drop, same as the CH process    *)
(* itself".  Once everything of a pod was dropped no process of it is left *)
(* that nobody told to die, and no mounted image.                          *)
KilledOnDrop == at = "gone" =>
  /\ "child" \in world => signalled
  /\ world \cap {"fsd", "mount"} = {}
=============================================================================
