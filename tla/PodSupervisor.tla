--------------------------- MODULE PodSupervisor ---------------------------
(***************************************************************************)
(* The supervisor task a worker spawns for every pod: it sets the VM up    *)
(* (pod_launch or pod_restore), announces it, monitors it and, whatever    *)
(* ends the pod, takes the VM down and reports one last event.             *)
(*                                                                         *)
(* sup[p] is the task of pod p:                                            *)
(*   pc     where the task is; "idle" before it is spawned, "done" after   *)
(*          it returned, "gone" after its TaskHandle aborted it            *)
(*   how    "launch" or "resume"                                           *)
(*   vm     the child process once the task's VmInstance owns it (VmLaunch  *)
(*          has the boot before that): "none", "up" or "dead"              *)
(*   cancel the pod's cancellation token                                   *)
(*   final  the event handed to the worker when the task returns           *)
(*   mail   a SuspendRequest waits in suspend_rx                           *)
(*   reply  what the SuspendRequest's oneshot holds                        *)
(*   spent  seconds the shutdown may have taken so far                     *)
(* bg is the channel bg_event_tx -> bg_event_rx of the worker, disk the    *)
(* artifacts (named by the pod they were taken from) whose snapshot is     *)
(* complete.  Failed set-up, a dying VM and a guest that exits or breaks   *)
(* are choices of the environment.                                         *)
(***************************************************************************)
EXTENDS Naturals, Sequences

CONSTANTS Pods,        \* the pods the orchestrator names
          BgCapacity,  \* slots of the channel bg_event_tx
          Telemetry    \* telemetry events a pod may cause
VARIABLES sup, bg, disk

supVars == <<sup, bg, disk>>

NoTask == [pc |-> "idle", how |-> "launch", vm |-> "none", cancel |-> FALSE,
           final |-> "none", mail |-> FALSE, reply |-> "none", spent |-> 0,
           told |-> 0]

SupInit == /\ sup = [p \in Pods |-> NoTask]
           /\ bg = <<>>
           /\ disk = {}

(* The task is over: nothing of it is left but the VM it may have leaked.  *)
Over(t, pc) == [NoTask EXCEPT !.pc = pc, !.vm = t.vm]
Ended(p) == sup[p].pc \in {"done", "gone"}

(* Seconds a phase of the shutdown may take: stop_containers, the output   *)
(* drain, and GRACEFUL_SHUTDOWN_TIMEOUT around vm.shutdown.                *)
Bound(pc) == CASE pc = "stop" -> 8 [] pc = "drain" -> 5 [] pc = "shutdown" -> 10
               [] OTHER -> 15
STOP_POD_TIMEOUT == 15

(* The task moves on to pc; a phase of the shutdown may have taken all the *)
(* time it is given.                                                       *)
Step(p, pc) == sup' = [sup EXCEPT ![p].pc = pc,
                                  ![p].spent = IF sup[p].pc \in {"stop", "drain"}
                                               THEN @ + Bound(sup[p].pc) ELSE @]

(* send_event: waits for a slot of the channel. *)
send_event(kind, p) == /\ Len(bg) < BgCapacity
                       /\ bg' = Append(bg, [kind |-> kind, pod |-> p])

(* The TaskHandle is dropped: the task stops where it is, its ManagedVm is *)
(* dropped, which kills the child it owns, and the reply channel closes.   *)
Aborted(t) == IF t.pc \in {"idle", "done", "gone"} THEN t
              ELSE Over([t EXCEPT !.vm = "dead"], "gone")

----------------------------------------------------------------------------
(* Set-up.  An error, or the token while a step awaits, ends it: what was  *)
(* built is dropped and the task reports the failure.                      *)

\* Slip: a failed set-up leaves the child process to itself.
setup_failed_leaks(p) ==
  sup' = [sup EXCEPT ![p].pc = "report",
                     ![p].final = IF sup[p].cancel THEN "PodExited" ELSE "PodFailed"]

setup_failed(p) ==
  sup' = [sup EXCEPT ![p].pc = "report",
                     ![p].vm = IF @ = "up" THEN "dead" ELSE @,
                     ![p].final = IF sup[p].cancel THEN "PodExited" ELSE "PodFailed"]

prepare_image(p) == /\ sup[p].pc = "prepare" /\ sup[p].how = "launch"
                    /\ setup_failed(p) \/ Step(p, "boot")
                    /\ UNCHANGED <<bg, disk>>

(* A resume prepares again the image and the volumes the snapshot names. *)
pod_restore(p) == /\ sup[p].pc = "prepare" /\ sup[p].how = "resume"
                  /\ setup_failed(p) \/ Step(p, "boot")
                  /\ UNCHANGED <<bg, disk>>

boot_vm(p) == /\ sup[p].pc = "boot"
              /\ \/ setup_failed(p)
                 \/ sup' = [sup EXCEPT ![p].pc = "connect", ![p].vm = "up"]
              /\ UNCHANGED <<bg, disk>>

setup_instance(p) ==
  /\ sup[p].pc = "connect"
  /\ \/ setup_failed(p)
     \/ /\ sup[p].vm = "up"
        /\ Step(p, IF sup[p].how = "launch" THEN "configure" ELSE "announce")
  /\ UNCHANGED <<bg, disk>>

(* Network, volumes, the container and its output stream; a log stream     *)
(* that cannot be opened is reported and the launch goes on without it.    *)
configure_guest(p) ==
  /\ sup[p].pc = "configure"
  /\ \/ setup_failed(p) /\ UNCHANGED bg
     \/ sup[p].vm = "up" /\ Step(p, "announce") /\ UNCHANGED bg
     \/ sup[p].vm = "up" /\ Step(p, "announce") /\ send_event("PodLogStreamError", p)
  /\ UNCHANGED disk

run_pod_supervisor(p) == /\ sup[p].pc = "announce"
                         /\ send_event("PodRunning", p)
                         /\ Step(p, "monitor")
                         /\ UNCHANGED disk

----------------------------------------------------------------------------
(* pod_monitor: whatever ends its loop decides how the VM is taken down.   *)

ends_with(p, pc, vm, final) ==
  /\ sup' = [sup EXCEPT ![p].pc = pc, ![p].vm = vm, ![p].final = final]
  /\ UNCHANGED <<bg, disk>>

guest_exits(p) == /\ sup[p].pc = "monitor" /\ sup[p].vm = "up"
                  /\ ends_with(p, "drain", "up", "PodExited")
(* A task error, a closed event stream, the yamux driver, the port task.   *)
guest_breaks(p) == /\ sup[p].pc = "monitor"
                   /\ ends_with(p, "report", "dead", "PodFailed")
vm_exits(p) == /\ sup[p].pc = "monitor" /\ sup[p].vm = "dead"
               /\ ends_with(p, "report", "dead", "PodFailed")
is_cancelled(p) == /\ sup[p].pc = "monitor" /\ sup[p].cancel
                   /\ ends_with(p, "stop", sup[p].vm, "PodExited")

telemetry(p) == /\ sup[p].pc = "monitor" /\ sup[p].told < Telemetry
                /\ send_event("PodOomKill", p)
                /\ sup' = [sup EXCEPT ![p].told = @ + 1]
                /\ UNCHANGED disk

(* handle_cancel signals the containers first; from there on it does what  *)
(* handle_container_exit does: drain the output unless the VM dies, then   *)
(* shut it down, killing it on an error or a timeout.                      *)
stop_containers(p) == /\ sup[p].pc = "stop"
                      /\ Step(p, "drain")
                      /\ UNCHANGED <<bg, disk>>

await_log_drain(p) ==
  /\ sup[p].pc = "drain"
  /\ Step(p, IF sup[p].vm = "dead" THEN "report" ELSE "shutdown")
  /\ UNCHANGED <<bg, disk>>

shutdown_vm(p) == /\ sup[p].pc = "shutdown"
                  /\ sup' = [sup EXCEPT ![p].pc = "report", ![p].vm = "dead"]
                  /\ UNCHANGED <<bg, disk>>

report(p) == /\ sup[p].pc = "report"
             /\ send_event(sup[p].final, p)
             /\ sup' = [sup EXCEPT ![p] = Over(@, "done")]
             /\ UNCHANGED disk

----------------------------------------------------------------------------
(* handle_suspend: the write is announced, the VM snapshotted and dropped, *)
(* the waiting command answered, and then the artifact and the suspension  *)
(* are reported, in this order.                                            *)

suspend_requested(p) == /\ sup[p].pc = "monitor" /\ sup[p].mail
                        /\ send_event("ArtifactWriteStarted", p)
                        /\ sup' = [sup EXCEPT ![p].pc = "snapshot", ![p].mail = FALSE]
                        /\ UNCHANGED disk

suspend_vm(p) ==
  /\ sup[p].pc = "snapshot"
  /\ \/ /\ sup[p].vm = "up"
        /\ disk' = disk \cup {p}
        /\ sup' = [sup EXCEPT ![p].pc = "commit", ![p].vm = "dead", ![p].reply = "ok"]
     \/ /\ sup' = [sup EXCEPT ![p].pc = "report", ![p].vm = "dead", ![p].reply = "err",
                              ![p].final = "PodSuspendFailed"]
        /\ UNCHANGED disk
  /\ UNCHANGED bg

\* Slip: the pod is reported suspended before its artifact is committed.
commit_swapped(p) == \/ /\ sup[p].pc = "commit"
                        /\ send_event("PodSuspended", p)
                        /\ sup' = [sup EXCEPT ![p].pc = "suspended"]
                        /\ UNCHANGED disk
                     \/ /\ sup[p].pc = "suspended"
                        /\ send_event("ArtifactWriteCommitted", p)
                        /\ sup' = [sup EXCEPT ![p] = Over(@, "done")]
                        /\ UNCHANGED disk

commit(p) == \/ /\ sup[p].pc = "commit"
                /\ send_event("ArtifactWriteCommitted", p)
                /\ sup' = [sup EXCEPT ![p].pc = "suspended"]
                /\ UNCHANGED disk
             \/ /\ sup[p].pc = "suspended"
                /\ send_event("PodSuspended", p)
                /\ sup' = [sup EXCEPT ![p] = Over(@, "done")]
                /\ UNCHANGED disk

----------------------------------------------------------------------------
(* The VM process dies by itself. *)
vm_dies(p) == /\ sup[p].vm = "up"
              /\ sup' = [sup EXCEPT ![p].vm = "dead"]
              /\ UNCHANGED <<bg, disk>>

(* What the task does without being asked for anything further; a healthy  *)
(* pod may stay in its monitor for ever.                                   *)
Progress(p) == \/ prepare_image(p) \/ pod_restore(p) \/ boot_vm(p)
               \/ setup_instance(p)
               \/ configure_guest(p) \/ run_pod_supervisor(p)
               \/ vm_exits(p) \/ is_cancelled(p)
               \/ stop_containers(p) \/ await_log_drain(p) \/ shutdown_vm(p)
               \/ report(p)
               \/ suspend_requested(p) \/ suspend_vm(p) \/ commit(p)

Supervisor(p) == Progress(p) \/ guest_exits(p) \/ guest_breaks(p) \/ telemetry(p)
                 \/ vm_dies(p)
=============================================================================
