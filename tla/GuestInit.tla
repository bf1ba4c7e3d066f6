----------------------------- MODULE GuestInit -----------------------------
(***************************************************************************)
(* guest-init, the first process of a VM: one thread runs the connection   *)
(* loop, which serves the worker's commands and outlives its connections,  *)
(* and next to it the handling of container exits.  A container's output   *)
(* is read from its pipe into a bounded buffer by a fill task; events and  *)
(* output are drained to the worker by tasks of the connection.            *)
(*                                                                         *)
(* phase is where the connection loop awaits, listed the containers its    *)
(* next Ready names, todo the containers it has still to open an output    *)
(* stream for, box the containers, exits the exit channel, events the      *)
(* EventBuffer, hand the event the drain task took last, drains the live   *)
(* drain tasks (Events or a container), link whether the transport works,  *)
(* vm the worker's ManagedVm, stuck a thread that waits for its own lock.  *)
(***************************************************************************)
EXTENDS Naturals, Sequences, FiniteSets, FiniteSetsExt

CONSTANTS Containers,      \* containers of the pod
          Captured,        \* those with capture_output
          Capacity,        \* of OutputBuffer
          MaxChunks,       \* chunks a container writes
          MaxConnections   \* connections of the VM's life
VARIABLES phase, listed, todo, box, exits, events, hand, drains, link, vm, stuck

gVars == <<phase, listed, todo, box, exits, events, hand, drains, link, vm, stuck>>

EventTask == "events"

NoVm == [up |-> FALSE, started |-> {}, exited |-> {}, req |-> <<>>]

Init == /\ phase = "accept" /\ listed = {} /\ todo = {}
        /\ box = [c \in Containers |-> [st |-> "none", pipe |-> 0, buf |-> 0, full |-> FALSE,
                                        made |-> 0, drops |-> 0, lost |-> 0]]
        /\ exits = <<>> /\ events = <<>> /\ hand = <<>> /\ drains = {}
        /\ link = [up |-> FALSE, used |-> 0]
        /\ vm = NoVm /\ stuck = FALSE

running_container_ids(b) == {c \in Containers : b[c].st \in {"running", "dead", "reaped"}}
containers_with_output(b) ==
  {c \in Captured : b[c].st \in {"running", "dead", "reaped"}}

(* The guard of containers.lock() is a temporary of the for and of the     *)
(* if-let, so it lives across the awaits of their bodies.                  *)
LockHeld == phase \in {"attach", "started"}

----------------------------------------------------------------------------
(* The containers: the process, its pipe, the fill task, the exit monitor. *)

container_writes(c) ==
  /\ box[c].st = "running" /\ c \in Captured /\ box[c].made < MaxChunks
  /\ box' = [box EXCEPT ![c].pipe = @ + 1, ![c].made = @ + 1]
  /\ UNCHANGED <<phase, listed, todo, exits, events, hand, drains, link, vm, stuck>>

(* drain_pipe_to_buffer: the send waits when the buffer is full. *)
fill_loop(c) ==
  /\ ~stuck /\ box[c].st \in {"running", "dead"}
  /\ \/ /\ ~box[c].full /\ box[c].pipe > 0
        /\ box' = [box EXCEPT ![c].pipe = @ - 1,
                              ![c].buf = IF @ < Capacity THEN @ + 1 ELSE @,
                              ![c].full = box[c].buf = Capacity]
     \/ /\ box[c].full /\ box[c].buf < Capacity
        /\ box' = [box EXCEPT ![c].buf = @ + 1, ![c].full = FALSE]
  /\ UNCHANGED <<phase, listed, todo, exits, events, hand, drains, link, vm, stuck>>

process_exits(c) ==
  /\ box[c].st = "running"
  /\ box' = [box EXCEPT ![c].st = "dead"]
  /\ UNCHANGED <<phase, listed, todo, exits, events, hand, drains, link, vm, stuck>>

\* Slip: the final drain does not count what the buffer refuses.
final_drain_to_buffer_blind(b) ==
  LET kept == Min({b.pipe, Capacity - b.buf})
  IN [b EXCEPT !.pipe = 0, !.buf = @ + kept, !.lost = @ + (b.pipe - kept)]

(* try_send of what is left in the pipe. *)
final_drain_to_buffer(b) ==
  LET kept == Min({b.pipe, Capacity - b.buf})
  IN [b EXCEPT !.pipe = 0, !.buf = @ + kept,
               !.drops = @ + (b.pipe - kept), !.lost = @ + (b.pipe - kept)]

(* signal_exit waits for the fill task, which may itself wait for room. *)
exit_monitor_task(c) ==
  /\ ~stuck /\ box[c].st = "dead" /\ ~box[c].full
  /\ box' = [box EXCEPT ![c] = [final_drain_to_buffer(@) EXCEPT !.st = "reaped"]]
  /\ exits' = Append(exits, c)
  /\ UNCHANGED <<phase, listed, todo, events, hand, drains, link, vm, stuck>>

(* A buffer is gone with its container and the drain task that reads it. *)
DropBuffers(b, tasks) ==
  [c \in Containers |-> IF b[c].st = "removed" /\ c \notin tasks
                        THEN [b[c] EXCEPT !.buf = 0, !.lost = @ + b[c].buf] ELSE b[c]]

mark_exited(b, c) == [b EXCEPT ![c].st = "exited"]
remove(b, c) == DropBuffers([b EXCEPT ![c].st = "removed"], drains)

handle_container_exit(c) ==
  IF LockHeld
  THEN stuck' = TRUE /\ UNCHANGED <<box, exits, events>>
  ELSE /\ exits' = Tail(exits)
       /\ events' = Append(events, c)
       /\ box' = remove(mark_exited(box, c), c)
       /\ UNCHANGED stuck

(* The supervisor's select takes an exit whenever the connection loop      *)
(* awaits.                                                                 *)
run_supervisor ==
  /\ ~stuck /\ phase \notin {"stopping", "over"} /\ exits # <<>>
  /\ handle_container_exit(Head(exits))
  /\ UNCHANGED <<phase, listed, todo, hand, drains, link, vm>>

----------------------------------------------------------------------------
(* The drain tasks of a connection. *)

drain_events_to_yamux ==
  /\ ~stuck /\ EventTask \in drains
  /\ \/ /\ hand = <<>> /\ events # <<>>
        /\ hand' = <<Head(events)>> /\ events' = Tail(events)
        /\ UNCHANGED <<drains, vm>>
     \/ /\ hand # <<>> /\ hand' = <<>> /\ UNCHANGED events
        /\ IF link.up THEN /\ vm' = [vm EXCEPT !.exited = @ \cup {hand[1]}]
                           /\ UNCHANGED drains
           ELSE drains' = drains \ {EventTask} /\ UNCHANGED vm
  /\ UNCHANGED <<phase, listed, todo, box, exits, link, stuck>>

drain_output_to_yamux(c) ==
  /\ ~stuck /\ c \in drains /\ box[c].buf > 0
  /\ LET b == [box EXCEPT ![c].buf = @ - 1]
     IN IF link.up THEN box' = b /\ UNCHANGED drains
        ELSE /\ drains' = drains \ {c}
             /\ box' = DropBuffers([b EXCEPT ![c].lost = @ + 1], drains')
  /\ UNCHANGED <<phase, listed, todo, exits, events, hand, link, vm, stuck>>

----------------------------------------------------------------------------
(* The connection loop. *)

(* Session::connect fails with its connection, and the loop with it: the   *)
(* supervisor returns and the VM reboots.                                  *)
connect ==
  /\ ~stuck /\ phase = "hello"
  /\ IF ~link.up
     THEN phase' = "over" /\ UNCHANGED <<todo, drains, vm>>
     ELSE /\ vm' = [NoVm EXCEPT !.up = TRUE, !.started = listed]
          /\ drains' = {EventTask}
          /\ todo' = containers_with_output(box)
          /\ phase' = IF todo' = {} THEN "loop" ELSE "attach"
  /\ UNCHANGED <<listed, box, exits, events, hand, link, stuck>>

(* One output stream of handle_container_started or of the new connection. *)
open_output_stream ==
  /\ ~stuck /\ LockHeld
  /\ \E c \in todo :
       /\ todo' = todo \ {c}
       /\ drains' = IF link.up THEN drains \cup {c} ELSE drains
       /\ phase' = IF todo' = {} THEN "loop" ELSE phase
  /\ UNCHANGED <<listed, box, exits, events, hand, link, vm, stuck>>

\* Slip: the connection's tasks outlive it.
drop_conn_tasks_never(b) ==
  /\ phase' = "accept" /\ listed' = running_container_ids(b) /\ todo' = {}
  /\ UNCHANGED <<drains, hand>> /\ box' = b

(* drop(conn_tasks), and the loop starts over: the containers Ready will   *)
(* name are read before the next connection is accepted.                   *)
drop_conn_tasks(b) ==
  /\ phase' = "accept" /\ listed' = running_container_ids(b) /\ todo' = {}
  /\ drains' = {} /\ hand' = <<>>
  /\ box' = DropBuffers(b, {})

connection_lost ==
  /\ ~stuck /\ phase = "loop" /\ ~link.up
  /\ drop_conn_tasks(box) /\ vm' = NoVm
  /\ UNCHANGED <<exits, events, link, stuck>>

(* The backend mounts and clones, or fails; the manager keeps a container  *)
(* the backend accepted.  A signal is delivered to a container with a pid. *)
backend_add(b, ok) == IF ok THEN [b EXCEPT !.st = "added"] ELSE b
backend_start(b, ok) == IF b.st = "added" /\ ok THEN [b EXCEPT !.st = "running"] ELSE b
add(c, ok) == IF box[c].st = "none" THEN [box EXCEPT ![c] = backend_add(@, ok)] ELSE box
start(c, ok) == IF box[c].st = "none" THEN box ELSE [box EXCEPT ![c] = backend_start(@, ok)]
signal(c) == c \in running_container_ids(box)

(* What the command does to the containers, and whether it is answered     *)
(* with its own response or with Error.                                    *)
execute_command(cmd, ok) ==
  LET b == CASE cmd.op = "add" -> add(cmd.c, ok)
             [] cmd.op = "start" -> start(cmd.c, ok)
             [] OTHER -> box
  IN [box |-> b, ok |-> CASE cmd.op \in {"add", "start"} -> b # box
                          [] cmd.op = "signal" -> signal(cmd.c)
                          [] OTHER -> ok]

handle_container_started(c) ==
  IF c \in Captured THEN phase' = "started" /\ todo' = {c} ELSE UNCHANGED <<phase, todo>>

(* The control arm: a response that cannot be sent ends the connection, a  *)
(* container that started with output gets its stream first.  The worker   *)
(* gives the VM up on Error.                                               *)
connection_loop ==
  /\ ~stuck /\ phase = "loop" /\ vm.req # <<>>
  /\ \E ok \in BOOLEAN :
       LET cmd == vm.req[1]
           r == execute_command(cmd, ok)
           started == cmd.op = "start" /\ r.ok
       IN IF ~link.up
          THEN drop_conn_tasks(r.box) /\ vm' = NoVm /\ UNCHANGED link
          ELSE /\ box' = r.box
               /\ IF started THEN handle_container_started(cmd.c) ELSE UNCHANGED <<phase, todo>>
               /\ IF r.ok \/ cmd.op = "signal"
                  THEN /\ vm' = [vm EXCEPT !.req = <<>>,
                                           !.started = IF started THEN @ \cup {cmd.c} ELSE @]
                       /\ UNCHANGED link
                  ELSE vm' = NoVm /\ link' = [link EXCEPT !.up = FALSE, !.used = MaxConnections]
               /\ UNCHANGED <<listed, drains, hand>>
  /\ UNCHANGED <<exits, events, stuck>>

(* PrepareSuspend: SuspendReady is sent, the connection closed.  The       *)
(* worker snapshots the VM and a restored VM goes on from here.            *)
prepare_suspend ==
  /\ ~stuck /\ phase = "loop" /\ vm.up /\ vm.req = <<>> /\ link.up
  /\ vm' = NoVm /\ link' = [link EXCEPT !.up = FALSE]
  /\ drop_conn_tasks(box)
  /\ UNCHANGED <<exits, events, stuck>>

(* Shutdown: the loop returns, shutdown_containers signals and waits for   *)
(* the exits until its two deadlines, and the VM reboots.                  *)
shutdown ==
  /\ ~stuck /\ phase = "loop" /\ vm.up /\ vm.req = <<>> /\ link.up
  /\ phase' = "stopping" /\ drains' = {} /\ hand' = <<>> /\ box' = DropBuffers(box, {})
  /\ vm' = NoVm /\ link' = [link EXCEPT !.up = FALSE]
  /\ UNCHANGED <<listed, todo, exits, events, stuck>>

shutdown_containers ==
  /\ ~stuck /\ phase = "stopping"
  /\ \/ /\ exits # <<>> /\ handle_container_exit(Head(exits)) /\ UNCHANGED phase
     \/ phase' = "over" /\ UNCHANGED <<box, exits, events, stuck>>
  /\ UNCHANGED <<listed, todo, hand, drains, link, vm>>

----------------------------------------------------------------------------
(* The worker: GuestSession::new, the requests of ManagedVm one at a time, *)
(* and a connection that breaks.                                           *)

host_connects ==
  /\ ~stuck /\ phase = "accept" /\ ~vm.up /\ ~link.up /\ link.used < MaxConnections
  /\ link' = [up |-> TRUE, used |-> link.used + 1]
  /\ phase' = "hello"
  /\ UNCHANGED <<listed, todo, box, exits, events, hand, drains, vm, stuck>>

send(op, c) ==
  /\ vm.up /\ vm.req = <<>> /\ phase = "loop"
  /\ vm' = [vm EXCEPT !.req = <<[op |-> op, c |-> c]>>]
  /\ UNCHANGED <<phase, listed, todo, box, exits, events, hand, drains, link, stuck>>

configure_network(c) == send("network", c)
mount_volume(c) == send("volume", c)
add_container(c) == box[c].st = "none" /\ send("add", c)
start_container(c) == box[c].st = "added" /\ send("start", c)
stop_containers(c) == c \in vm.started /\ send("signal", c)

link_breaks ==
  /\ link.up
  /\ link' = [link EXCEPT !.up = FALSE]
  /\ vm' = [NoVm EXCEPT !.req = vm.req]
  /\ UNCHANGED <<phase, listed, todo, box, exits, events, hand, drains, stuck>>

Over == /\ phase = "over" \/ stuck \/ (phase = "accept" /\ link.used = MaxConnections)
        /\ UNCHANGED gVars

Next == \/ \E c \in Containers : container_writes(c) \/ fill_loop(c) \/ process_exits(c)
                                 \/ exit_monitor_task(c) \/ drain_output_to_yamux(c)
        \/ \E c \in Containers : configure_network(c) \/ mount_volume(c) \/ add_container(c)
                                 \/ start_container(c) \/ stop_containers(c)
        \/ run_supervisor \/ drain_events_to_yamux
        \/ connect \/ open_output_stream \/ connection_lost \/ connection_loop
        \/ prepare_suspend \/ shutdown \/ shutdown_containers
        \/ host_connects \/ link_breaks \/ Over

----------------------------------------------------------------------------
InTransit == {exits[i] : i \in DOMAIN exits} \cup {events[i] : i \in DOMAIN events}
             \cup {hand[i] : i \in DOMAIN hand}

(* A container the connected worker takes for started runs, or its exit is *)
(* known to the worker or still on its way through the exit channel, the   *)
(* event buffer and the drain task of this connection, although Ready was  *)
(* put together before the connection was accepted (connection_loop).      *)
StartedAreAccountedFor ==
  vm.up /\ phase # "over" =>
    \A c \in vm.started \ vm.exited : box[c].st \in {"running", "dead"} \/ c \in InTransit

(* Output that is lost while the worker is connected is reported with the  *)
(* exit as output_bytes_dropped (final_drain_to_buffer); beyond that,      *)
(* output is lost only with a connection.                                  *)
LossIsReported ==
  \A c \in Containers : box[c].lost > box[c].drops => link.used > 1 \/ ~link.up

(* The guest's thread never waits for the container lock it holds          *)
(* (handle_container_exit while the connection loop opens a stream).       *)
ThreadNeverWaitsForItself == ~stuck
=============================================================================
