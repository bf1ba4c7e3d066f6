----------------------------- MODULE ControlLink -----------------------------
(***************************************************************************)
(* The control connection between the orchestrator and its workers, as a   *)
(* ring of bounded queues: the shell's event channel and its inline        *)
(* handshake, a writer task and a reader task per worker, the yamux        *)
(* stream in both directions, and the worker's reader task, command loop   *)
(* and writer task.  Every send waits when its queue is full.  A command   *)
(* is its number among those the shell has for that worker; number 0 is    *)
(* the CreateNamespace it owes every new worker.                           *)
(***************************************************************************)
EXTENDS Integers, Sequences, FiniteSets, SequencesExt

CONSTANTS Workers,
          Chan,        \* the bound of each channel (256 and 64 in the code)
          Wire,        \* what the stream holds in one direction
          MaxClients,  \* bound: client requests
          MaxCommands  \* bound: commands for one worker

VARIABLES shell,  \* rx, the sends it still has to do, the handshake it is in
          link,   \* per worker: phase, slot and the queues
          issued, \* commands the shell has had for a worker
          got     \* commands the worker's loop has taken
kVars == <<shell, link, issued, got>>

Room(q) == Len(q) < Chan
Event(kind, w) == [kind |-> kind, worker |-> w]
Idle == shell.todo = <<>> /\ shell.handshake = {}

(* The worker opens the control stream and writes its hello;               *)
(* OrchestratorConnection::connect waits for those first bytes in a task   *)
(* of its own.                                                             *)
accept(w) ==
    /\ link[w].phase = "none"
    /\ link' = [link EXCEPT ![w].phase = "dialled"]
    /\ UNCHANGED <<shell, issued, got>>

(* worker_connection uses try_send, a full channel drops the connection.   *)
worker_connection(w) ==
    /\ link[w].phase = "dialled"
    /\ IF Room(shell.rx)
       THEN /\ shell' = [shell EXCEPT !.rx = Append(@, Event("connection", w))]
            /\ link' = [link EXCEPT ![w].phase = "hello"]
       ELSE /\ link' = [link EXCEPT ![w].phase = "down"]
            /\ UNCHANGED shell
    /\ UNCHANGED <<issued, got>>

(* A client's request waits for room in the same channel.                  *)
client_command ==
    /\ shell.clients < MaxClients /\ Room(shell.rx)
    /\ shell' = [shell EXCEPT !.clients = @ + 1,
                              !.rx = Append(@, [kind |-> "client", worker |-> {}])]
    /\ UNCHANGED <<link, issued, got>>

(* Shell::run takes the next event; commands are sent to n workers.        *)
Issue(ws) ==
    /\ \A w \in ws : issued[w] < MaxCommands
    /\ issued' = [w \in Workers |-> issued[w] + IF w \in ws THEN 1 ELSE 0]

Sends(ws) == SetToSeq({[worker |-> w, command |-> issued[w]] : w \in ws})

handle_event ==
    /\ Idle /\ shell.rx # <<>>
    /\ LET e == Head(shell.rx) IN
       IF e.kind = "connection"
       THEN \* recv_hello; a wrong secret ends the connection
            \/ /\ shell' = [shell EXCEPT !.rx = Tail(@), !.handshake = {e.worker}]
               /\ link' = [link EXCEPT ![e.worker].phase = IF @ = "hello" THEN "accepted" ELSE @]
               /\ UNCHANGED issued
            \/ /\ shell' = [shell EXCEPT !.rx = Tail(@)]
               /\ link' = [link EXCEPT ![e.worker].phase = "down"]
               /\ UNCHANGED issued
       ELSE \E ws \in SUBSET {w \in Workers : link[w].slot} :
               /\ Issue(ws)
               /\ shell' = [shell EXCEPT !.rx = Tail(@), !.todo = Sends(ws)]
               /\ link' = IF e.kind = "disconnected"
                          THEN [link EXCEPT ![e.worker].slot = FALSE] ELSE link
    /\ UNCHANGED got

(* Inside handle_worker_connection the shell waits for recv_ready, without *)
(* a time limit.  The slot is inserted before the output is routed.        *)
\* Slip: the output is routed before the slot is inserted.
connected_late(w) ==
    /\ shell.handshake = {w} /\ link[w].phase = "ready" /\ issued[w] = 0
    /\ issued' = [issued EXCEPT ![w] = 1]
    /\ link' = [link EXCEPT ![w].phase = "up", ![w].slot = TRUE]
    /\ shell' = [shell EXCEPT !.handshake = {}]
    /\ UNCHANGED got

connected(w) ==
    /\ shell.handshake = {w} /\ link[w].phase = "ready"
    /\ Issue({w})
    /\ link' = [link EXCEPT ![w].phase = "up", ![w].slot = TRUE]
    /\ shell' = [shell EXCEPT !.handshake = {}, !.todo = Sends({w})]
    /\ UNCHANGED got

handshake_error(w) ==
    /\ shell.handshake = {w} /\ link[w].phase = "down"
    /\ shell' = [shell EXCEPT !.handshake = {}]
    /\ UNCHANGED <<link, issued, got>>

(* slot.writer.send(..).await: an error when the writer task is gone.      *)
send ==
    /\ shell.todo # <<>>
    /\ LET c == Head(shell.todo) w == c.worker IN
       /\ \/ /\ ~link[w].slot \/ link[w].phase = "down"
             /\ UNCHANGED link
          \/ /\ link[w].slot /\ link[w].phase = "up" /\ Room(link[w].out)
             /\ link' = [link EXCEPT ![w].out = Append(@, c.command)]
       /\ shell' = [shell EXCEPT !.todo = Tail(@)]
    /\ UNCHANGED <<issued, got>>

-----------------------------------------------------------------------------
(* The tasks that only move a message: worker_writer::run, the worker's    *)
(* reader and writer tasks.                                                *)
Move(w, from, to, bound) ==
    /\ link[w].phase = "up"
    /\ link[w][from] # <<>> /\ Len(link[w][to]) < bound
    /\ link' = [link EXCEPT ![w][from] = Tail(@), ![w][to] = Append(@, Head(link[w][from]))]
    /\ UNCHANGED <<shell, issued, got>>

worker_writer(w) == Move(w, "out", "down", Wire)
reader_task(w) == Move(w, "down", "cmds", Chan)
writer_task(w) == Move(w, "evs", "up", Wire)

(* worker_reader::run: forwards events, then the disconnect.  An Ignored   *)
(* event goes no further.                                                  *)
worker_reader(w) ==
    /\ Room(shell.rx)
    /\ \/ /\ link[w].phase = "up" /\ link[w].up # <<>>
          /\ link' = [link EXCEPT ![w].up = Tail(@)]
          /\ shell' = [shell EXCEPT !.rx = Append(@, Event("event", w))]
       \/ /\ link[w].phase = "down" /\ link[w].slot /\ ~link[w].told
          /\ link' = [link EXCEPT ![w].told = TRUE]
          /\ shell' = [shell EXCEPT !.rx = Append(@, Event("disconnected", w))]
    /\ UNCHANGED <<issued, got>>

(* The worker's half of the handshake, after which it runs its loop.       *)
worker_run(w) ==
    /\ link[w].phase = "accepted"
    /\ link' = [link EXCEPT ![w].phase = "ready"]
    /\ UNCHANGED <<shell, issued, got>>

(* The worker's loop takes a command, or a background event, and forwards  *)
(* an event; it does nothing else until the event is in the channel.       *)
command_loop(w) ==
    /\ link[w].phase = "up"
    /\ \/ /\ ~link[w].busy /\ link[w].cmds # <<>>
          /\ \E b \in BOOLEAN : link' = [link EXCEPT ![w].cmds = Tail(@), ![w].busy = b]
          /\ got' = [got EXCEPT ![w] = Append(@, Head(link[w].cmds))]
       \/ /\ ~link[w].busy
          /\ link' = [link EXCEPT ![w].busy = TRUE]
          /\ UNCHANGED got
       \/ /\ link[w].busy /\ Room(link[w].evs)
          /\ link' = [link EXCEPT ![w].busy = FALSE, ![w].evs = Append(@, w)]
          /\ UNCHANGED got
    /\ UNCHANGED <<shell, issued>>

(* The transport fails or the worker dies: what is queued on it is lost.   *)
connection_lost(w) ==
    /\ link[w].phase \in {"dialled", "hello", "accepted", "ready", "up"}
    /\ link' = [link EXCEPT ![w] = [@ EXCEPT !.phase = "down", !.out = <<>>, !.down = <<>>,
                                             !.cmds = <<>>, !.evs = <<>>, !.up = <<>>]]
    /\ UNCHANGED <<shell, issued, got>>

KInit ==
    /\ shell = [rx |-> <<>>, todo |-> <<>>, handshake |-> {}, clients |-> 0]
    /\ link = [w \in Workers |-> [phase |-> "none", slot |-> FALSE, told |-> FALSE,
                                  busy |-> FALSE, out |-> <<>>, down |-> <<>>, cmds |-> <<>>,
                                  evs |-> <<>>, up |-> <<>>]]
    /\ issued = [w \in Workers |-> 0]
    /\ got = [w \in Workers |-> <<>>]

KNext ==
    \/ handle_event \/ send \/ client_command
    \/ \E w \in Workers :
          \/ accept(w) \/ worker_connection(w) \/ connected(w) \/ handshake_error(w)
          \/ worker_writer(w) \/ worker_reader(w) \/ worker_run(w)
          \/ reader_task(w) \/ command_loop(w) \/ writer_task(w) \/ connection_lost(w)

KSpec == KInit /\ [][KNext]_kVars

-----------------------------------------------------------------------------
(* A worker takes the commands the shell had for it in their order and     *)
(* without a gap, beginning with the CreateNamespace it was owed when it   *)
(* connected ("so that direct_worker_commands (e.g. CreateNamespace) can   *)
(* reach the new worker").                                                 *)
CommandsComeInOrder == \A w \in Workers : \A i \in DOMAIN got[w] : got[w][i] = i - 1

(* The shell and a worker never wait for each other with every queue       *)
(* between them full.                                                      *)
NobodyWaitsInACircle ==
    ~ \E w \in Workers :
        /\ link[w].phase = "up" /\ link[w].slot
        /\ shell.todo # <<>> /\ Head(shell.todo).worker = w
        /\ ~Room(link[w].out) /\ Len(link[w].down) = Wire /\ ~Room(link[w].cmds)
        /\ link[w].busy /\ ~Room(link[w].evs) /\ Len(link[w].up) = Wire
        /\ ~Room(shell.rx)
=============================================================================
