-------------------------- MODULE UserspaceNetwork --------------------------
(***************************************************************************)
(* The client's userspace network (client/src/connect/userspace.rs): the   *)
(* callers' connect_tcp, bind_udp, resolve, send_to and recv_from, the one *)
(* poll loop that owns the smoltcp sockets, and its end by shutdown, abort *)
(* or a failing UDP send.  What a TCP stream does with its bytes is        *)
(* UserspaceStream's.                                                      *)
(*                                                                         *)
(* A caller is a task: "idle", "asked" (awaits the reply of a command),    *)
(* "reading" (parked in a read of its socket), "sending" (parked in        *)
(* send_to).  cmds is the command channel, dns the callers in dns_pending, *)
(* sockets the table of the loop: kind, local port, state, the caller that *)
(* holds the handle ({} once dropped), for UDP the two queues.             *)
(***************************************************************************)
EXTENDS Integers, FiniteSets, Sequences

CONSTANTS Callers,
          Ports,       \* the ephemeral port range
          QueueLimit,  \* UDP_SEND_QUEUE_LIMIT and UDP_RECV_QUEUE_LIMIT
          MaxSockets   \* sockets made in a run

VARIABLES task, network, caller, cmds, dns, sockets, made
eVars == <<task, network, caller, cmds, dns, sockets, made>>

EInit == /\ task = "select" /\ network = "open"
         /\ caller = [c \in Callers |-> "idle"]
         /\ cmds = <<>> /\ dns = {} /\ made = 0
         /\ sockets = << >>

Over == task = "over"
Held(c) == {h \in DOMAIN sockets : c \in sockets[h].by}
Socket(kind, port, c) ==
    [kind |-> kind, port |-> port, state |-> "open", by |-> {c}, send |-> 0, recv |-> 0]
Set(c, st) == caller' = [caller EXCEPT ![c] = st]

---------------------------------------------------------------------------
(* The callers.  A command is refused once the channel is closed.          *)

ask(c, cmd) ==
    /\ network = "open" /\ caller[c] = "idle" /\ Held(c) = {}
    /\ IF Over \/ task = "closing" THEN UNCHANGED <<caller, cmds>>
       ELSE cmds' = Append(cmds, [op |-> cmd, by |-> c]) /\ Set(c, "asked")
    /\ UNCHANGED <<task, network, dns, sockets, made>>

connect_tcp(c) == made < MaxSockets /\ ask(c, "ConnectTcp")
bind_udp(c) == made < MaxSockets /\ ask(c, "BindUdp")
resolve(c) == ask(c, "Resolve")

\* recv_from, and poll_read of a TCP stream, parks while nothing is there.
recv_from(c) ==
    /\ caller[c] = "idle"
    /\ \E h \in Held(c) :
          \/ sockets[h].recv > 0 /\ sockets' = [sockets EXCEPT ![h].recv = @ - 1] /\ UNCHANGED caller
          \/ sockets[h].recv = 0 /\ sockets[h].state = "open" /\ Set(c, "reading") /\ UNCHANGED sockets
    /\ UNCHANGED <<task, network, cmds, dns, made>>

send_to(c) ==
    /\ caller[c] = "idle"
    /\ \E h \in Held(c) :
          /\ sockets[h].kind = "udp"
          /\ IF sockets[h].send >= QueueLimit THEN Set(c, "sending") /\ UNCHANGED sockets
             ELSE sockets' = [sockets EXCEPT ![h].send = @ + 1] /\ UNCHANGED caller
    /\ UNCHANGED <<task, network, cmds, dns, made>>

drop_socket(c) ==
    /\ caller[c] # "asked"
    /\ \E h \in Held(c) : sockets' = [sockets EXCEPT ![h].by = {}]
    /\ Set(c, "idle")
    /\ UNCHANGED <<task, network, cmds, dns, made>>

\* shutdown consumes the network, sends Shutdown and waits for the loop; no
\* call that borrows the network can be under way then.
Waiting == {c \in Callers : caller[c] = "asked"}
shutdown ==
    /\ network = "open" /\ Waiting = {} /\ network' = "shutdown"
    /\ cmds' = IF Over THEN cmds ELSE Append(cmds, [op |-> "Shutdown"])
    /\ UNCHANGED <<task, caller, dns, sockets, made>>

---------------------------------------------------------------------------
(* The end of the loop's task drops the receiver, the commands in it and   *)
(* the pending queries: whoever awaits a reply gets "tunnel shut down".    *)

Answered(cs) == [c \in Callers |-> IF c \in cs THEN "idle" ELSE caller[c]]

\* Slip: the queries keep their reply channels when the loop is left.
loop_ends_holding == /\ task' = "over" /\ cmds' = <<>> /\ UNCHANGED <<dns, sockets>>
                     /\ caller' = Answered({cmds[i].by : i \in {j \in DOMAIN cmds : cmds[j].op # "Shutdown"}})

loop_ends == /\ task' = "over" /\ cmds' = <<>> /\ dns' = {} /\ UNCHANGED sockets
             /\ caller' = Answered(Waiting)

drop_network ==
    /\ network = "open" /\ Waiting = {} /\ network' = "dropped"
    /\ IF Over THEN UNCHANGED <<task, caller, cmds, dns, sockets>> ELSE loop_ends
    /\ UNCHANGED made

(* Any port of the range no live TCP socket has; a closed one has none.    *)
Free == Ports \ {sockets[h].port : h \in {g \in DOMAIN sockets :
                                            sockets[g].kind = "tcp" /\ sockets[g].state = "open"}}

Handle == CHOOSE h \in 1..(MaxSockets + 1) : h \notin DOMAIN sockets
Add(socket) == /\ sockets' = [h \in DOMAIN sockets \cup {Handle} |->
                                 IF h = Handle THEN socket ELSE sockets[h]]
               /\ made' = made + 1

\* The first branch of the select: one command.
handle_command ==
    /\ task = "select" /\ cmds # <<>> /\ cmds' = Tail(cmds)
    /\ LET cmd == Head(cmds)
           Reply == Set(cmd.by, "idle")
       IN \/ /\ cmd.op = "ConnectTcp" /\ task' = "poll" /\ UNCHANGED dns /\ Reply
             /\ \/ \E port \in Free : Add(Socket("tcp", port, cmd.by))
                \/ UNCHANGED <<sockets, made>>
          \/ /\ cmd.op = "BindUdp" /\ task' = "poll" /\ UNCHANGED dns /\ Reply
             /\ Add(Socket("udp", 0, cmd.by)) \/ UNCHANGED <<sockets, made>>
          \/ /\ cmd.op = "Resolve" /\ task' = "poll" /\ UNCHANGED <<sockets, made>>
             /\ \/ dns' = dns \cup {cmd.by} /\ UNCHANGED caller
                \/ Reply /\ UNCHANGED dns
          \/ /\ cmd.op = "Shutdown" /\ task' = "closing"
             /\ UNCHANGED <<caller, dns, sockets, made>>
    /\ UNCHANGED network

\* A datagram, the 250 ms timer or a notify wakes the loop as well; the first
\* two may have something to send, and a send that fails ends the loop.
wakes ==
    /\ task = "select"
    /\ \/ task' = "poll" /\ UNCHANGED <<caller, cmds, dns, sockets>>
       \/ loop_ends
    /\ UNCHANGED <<network, made>>

\* Queued datagrams go out before the poll; those that came in, and what
\* became of the TCP connections, are seen after it.
sync_udp(s, arrived) ==
    [s EXCEPT !.send = 0, !.recv = IF arrived /\ @ < QueueLimit THEN @ + 1 ELSE @]

iface_poll(s) ==
    IF s.kind = "udp" THEN {sync_udp(s, FALSE), sync_udp(s, TRUE)}
    ELSE {s, [s EXCEPT !.state = "closed"]}

\* The callers a socket has something for.
Woken(table) ==
    {c \in Callers : \E h \in DOMAIN table : c \in table[h].by
                       /\ \/ caller[c] = "reading" /\ (table[h].recv > 0 \/ table[h].state = "closed")
                          \/ caller[c] = "sending" /\ table[h].send < QueueLimit}

\* Nobody holds the handle; a TCP socket must have closed as well.
Reaped(s) == s.by = {} /\ (s.kind = "udp" \/ s.state = "closed")

\* The rest of an iteration: poll smoltcp, hand out DNS results, wake, reap,
\* and send what is in tx_queue; then out if shutting down.
poll_loop ==
    /\ task \in {"poll", "closing"}
    /\ \E done \in SUBSET dns, moved \in {h \in DOMAIN sockets : TRUE} \cup {0} :
         \E s \in IF moved = 0 THEN {[kind |-> "none"]} ELSE iface_poll(sockets[moved]) :
           LET table == [h \in DOMAIN sockets |->
                           IF h = moved THEN s
                           ELSE IF sockets[h].kind = "udp" THEN sync_udp(sockets[h], FALSE)
                           ELSE sockets[h]]
               kept == {h \in DOMAIN table : ~Reaped(table[h])}
           IN \/ /\ task = "poll" /\ task' = "select" /\ dns' = dns \ done /\ UNCHANGED cmds
                 /\ sockets' = [h \in kept |-> table[h]]
                 /\ caller' = Answered(done \cup Woken(table))
              \/ done = {} /\ moved = 0 /\ loop_ends
    /\ UNCHANGED <<network, made>>

ENext == \/ \E c \in Callers : connect_tcp(c) \/ bind_udp(c) \/ resolve(c) \/ recv_from(c)
                               \/ send_to(c) \/ drop_socket(c)
         \/ shutdown \/ drop_network
         \/ handle_command \/ wakes \/ poll_loop

ESpec == EInit /\ [][ENext]_eVars

---------------------------------------------------------------------------
(* Whoever awaits the reply of a command has it coming: the command is in  *)
(* the channel or its DNS query is pending, however the loop may end       *)
(* meanwhile; and no two open connections share a local port.              *)
CallersAreAnswered ==
    /\ Waiting = IF Over THEN {}
                 ELSE {cmds[i].by : i \in {j \in DOMAIN cmds : cmds[j].op # "Shutdown"}} \cup dns
    /\ \A g, h \in {k \in DOMAIN sockets : sockets[k].kind = "tcp" /\ sockets[k].state = "open"} :
          sockets[g].port = sockets[h].port => g = h

(* A task parked in a read or a send is told of the end of the network:    *)
(* read_waker is "Waker to notify when read data is available or the       *)
(* socket closes" (userspace.rs).                                          *)
ParkedCallersHearTheEnd == Over => \A c \in Callers : caller[c] \notin {"reading", "sending"}
=============================================================================
