-------------------------- MODULE UserspaceStream --------------------------
(***************************************************************************)
(* A TCP stream of the client's userspace network (connect/userspace.rs):  *)
(* the caller's poll_read, poll_write, poll_flush and poll_shutdown on one *)
(* side, the poll loop that moves bytes between the shared buffers and the *)
(* smoltcp socket on the other.  The loop takes the stream's lock once for *)
(* the bytes going out and once for those coming in, and the caller runs   *)
(* in between.  Bytes are counted.  smoltcp is external: Segment gives the *)
(* changes one iface.poll may make to the socket.                          *)
(***************************************************************************)
EXTENDS Integers, FiniteSets

CONSTANTS BufLimit,  \* TCP_READ_BUF_LIMIT and TCP_WRITE_BUF_LIMIT
          SockLimit, \* size of smoltcp's own buffers
          MaxIn, MaxOut

VARIABLES s,      \* TcpSocketState; the wakers are the callers parked
          sock,   \* smoltcp's socket
          loop,   \* where the poll loop stands
          got,    \* bytes the network has delivered into the socket
          put,    \* bytes the caller has written
          app     \* the caller: bytes read, whether it has seen the end
uVars == <<s, sock, loop, got, put, app>>

Lesser(a, b) == IF a < b THEN a ELSE b
may_send == sock.state \in {"Established", "CloseWait"}

-----------------------------------------------------------------------------
(* The caller.  A poll that cannot complete parks its waker.               *)
Running == app.held

poll_read(n) ==
    /\ Running /\ ~app.eof /\ "read" \notin s.parked
    /\ IF s.read_buf > 0
       THEN LET k == Lesser(n, s.read_buf)
            IN s' = [s EXCEPT !.read_buf = @ - k] /\ app' = [app EXCEPT !.read = @ + k]
       ELSE IF s.read_closed
       THEN app' = [app EXCEPT !.eof = TRUE] /\ UNCHANGED s
       ELSE s' = [s EXCEPT !.parked = @ \cup {"read"}] /\ UNCHANGED app
    /\ UNCHANGED <<sock, loop, got, put>>

poll_write(n) ==
    /\ Running /\ ~s.write_closed /\ s.parked \cap {"write", "flush"} = {}
    /\ put + n <= MaxOut
    /\ IF s.write_buf >= BufLimit
       THEN s' = [s EXCEPT !.parked = @ \cup {"write"}] /\ UNCHANGED put
       ELSE LET k == Lesser(n, BufLimit - s.write_buf)
            IN s' = [s EXCEPT !.write_buf = @ + k] /\ put' = put + k
    /\ UNCHANGED <<sock, loop, got, app>>

poll_flush ==
    /\ Running /\ s.parked \cap {"write", "flush"} = {} /\ s.write_buf > 0
    /\ s' = [s EXCEPT !.parked = @ \cup {"flush"}]
    /\ UNCHANGED <<sock, loop, got, put, app>>

poll_shutdown ==
    /\ Running /\ s.parked \cap {"write", "flush", "shutdown"} = {} /\ ~app.shut
    /\ s' = [s EXCEPT !.write_closed = TRUE,
                      !.parked = IF s.close_complete THEN @ ELSE @ \cup {"shutdown"}]
    /\ app' = [app EXCEPT !.shut = s.close_complete]
    /\ UNCHANGED <<sock, loop, got, put>>

(* The caller drops the stream, closed or not, and its parked polls too.   *)
drop_stream ==
    /\ Running
    /\ app' = [app EXCEPT !.held = FALSE]
    /\ s' = [s EXCEPT !.parked = {}]
    /\ UNCHANGED <<sock, loop, got, put>>

-----------------------------------------------------------------------------
(* The poll loop.  The 250 ms WireGuard timer wakes it when nothing else   *)
(* does.                                                                   *)
push_writes ==
    LET n == IF may_send THEN Lesser(s.write_buf, SockLimit - sock.tx) ELSE 0
        left == s.write_buf - n
        closing == s.write_closed /\ ~s.close_initiated /\ left = 0 /\ may_send
    IN /\ loop = "select"
       /\ loop' = "poll"
       /\ s' = [s EXCEPT !.write_buf = left,
                         !.close_initiated = @ \/ closing,
                         !.parked = IF n > 0 /\ left < BufLimit THEN @ \ {"write", "flush"} ELSE @]
       /\ sock' = [sock EXCEPT !.tx = @ + n,
                               !.state = CASE ~closing -> @
                                           [] @ = "Established" -> "FinWait"
                                           [] OTHER -> "LastAck"]
       /\ UNCHANGED <<got, put, app>>

(* What one iface.poll may do to the socket.                               *)
When(possible, change) == IF possible THEN {change} ELSE {}
Segment ==
    LET talking == sock.state \in {"Established", "FinWait"}
    IN {sock, [sock EXCEPT !.state = "Closed"]}
       \cup When(sock.state = "SynSent", [sock EXCEPT !.state = "Established"])
       \cup When(sock.tx > 0 /\ sock.state \notin {"SynSent", "Closed"}, [sock EXCEPT !.tx = @ - 1])
       \cup When(talking /\ sock.rx < SockLimit /\ got < MaxIn, [sock EXCEPT !.rx = @ + 1])
       \cup When(talking, [sock EXCEPT !.state = IF @ = "Established" THEN "CloseWait" ELSE "TimeWait"])

iface_poll ==
    /\ loop = "poll"
    /\ loop' = "pull"
    /\ sock' \in Segment
    /\ got' = got + (IF sock'.rx > sock.rx THEN 1 ELSE 0)
    /\ UNCHANGED <<s, put, app>>


(* socket.recv hands over one contiguous slice of the receive ring, so any *)
(* n up to what is there; the end is noted from the socket's state alone.  *)
pull_reads(n) ==
    LET closed == sock.state \in {"CloseWait", "LastAck", "Closed", "TimeWait"}
        done == s.write_closed /\ sock.state \in {"Closed", "TimeWait"}
    IN /\ loop = "pull"
       /\ n <= Lesser(sock.rx, BufLimit - s.read_buf)
       /\ n = 0 => sock.rx = 0 \/ s.read_buf >= BufLimit
       /\ loop' = "reap"
       /\ sock' = [sock EXCEPT !.rx = @ - n]
       /\ s' = [s EXCEPT !.read_buf = @ + n,
                         !.read_closed = @ \/ closed,
                         !.close_complete = @ \/ done,
                         !.parked = @ \ ((IF n > 0 \/ (closed /\ ~s.read_closed) THEN {"read"} ELSE {})
                                         \cup (IF done /\ ~s.close_complete THEN {"shutdown"} ELSE {}))]
       /\ UNCHANGED <<got, put, app>>

(* A closed socket nobody holds is removed; any other goes round again.    *)
reap ==
    /\ loop = "reap"
    /\ loop' = IF sock.state = "Closed" /\ ~app.held THEN "reaped" ELSE "select"
    /\ UNCHANGED <<s, sock, got, put, app>>

UInit ==
    /\ s = [read_buf |-> 0, write_buf |-> 0, read_closed |-> FALSE, write_closed |-> FALSE,
            close_initiated |-> FALSE, close_complete |-> FALSE, parked |-> {}]
    /\ sock = [state |-> "SynSent", rx |-> 0, tx |-> 0]
    /\ loop = "select" /\ got = 0 /\ put = 0
    /\ app = [read |-> 0, eof |-> FALSE, shut |-> FALSE, held |-> TRUE]

UNext ==
    \/ \E n \in 1 .. 2 : poll_read(n) \/ poll_write(n)
    \/ poll_flush \/ poll_shutdown \/ drop_stream
    \/ push_writes \/ iface_poll \/ reap
    \/ \E n \in 0 .. SockLimit : pull_reads(n)

USpec == UInit /\ [][UNext]_uVars

-----------------------------------------------------------------------------

(* The caller reads exactly the bytes that arrived: what was read, what is *)
(* in read_buf and what smoltcp holds add up to what the network brought.  *)
BytesAreConserved == app.read + s.read_buf + sock.rx = got

(* The end of the stream comes after its last byte ("Remote end closed or  *)
(* error occurred - no more reads", read_closed).                          *)
EndComesLast == app.eof => app.read = got
=============================================================================
