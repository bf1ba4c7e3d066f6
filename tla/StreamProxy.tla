---------------------------- MODULE StreamProxy ----------------------------
(***************************************************************************)
(* An L4 service: the StreamManager, which turns TCP connections into      *)
(* stream events and carries out stream actions, and the HTTP/2 activator  *)
(* that proxies every client connection to a backend connection of its own *)
(* and says whether the service needs a backend.                           *)
(*                                                                         *)
(* streams maps the StreamManager's stream ids to their direction and      *)
(* state; both directions draw their ids from nextStream.  act is the      *)
(* activator: conns (client stream -> connection), u2d (upstream stream -> *)
(* client stream), pending (clients waiting for a connect result), avail,  *)
(* total (H2 streams counted) and need (the last SetBackendNeed).  opens   *)
(* and closes are the stream actions the current call asks for.  A         *)
(* connection is its phase, its upstream state, its H2 streams with the    *)
(* end_stream flags of the client (c) and the backend (b), and whether     *)
(* frames are buffered.  Every event is one call of process_events; what   *)
(* the frames carry is left out.                                           *)
(***************************************************************************)
EXTENDS Naturals, Sequences, FiniteSets, SequencesExt, FiniteSetsExt

CONSTANTS MaxStreams,  \* stream ids allocated
          H2Ids        \* ids of the H2 streams of a connection
VARIABLES streams, nextStream, act

pVars == <<streams, nextStream, act>>

NewConn == [phase |-> "AwaitingPreface", up |-> "None", h2 |-> <<>>, buf |-> FALSE]

Init == /\ streams = <<>> /\ nextStream = 1
        /\ act = [conns |-> <<>>, u2d |-> <<>>, pending |-> <<>>, avail |-> FALSE,
                  total |-> 0, need |-> "None", opens |-> 0, closes |-> {}]

Put(f, k, v) == [x \in (DOMAIN f) \cup {k} |-> IF x = k THEN v ELSE f[x]]
Del(f, k) == [x \in (DOMAIN f) \ {k} |-> f[x]]

----------------------------------------------------------------------------
(* connection.rs: a step of a connection is the connection after it, the   *)
(* H2 streams it reports opened and closed, and whether it closes the      *)
(* client's stream.                                                        *)
Step(c, opened, closed, shut) == [c |-> c, opened |-> opened, closed |-> closed, shut |-> shut]

buffer_or_forward(c) == IF c.up = "Ready" THEN c ELSE [c EXCEPT !.buf = TRUE]

(* set_*_end_stream and check_stream_closed *)
Ended(c, id, side) ==
  LET h == [c.h2 EXCEPT ![id] = IF side = "c" THEN [@ EXCEPT !.c = TRUE] ELSE [@ EXCEPT !.b = TRUE]]
  IN IF id \notin DOMAIN c.h2 THEN Step(c, 0, 0, FALSE)
     ELSE IF h[id].c /\ h[id].b THEN Step([c EXCEPT !.h2 = Del(h, id)], 0, 1, FALSE)
     ELSE Step([c EXCEPT !.h2 = h], 0, 0, FALSE)

Reset(c, id) == IF id \in DOMAIN c.h2 THEN Step([c EXCEPT !.h2 = Del(@, id)], 0, 1, FALSE)
                ELSE Step(c, 0, 0, FALSE)

handle_client_frame(c, f) ==
  CASE f.type = "settings_ack" ->
         Step([c EXCEPT !.phase = IF @ = "Handshaking" THEN "Active" ELSE @], 0, 0, FALSE)
    [] f.type = "headers" ->
         LET new == f.id \notin DOMAIN c.h2
             o == IF new THEN [c EXCEPT !.h2 = Put(@, f.id, [c |-> FALSE, b |-> FALSE])] ELSE c
             e == IF f.end THEN Ended(o, f.id, "c") ELSE Step(o, 0, 0, FALSE)
         IN Step(buffer_or_forward(e.c), IF new THEN 1 ELSE 0, e.closed, FALSE)
    [] f.type = "data" ->
         LET e == IF f.end THEN Ended(c, f.id, "c") ELSE Step(c, 0, 0, FALSE)
         IN Step(buffer_or_forward(e.c), 0, e.closed, FALSE)
    [] f.type = "rst" -> LET e == Reset(c, f.id) IN Step(buffer_or_forward(e.c), 0, e.closed, FALSE)
    [] f.type = "goaway" -> Step(buffer_or_forward([c EXCEPT !.phase = "Closing"]), 0, 0, FALSE)

on_client_data(c, f) ==
  CASE c.phase = "AwaitingPreface" /\ f.type = "preface" ->
         Step([c EXCEPT !.phase = "Handshaking"], 0, 0, FALSE)
    [] c.phase = "AwaitingPreface" /\ f.type # "preface" ->
         Step([c EXCEPT !.phase = "Closing"], 0, 0, TRUE)
    [] c.phase = "Closing" \/ (c.phase # "AwaitingPreface" /\ f.type = "preface") ->
         Step(c, 0, 0, FALSE)
    [] OTHER -> handle_client_frame(c, f)

on_upstream_data(c, f) ==
  CASE f.type = "settings_ack" ->
         Step(IF c.up = "Handshaking" THEN [c EXCEPT !.up = "Ready", !.buf = FALSE] ELSE c,
              0, 0, FALSE)
    [] f.type \in {"headers", "data"} ->
         IF f.end THEN Ended(c, f.id, "b") ELSE Step(c, 0, 0, FALSE)
    [] f.type = "rst" -> Reset(c, f.id)
    [] f.type = "goaway" -> Step([c EXCEPT !.phase = "Closing"], 0, 0, FALSE)


on_upstream_closed(c) ==
  Step([c EXCEPT !.up = "Failed", !.phase = "Closing", !.h2 = <<>>],
       0, Cardinality(DOMAIN c.h2), c.phase # "Closing")

on_upstream_failed(c) ==
  Step([c EXCEPT !.up = "Failed", !.phase = "Closing", !.h2 = <<>>],
       0, Cardinality(DOMAIN c.h2), TRUE)

----------------------------------------------------------------------------
(* core.rs: the activator's state after each event.                        *)

(* process_conn_actions; the count saturates at zero. *)
process_conn_actions(a, h, s) ==
  [a EXCEPT !.conns = Put(@, h, s.c),
            !.total = IF @ + s.opened >= s.closed THEN @ + s.opened - s.closed ELSE 0,
            !.closes = IF s.shut THEN @ \cup {h} ELSE @]

check_backend_need_transition(old, a) ==
  [a EXCEPT !.need = IF old = 0 /\ a.total > 0 THEN "Active"
                     ELSE IF old > 0 /\ a.total = 0 THEN "None" ELSE @]

Connect(a, h) == [a EXCEPT !.conns[h].up = "Connecting", !.pending = Append(@, h),
                           !.opens = @ + 1]

handle_stream_data(a, h, f) ==
  LET b == process_conn_actions(a, h, on_client_data(a.conns[h], f))
      c == IF b.avail /\ b.conns[h].up = "None" /\ b.conns[h].buf THEN Connect(b, h) ELSE b
  IN IF h \in DOMAIN a.conns THEN check_backend_need_transition(a.total, c) ELSE a

Without(q, h) == SelectSeq(q, LAMBDA x : x # h)

\* Slip: a client that leaves keeps its place among the pending connects.
handle_stream_close_pending(a, h) ==
  LET mine == {u \in DOMAIN a.u2d : a.u2d[u] = h}
      left == Cardinality(DOMAIN a.conns[h].h2)
      b == [a EXCEPT !.conns = Del(@, h),
                     !.u2d = [u \in (DOMAIN @) \ mine |-> @[u]],
                     !.closes = @ \cup mine,
                     !.total = IF @ >= left THEN @ - left ELSE 0]
  IN IF h \in DOMAIN a.conns THEN check_backend_need_transition(a.total, b) ELSE a

handle_stream_close(a, h) ==
  LET mine == {u \in DOMAIN a.u2d : a.u2d[u] = h}
      left == Cardinality(DOMAIN a.conns[h].h2)
      b == [a EXCEPT !.conns = Del(@, h),
                     !.u2d = [u \in (DOMAIN @) \ mine |-> @[u]],
                     !.closes = @ \cup mine,
                     !.pending = Without(@, h),
                     !.total = IF @ >= left THEN @ - left ELSE 0]
  IN IF h \in DOMAIN a.conns THEN check_backend_need_transition(a.total, b) ELSE a

(* Connections are visited in the map's order; pending connects are those  *)
(* of interchangeable upstreams, so one order stands for all.              *)
handle_backend_available(a, available) ==
  LET order == SetToSeq(DOMAIN a.conns)
      waiting == SelectSeq(order, LAMBDA h : a.conns[h].up = "None" /\ a.conns[h].buf)
      lost == FoldLeft(LAMBDA b, h : process_conn_actions(b, h, on_upstream_closed(b.conns[h])),
                       a, order)
  IN IF available THEN [FoldLeft(Connect, a, waiting) EXCEPT !.avail = TRUE]
     ELSE check_backend_need_transition(a.total,
            [lost EXCEPT !.avail = FALSE, !.closes = @ \cup DOMAIN a.u2d, !.u2d = <<>>])

(* The results are matched with the pending connects first come, first     *)
(* served.                                                                 *)
handle_upstream_connect_result(a, u, ok) ==
  LET h == Head(a.pending)
      b == [a EXCEPT !.pending = Tail(@)]
      known == h \in DOMAIN a.conns
  IN CASE a.pending = <<>> -> [a EXCEPT !.closes = @ \cup {u}]
       [] a.pending # <<>> /\ ok ->
            LET m == [b EXCEPT !.u2d = Put(@, u, h)]
            IN IF known THEN [m EXCEPT !.conns[h].up = "Handshaking"] ELSE m
       [] OTHER -> IF known
                   THEN check_backend_need_transition(a.total,
                          process_conn_actions(b, h, on_upstream_failed(b.conns[h])))
                   ELSE b

handle_upstream_data(a, u, f) ==
  LET h == a.u2d[u]
  IN IF u \in DOMAIN a.u2d /\ h \in DOMAIN a.conns
     THEN check_backend_need_transition(a.total,
            process_conn_actions(a, h, on_upstream_data(a.conns[h], f)))
     ELSE a

handle_upstream_close(a, u) ==
  LET h == a.u2d[u]
      b == [a EXCEPT !.u2d = Del(@, u)]
  IN IF u \notin DOMAIN a.u2d THEN a
     ELSE IF h \in DOMAIN a.conns
     THEN check_backend_need_transition(a.total,
            process_conn_actions(b, h, on_upstream_closed(b.conns[h])))
     ELSE b

----------------------------------------------------------------------------
(* The StreamManager.  execute_action: an upstream connect gets the next   *)
(* id, a closed stream lingers until TCP is done with it.                  *)
execute_action(a, s, next) ==
  LET ids == next .. (next + a.opens - 1)
  IN [i \in (DOMAIN s) \cup ids |->
        IF i \in ids THEN [dir |-> "up", st |-> "connecting"]
        ELSE IF i \in a.closes THEN [s[i] EXCEPT !.st = "closing"] ELSE s[i]]

(* What the activator asks for is done at once; s are the streams that the *)
(* scan left, a the activator after the event.                             *)
process_l4_output(a, s, next) == /\ next + a.opens <= MaxStreams + 1
                                 /\ streams' = execute_action(a, s, next)
                                 /\ nextStream' = next + a.opens
                                 /\ act' = [a EXCEPT !.opens = 0, !.closes = {}]

(* scan_sockets: a listening socket is established. *)
StreamOpen ==
  /\ nextStream <= MaxStreams
  /\ process_l4_output([act EXCEPT !.conns = Put(@, nextStream, NewConn)],
                       Put(streams, nextStream, [dir |-> "down", st |-> "open"]), nextStream + 1)

Frames == [type : {"settings_ack", "goaway"}, id : {0}, end : {FALSE}]
          \cup [type : {"headers", "data"}, id : H2Ids, end : BOOLEAN]
          \cup [type : {"rst"}, id : H2Ids, end : {FALSE}]

Of(dir, states) == {i \in DOMAIN streams : streams[i].dir = dir /\ streams[i].st \in states}

StreamData == \E h \in Of("down", {"open", "closing"}),
                 f \in Frames \cup {[type |-> "preface", id |-> 0, end |-> FALSE]} :
                process_l4_output(handle_stream_data(act, h, f), streams, nextStream)

StreamClose == \E h \in Of("down", {"open", "closing"}) :
                 process_l4_output(handle_stream_close(act, h), Del(streams, h), nextStream)

UpstreamConnectResult ==
  \E u \in Of("up", {"connecting"}), ok \in BOOLEAN :
    process_l4_output(handle_upstream_connect_result(act, u, ok),
                      IF ok THEN [streams EXCEPT ![u].st = "open"] ELSE Del(streams, u),
                      nextStream)

UpstreamData == \E u \in Of("up", {"open", "closing"}), f \in Frames :
                  process_l4_output(handle_upstream_data(act, u, f), streams, nextStream)

UpstreamClose == \E u \in Of("up", {"open", "closing"}) :
                   process_l4_output(handle_upstream_close(act, u), Del(streams, u), nextStream)

BackendAvailable == \E available \in BOOLEAN :
                      process_l4_output(handle_backend_available(act, available), streams, nextStream)

Next == \/ StreamOpen \/ StreamData \/ StreamClose
        \/ UpstreamConnectResult \/ UpstreamData \/ UpstreamClose
        \/ BackendAvailable

Spec == Init /\ [][Next]_pVars

----------------------------------------------------------------------------

(* No backend connection is left behind: every open upstream stream        *)
(* belongs to one client that is still there, and no two to the same, in   *)
(* whatever order connect results, departures and backend losses come      *)
(* (pending_connects, upstream_to_downstream).                             *)
UpstreamsAreOwned ==
  /\ Of("up", {"open"}) = DOMAIN act.u2d \cap Of("up", {"open", "closing"})
  /\ \A u, v \in DOMAIN act.u2d : /\ act.u2d[u] \in DOMAIN act.conns
                                  /\ act.u2d[u] = act.u2d[v] => u = v
=============================================================================
