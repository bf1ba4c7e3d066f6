------------------------- MODULE PostgresActivator -------------------------
(***************************************************************************)
(* The PostgreSQL activator: every client connection is proxied to a       *)
(* backend connection; between queries, when the server said it is idle,   *)
(* no backend is needed.                                                   *)
(*                                                                         *)
(* conns maps a client's stream to its connection: its phase, whether      *)
(* authentication is complete, the transaction status of the last          *)
(* ReadyForQuery ("none" before it) and, as a history variable, whether a  *)
(* query has been forwarded that the backend has not answered.  u2d,       *)
(* pending and avail are the activator's; need is the last SetBackendNeed, *)
(* ups the upstream streams with their state.  Messages arrive whole.      *)
(***************************************************************************)
EXTENDS Naturals, Sequences, SequencesExt

CONSTANTS Clients,  \* handles of client streams
          MaxUps    \* upstream connects
VARIABLES conns, u2d, pending, avail, need, ups

gVars == <<conns, u2d, pending, avail, need, ups>>

NewConnection == [phase |-> "AwaitingStartup", auth |-> FALSE, txn |-> "none", asked |-> FALSE]

Init == /\ conns = <<>> /\ u2d = <<>> /\ pending = <<>>
        /\ avail = FALSE /\ need = "None" /\ ups = <<>>

Set(f, k, v) == [x \in (DOMAIN f) \cup {k} |-> IF x = k THEN v ELSE f[x]]
Drop(f, k) == [x \in (DOMAIN f) \ {k} |-> f[x]]

is_idle(c) == c.auth /\ c.txn = "Idle"

compute_backend_need(cs) ==
  LET meaningful == {h \in DOMAIN cs : cs[h].phase \notin {"AwaitingStartup", "SslNegotiation"}}
  IN IF \A h \in meaningful : is_idle(cs[h]) THEN "None" ELSE "Active"

update_backend_need(cs) == IF compute_backend_need(cs) # compute_backend_need(conns)
                           THEN need' = compute_backend_need(cs) ELSE UNCHANGED need

(* Every connect asked for becomes an upstream stream that is connecting.  *)
UpstreamConnect(handles) == /\ Len(ups) + Len(handles) <= MaxUps
                            /\ pending' = pending \o handles
                            /\ ups' = ups \o [i \in 1 .. Len(handles) |-> "connecting"]

(* A health check on an idle connection is answered here, everything else  *)
(* goes to the backend.                                                    *)
drain_client_proxying(c, msg) ==
  IF is_idle(c) /\ msg = "health" THEN c ELSE [c EXCEPT !.asked = TRUE]

on_client_data(c, msg) ==
  CASE c.phase \in {"AwaitingStartup", "SslNegotiation"} /\ msg = "ssl" ->
         [c EXCEPT !.phase = "SslNegotiation"]
    [] c.phase \in {"AwaitingStartup", "SslNegotiation"} /\ msg = "startup" ->
         [c EXCEPT !.phase = "Startup"]
    [] c.phase = "Proxying" -> drain_client_proxying(c, msg)
    [] OTHER -> c

handle_stream_open(h) == /\ h \notin DOMAIN conns
                         /\ conns' = Set(conns, h, NewConnection)
                         /\ UNCHANGED <<u2d, pending, avail, need, ups>>

(* A connection that still holds its startup message asks for an upstream  *)
(* with every message of the client.                                       *)
handle_stream_data(h, msg) ==
  LET cs == [conns EXCEPT ![h] = on_client_data(@, msg)]
  IN /\ h \in DOMAIN conns
     /\ conns[h].phase \in {"AwaitingStartup", "SslNegotiation"} => msg \in {"ssl", "startup"}
     /\ conns[h].phase \notin {"AwaitingStartup", "SslNegotiation"} => msg \in {"query", "health"}
     /\ conns' = cs
     /\ UpstreamConnect(IF avail /\ cs[h].phase = "Startup" THEN <<h>> ELSE <<>>)
     /\ update_backend_need(cs)
     /\ UNCHANGED <<u2d, avail>>

handle_stream_close(h) ==
  /\ h \in DOMAIN conns
  /\ conns' = Drop(conns, h)
  /\ u2d' = [u \in {v \in DOMAIN u2d : u2d[v] # h} |-> u2d[u]]
  /\ pending' = SelectSeq(pending, LAMBDA x : x # h)
  /\ update_backend_need(conns')
  /\ UNCHANGED <<avail, ups>>

on_upstream_connected(c) == [c EXCEPT !.phase = IF @ = "Startup" THEN "Proxying" ELSE @]

(* The backend's data end in a ReadyForQuery with this status. *)
scan_upstream_for_ready(c, status) ==
  IF c.phase = "Closing" THEN c
  ELSE [c EXCEPT !.auth = TRUE, !.txn = status, !.asked = FALSE]

on_upstream_closed(c) == [c EXCEPT !.phase = "Closing"]

handle_backend_available(available) ==
  /\ avail' = available
  /\ IF available
     THEN /\ UpstreamConnect(SetToSeq({h \in DOMAIN conns : conns[h].phase = "Startup"}))
          /\ UNCHANGED <<conns, u2d, need>>
     ELSE /\ conns' = [h \in DOMAIN conns |-> on_upstream_closed(conns[h])]
          /\ u2d' = <<>>
          /\ update_backend_need(conns')
          /\ UNCHANGED <<pending, ups>>

handle_upstream_connect_result(u, ok) ==
  LET h == Head(pending)
      cs == IF h \notin DOMAIN conns THEN conns
            ELSE IF ~ok THEN [conns EXCEPT ![h] = on_upstream_closed(@)]
            ELSE [conns EXCEPT ![h] = on_upstream_connected(@)]
  IN /\ ups[u] = "connecting"
     /\ ups' = [ups EXCEPT ![u] = IF ok THEN "open" ELSE "gone"]
     /\ IF pending = <<>> THEN UNCHANGED <<conns, u2d, pending, need>>
        ELSE /\ pending' = Tail(pending)
             /\ u2d' = IF ok THEN Set(u2d, u, h) ELSE u2d
             /\ conns' = cs
             /\ update_backend_need(cs)
     /\ UNCHANGED avail

handle_upstream_data(u, status) ==
  LET h == u2d[u]
      cs == [conns EXCEPT ![h] = scan_upstream_for_ready(@, status)]
  IN /\ u \in DOMAIN u2d /\ h \in DOMAIN conns /\ ups[u] = "open"
     /\ conns' = cs
     /\ update_backend_need(cs)
     /\ UNCHANGED <<u2d, pending, avail, ups>>

handle_upstream_close(u) ==
  LET h == u2d[u]
      cs == IF h \in DOMAIN conns THEN [conns EXCEPT ![h] = on_upstream_closed(@)] ELSE conns
  IN /\ ups[u] = "open"
     /\ ups' = [ups EXCEPT ![u] = "gone"]
     /\ IF u \in DOMAIN u2d
        THEN u2d' = Drop(u2d, u) /\ conns' = cs /\ update_backend_need(cs)
        ELSE UNCHANGED <<u2d, conns, need>>
     /\ UNCHANGED <<pending, avail>>

Next == \/ \E h \in Clients : \/ handle_stream_open(h)
                              \/ handle_stream_close(h)
                              \/ \E msg \in {"ssl", "startup", "query", "health"} :
                                   handle_stream_data(h, msg)
        \/ \E available \in BOOLEAN : handle_backend_available(available)
        \/ \E u \in DOMAIN ups : \/ \E ok \in BOOLEAN : handle_upstream_connect_result(u, ok)
                                 \/ \E status \in {"Idle", "InTransaction"} :
                                      handle_upstream_data(u, status)
                                 \/ handle_upstream_close(u)

Spec == Init /\ [][Next]_gVars

----------------------------------------------------------------------------
(* docs/networking/protocol-activators.md:254: the need "re-enters active  *)
(* on queries, returns to none on ReadyForQuery(Idle)".  While a query has *)
(* been forwarded to the backend and not been answered, the backend is     *)
(* needed: otherwise it may be suspended under the query.                  *)
QueriesHoldTheBackend ==
  \A h \in DOMAIN conns : conns[h].phase = "Proxying" /\ conns[h].asked => need = "Active"
=============================================================================
