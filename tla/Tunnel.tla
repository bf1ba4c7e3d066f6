------------------------------- MODULE Tunnel -------------------------------
(***************************************************************************)
(* The tunnels between workers: TunnelManager, which follows the registry  *)
(* the orchestrator broadcasts and the namespaces of its worker, and       *)
(* TunnelTransport, one UDP socket with a Noise session for every peer and *)
(* one ingress channel for every segment.                                  *)
(*                                                                         *)
(* registry is the orchestrator's list: worker |-> the segments it hosts;  *)
(* the workers in it all receive it, themselves included.  For worker w    *)
(*   inbox[w]  registries on their way to it                               *)
(*   hosts[w]  the segments of its namespaces (TunnelManager::namespaces)  *)
(*   peers[w]  peer |-> the segments it was last said to host              *)
(*   ports[w]  the namespace_ports, pairs <<peer, segment>>                *)
(*   channels[w]  segment_channels: segment |-> the peer whose port it     *)
(*             feeds                                                       *)
(*   noise[w]  peer |-> the session: "initiator" or "responder" while      *)
(*             Handshaking, "transport"; id tells handshakes apart         *)
(* net are the datagrams in flight (one frame at a time), lost whether a   *)
(* decrypted frame found no channel although the sender has a port here    *)
(* for its segment.  Workers are numbered by their static public key,      *)
(* which decides who initiates.  MaxChanges bounds the changes of the      *)
(* registry and, with them, the handshakes.                                *)
(***************************************************************************)
EXTENDS Naturals, Sequences, SequencesExt

CONSTANTS Workers, Segments, MaxChanges
VARIABLES registry, inbox, hosts, peers, ports, channels, noise, net, changes, lost

tVars == <<registry, inbox, hosts, peers, ports, channels, noise, net, changes, lost>>

Nobody == [q \in {} |-> {}]

Init == /\ registry = [w \in Workers |-> {}]
        /\ inbox = [w \in Workers |-> <<registry>>]
        /\ hosts = [w \in Workers |-> {}]
        /\ peers = [w \in Workers |-> Nobody]
        /\ ports = [w \in Workers |-> {}]
        /\ channels = [w \in Workers |-> Nobody]
        /\ noise = [w \in Workers |-> Nobody]
        /\ net = {}
        /\ changes = 0
        /\ lost = FALSE

Up(w) == w \in DOMAIN registry

(* The orchestrator's registry changes and is broadcast. *)
Broadcast(r) == /\ changes < MaxChanges
                /\ changes' = changes + 1
                /\ registry' = r
                /\ inbox' = [w \in Workers |-> IF w \in DOMAIN r THEN Append(inbox[w], r)
                                               ELSE <<>>]

----------------------------------------------------------------------------
(* TunnelTransport: the ports, with the handle's Drop.                     *)

(* Dropping a TunnelPortHandle removes its segment's channel. *)
drop_ports(chans, gone) == Restrict(chans, DOMAIN chans \ {port[2] : port \in gone})

(* The segment's channel is replaced, whichever peer's port it fed.        *)
create_namespace_port(chans, port) == (port[2] :> port[1]) @@ chans
create_ports(chans, made) == FoldLeft(create_namespace_port, chans, SetToSeq(made))

(* add_peer: a new session, and the first message if this side initiates. *)
session(w, q) == [st |-> IF w < q THEN "initiator" ELSE "responder", id |-> <<w, q, changes>>]
first_message(w, q) == IF w < q THEN {[from |-> w, to |-> q, kind |-> "first",
                                       id |-> <<w, q, changes>>]}
                       ELSE {}

----------------------------------------------------------------------------
(* TunnelManager *)


(* One entry of the list: the peer is removed, which drops its ports, and  *)
(* added again with a port for every segment it shares with this worker.   *)
readd(w, r, q, t) ==
  LET gone == {port \in t.ports : port[1] = q}
      made == {q} \X (r[q] \cap hosts[w])
  IN [ports |-> (t.ports \ gone) \cup made,
      channels |-> create_ports(drop_ports(t.channels, gone), made)]

(* WorkerRegistrySync: peers that left are removed with their ports; the   *)
(* peers that are new or whose entry changed are added again, with a new   *)
(* session, in the order of the list (a HashMap's).                        *)
handle_registry_sync(w) ==
  LET r == Head(inbox[w])
      same == {q \in DOMAIN peers[w] \cap DOMAIN r : peers[w][q] = r[q]}
      fresh == DOMAIN r \ same
      left == {port \in ports[w] : port[1] \notin DOMAIN r}
      begin == [ports |-> ports[w] \ left, channels |-> drop_ports(channels[w], left)]
  IN /\ inbox[w] # <<>>
     /\ inbox' = [inbox EXCEPT ![w] = Tail(@)]
     /\ peers' = [peers EXCEPT ![w] = r]
     /\ \E list \in SetToSeqs(fresh) :
          LET t == FoldLeft(LAMBDA acc, q : readd(w, r, q, acc), begin, list)
          IN /\ ports' = [ports EXCEPT ![w] = t.ports]
             /\ channels' = [channels EXCEPT ![w] = t.channels]
     /\ noise' = [noise EXCEPT ![w] = [q \in fresh |-> session(w, q)] @@ Restrict(@, same)]
     /\ net' = net \cup UNION {first_message(w, q) : q \in fresh}
     /\ UNCHANGED <<registry, hosts, changes, lost>>

(* CreateNamespace reaches w, and the orchestrator hears of it. *)
on_namespace_created(w, s) ==
  LET made == {<<q, s>> : q \in {q \in DOMAIN peers[w] :
                                   s \in peers[w][q] /\ <<q, s>> \notin ports[w]}}
  IN /\ Up(w) /\ s \notin hosts[w]
     /\ hosts' = [hosts EXCEPT ![w] = @ \cup {s}]
     /\ ports' = [ports EXCEPT ![w] = @ \cup made]
     /\ channels' = [channels EXCEPT ![w] = create_ports(@, made)]
     /\ Broadcast([registry EXCEPT ![w] = @ \cup {s}])
     /\ UNCHANGED <<peers, noise, net, lost>>

on_namespace_destroyed(w, s) ==
  LET gone == {port \in ports[w] : port[2] = s}
  IN /\ Up(w) /\ s \in hosts[w]
     /\ hosts' = [hosts EXCEPT ![w] = @ \ {s}]
     /\ ports' = [ports EXCEPT ![w] = @ \ gone]
     /\ channels' = [channels EXCEPT ![w] = drop_ports(@, gone)]
     /\ Broadcast([registry EXCEPT ![w] = @ \ {s}])
     /\ UNCHANGED <<peers, noise, net, lost>>

(* A worker process goes away. *)
worker_leaves(w) == /\ Up(w) /\ Broadcast(Restrict(registry, DOMAIN registry \ {w}))
                    /\ hosts' = [hosts EXCEPT ![w] = {}]
                    /\ peers' = [peers EXCEPT ![w] = Nobody]
                    /\ ports' = [ports EXCEPT ![w] = {}]
                    /\ channels' = [channels EXCEPT ![w] = Nobody]
                    /\ noise' = [noise EXCEPT ![w] = Nobody]
                    /\ UNCHANGED <<net, lost>>

----------------------------------------------------------------------------
(* recv_loop: a datagram of an unknown address is dropped; a handshake     *)
(* message advances a session that is handshaking and is garbage to one    *)
(* that is not, and a frame is delivered if the session decrypts it and    *)
(* its segment has a channel.  No message is ever sent again.              *)
recv_loop(d) ==
  LET w == d.to
      known == d.from \in DOMAIN noise[w]
      s == noise[w][d.from]
      answers == known /\ d.kind = "first" /\ s.st = "responder"
      finishes == known /\ d.kind = "second" /\ s.st = "initiator" /\ s.id = d.id
      decrypts == known /\ d.kind = "frame" /\ s = [st |-> "transport", id |-> d.id]
  IN /\ noise' = IF answers \/ finishes
                 THEN [noise EXCEPT ![w][d.from] = [st |-> "transport", id |-> d.id]]
                 ELSE noise
     /\ net' = (net \ {d}) \cup IF answers THEN {[from |-> w, to |-> d.from, kind |-> "second",
                                                  id |-> d.id]} ELSE {}
     /\ lost' = (lost \/ (decrypts /\ <<d.from, d.seg>> \in ports[w]
                                     /\ d.seg \notin DOMAIN channels[w]))
     /\ UNCHANGED <<registry, inbox, hosts, peers, ports, channels, changes>>

(* egress_loop: a frame of the fabric leaves by its peer's port once the   *)
(* session is in transport mode.                                           *)
egress_loop(w, q, s) ==
  /\ <<q, s>> \in ports[w] /\ q # w
  /\ q \in DOMAIN noise[w] /\ noise[w][q].st = "transport"
  /\ \A d \in net : d.kind # "frame"
  /\ net' = net \cup {[from |-> w, to |-> q, kind |-> "frame", id |-> noise[w][q].id, seg |-> s]}
  /\ UNCHANGED <<registry, inbox, hosts, peers, ports, channels, noise, changes, lost>>

Recv == \E d \in net : recv_loop(d)
Sync == \E w \in Workers : handle_registry_sync(w)

(* Nothing is on its way. *)
Quiet == net = {} /\ (\A w \in Workers : inbox[w] = <<>>) /\ UNCHANGED tVars

Next == \/ Recv \/ Sync \/ Quiet
        \/ \E w \in Workers : \/ worker_leaves(w)
                              \/ \E s \in Segments : \/ on_namespace_created(w, s)
                                                     \/ on_namespace_destroyed(w, s)
                                                     \/ \E q \in Workers : egress_loop(w, q, s)

(* The network loses nothing here, and every worker reads its stream of    *)
(* commands and its socket.                                                *)
Fairness == \A w \in Workers :
  /\ WF_tVars(handle_registry_sync(w))
  /\ \A k \in {"first", "second", "frame"} :
       WF_tVars(\E d \in net : d.to = w /\ d.kind = k /\ recv_loop(d))

Spec == Init /\ [][Next]_tVars /\ Fairness

----------------------------------------------------------------------------

(* The header of tunnel.rs: a datagram is dispatched to the matching       *)
(* namespace channel.  A frame whose sender has a port here is never       *)
(* dropped for want of a channel.                                          *)
FramesAreDispatched == ~lost

(* The header of tunnel.rs: exactly one side of a pair initiates, without  *)
(* out-of-band coordination.  Two workers that know each other complete    *)
(* their handshake if the network loses nothing.                           *)
TunnelsComeUp == \A w, q \in Workers :
  [](w # q /\ q \in DOMAIN peers[w] /\ w \in DOMAIN peers[q]
     => <>(\/ q \notin DOMAIN peers[w] \/ w \notin DOMAIN peers[q]
           \/ noise[w][q].st = "transport" /\ noise[q][w] = noise[w][q]))
=============================================================================
