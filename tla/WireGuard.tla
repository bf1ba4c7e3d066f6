----------------------------- MODULE WireGuard -----------------------------
(***************************************************************************)
(* The WireGuard ingress adapter of a worker (adapter/wireguard.rs): the   *)
(* peers by key and by source address, the receive loop that finds the     *)
(* peer of a datagram and learns its endpoint, the channels of the         *)
(* namespaces and their clean-up.  boringtun's Tunn is external: one       *)
(* accepts a handshake of its key, and data of the session it agreed last. *)
(***************************************************************************)
EXTENDS Integers, Sequences, FiniteSets, SequencesExt

CONSTANTS PeerKeys, Sources, MaxPeerStates, MaxIncarnations, CleanupBuffer, PortFrames

VARIABLES byKey,     \* peers_by_key: key -> PeerState
          byAddr,    \* peers_by_addr: source address -> PeerState
          peerKey,   \* the key of each PeerState ever made, in order
          endpoint,  \* PeerState -> {} or {address}
          session,   \* the PeerState each client last agreed a session with
          recv,      \* where the receive loop stands
          channel,   \* namespace_channels of one namespace name: {} or {id}
          held,      \* incarnations whose AdapterPortHandle is alive
          made,      \* incarnations created so far
          cleanups,  \* the cleanup channel
          inject,    \* frames waiting in the namespace's port
          egress     \* the packet the egress task has in hand: {} or {[peer, to]}
wVars == <<byKey, byAddr, peerKey, endpoint, session, recv, channel, held, made, cleanups, inject, egress>>
peerVars == <<byKey, byAddr, peerKey, endpoint, session, recv>>
portVars == <<channel, held, made, cleanups, inject, egress>>

Without(f, S) == [k \in DOMAIN f \ S |-> f[k]]
Idle == [at |-> "recv_from"]

(* A client asks for the worker's gateway: a fresh PeerState, no endpoint; *)
(* a PeerState the key had before is dropped from this map only.           *)
add_peer(k) ==
    /\ Len(peerKey) < MaxPeerStates
    /\ peerKey' = Append(peerKey, k)
    /\ endpoint' = Append(endpoint, {})
    /\ byKey' = [j \in DOMAIN byKey \cup {k} |-> IF j = k THEN Len(peerKey) + 1 ELSE byKey[j]]
    /\ UNCHANGED <<byAddr, session, recv, portVars>>

remove_peer(k) ==
    /\ k \in DOMAIN byKey
    /\ byKey' = Without(byKey, {k})
    /\ byAddr' = Without(byAddr, endpoint[byKey[k]])
    /\ UNCHANGED <<peerKey, endpoint, session, recv, portVars>>

Accepts(p, k, kind) == peerKey[p] = k /\ (kind = "handshake" \/ session[k] = {p})
Agreed(p, k, kind) == IF kind = "handshake" THEN [session EXCEPT ![k] = {p}] ELSE session

(* A reply goes back to the source; a decrypted IPv4 packet goes into the  *)
(* channel of the peer's namespace unless that is gone or full.            *)
process_tunn_result(accepted, kind) ==
    inject' = IF accepted /\ kind = "data" /\ channel # {} /\ inject < PortFrames
              THEN inject + 1 ELSE inject

(* A datagram from a known source goes to the peer last seen there, and    *)
(* nowhere else when that peer cannot read it.                             *)
handle_peer_packet(src, k, kind) ==
    /\ recv.at = "recv_from"
    /\ src \in DOMAIN byAddr
    /\ session' = IF Accepts(byAddr[src], k, kind) THEN Agreed(byAddr[src], k, kind) ELSE session
    /\ process_tunn_result(Accepts(byAddr[src], k, kind), kind)
    /\ UNCHANGED <<byKey, byAddr, peerKey, endpoint, recv, channel, held, made, cleanups, egress>>

(* Any other: the peers are copied under the lock and tried without it.    *)
handle_unknown_source(src, k, kind) ==
    /\ recv.at = "recv_from"
    /\ src \notin DOMAIN byAddr
    /\ recv' = [at |-> "trying", src |-> src, key |-> k, kind |-> kind,
                peers |-> {byKey[j] : j \in DOMAIN byKey}]
    /\ UNCHANGED <<byKey, byAddr, peerKey, endpoint, session, portVars>>

(* The peer that accepts gets the new endpoint first ...                   *)
try_peers ==
    LET takers == {p \in recv.peers : Accepts(p, recv.key, recv.kind)}
    IN /\ recv.at = "trying"
       /\ IF takers = {}
          THEN /\ recv' = Idle
               /\ UNCHANGED <<endpoint, session>>
          ELSE \E p \in takers :
                 /\ session' = Agreed(p, recv.key, recv.kind)
                 /\ endpoint' = [endpoint EXCEPT ![p] = {recv.src}]
                 /\ recv' = IF endpoint[p] = {recv.src} THEN Idle
                            ELSE [at |-> "mapping", peer |-> p, old |-> endpoint[p], src |-> recv.src]
       /\ process_tunn_result(takers # {}, recv.kind)
       /\ UNCHANGED <<byKey, byAddr, peerKey, channel, held, made, cleanups, egress>>

\* Slip: the mapping of the address the peer left is kept.
update_peer_endpoint_keeps ==
    /\ recv.at = "mapping"
    /\ byAddr' = [a \in DOMAIN byAddr \cup {recv.src} |->
                     IF a = recv.src THEN recv.peer ELSE byAddr[a]]
    /\ recv' = Idle
    /\ UNCHANGED <<byKey, peerKey, endpoint, session, portVars>>

(* ... and the address map follows under the write lock.                   *)
update_peer_endpoint ==
    /\ recv.at = "mapping"
    /\ byAddr' = [a \in (DOMAIN byAddr \ recv.old) \cup {recv.src} |->
                     IF a = recv.src THEN recv.peer ELSE byAddr[a]]
    /\ recv' = Idle
    /\ UNCHANGED <<byKey, peerKey, endpoint, session, portVars>>

(* The worker creates the namespace anew before or after it drops the      *)
(* ports of the one before.                                                *)
create_port ==
    /\ made < MaxIncarnations
    /\ made' = made + 1
    /\ channel' = {made + 1}
    /\ held' = held \cup {made + 1}
    /\ inject' = 0
    /\ UNCHANGED <<cleanups, egress, peerVars>>

(* try_send: a request that finds the channel full is lost.                *)
drop_guard(i) ==
    /\ i \in held
    /\ held' = held \ {i}
    /\ cleanups' = IF Len(cleanups) < CleanupBuffer THEN Append(cleanups, i) ELSE cleanups
    /\ UNCHANGED <<channel, made, inject, egress, peerVars>>

\* Slip: the incarnation is not compared.
cleanup_loop_any ==
    /\ cleanups # <<>>
    /\ channel' = {}
    /\ cleanups' = Tail(cleanups)
    /\ inject' = IF channel' = {} THEN 0 ELSE inject
    /\ egress' = IF channel' = {} THEN {} ELSE egress
    /\ UNCHANGED <<held, made, peerVars>>

cleanup_loop ==
    /\ cleanups # <<>>
    /\ channel' = channel \ {Head(cleanups)}
    /\ cleanups' = Tail(cleanups)
    /\ inject' = IF channel' = {} THEN 0 ELSE inject
    /\ egress' = IF channel' = {} THEN {} ELSE egress
    /\ UNCHANGED <<held, made, peerVars>>

(* The fabric reads a frame from the port.                                  *)
port_read == inject > 0 /\ inject' = inject - 1
             /\ UNCHANGED <<channel, held, made, cleanups, egress, peerVars>>

(* A frame of the fabric: the peer is looked up under the lock; one without *)
(* an endpoint gets nothing.  The egress task dies with its channel.        *)
egress_loop(p) ==
    /\ channel # {} /\ egress = {}
    /\ \E k \in DOMAIN byKey : byKey[k] = p
    /\ egress' = {[peer |-> p, to |-> endpoint[p]]}
    /\ UNCHANGED <<channel, held, made, cleanups, inject, peerVars>>

(* The packet is encrypted and sent to the endpoint read before.            *)
encapsulate == /\ egress # {} /\ egress' = {}
               /\ UNCHANGED <<channel, held, made, cleanups, inject, peerVars>>

WInit ==
    /\ inject = 0 /\ egress = {}
    /\ byKey = <<>> /\ byAddr = <<>>
    /\ peerKey = <<>> /\ endpoint = <<>>
    /\ session = [k \in PeerKeys |-> {}]
    /\ recv = Idle
    /\ channel = {} /\ held = {} /\ made = 0 /\ cleanups = <<>>

WNext ==
    \/ \E k \in PeerKeys : add_peer(k) \/ remove_peer(k)
    \/ \E src \in Sources, k \in PeerKeys, kind \in {"handshake", "data"} :
          handle_peer_packet(src, k, kind) \/ handle_unknown_source(src, k, kind)
    \/ try_peers
    \/ update_peer_endpoint
    \/ create_port
    \/ \E i \in held : drop_guard(i)
    \/ cleanup_loop \/ port_read \/ encapsulate
    \/ \E p \in 1..Len(peerKey) : egress_loop(p)

WSpec == WInit /\ [][WNext]_wVars

-----------------------------------------------------------------------------
(* Between two datagrams the two indexes agree: a source address leads to  *)
(* a peer whose endpoint it is, and the endpoint of a connected peer leads *)
(* back to it, whatever add_peer and remove_peer did while a datagram was  *)
(* being tried without the lock.                                           *)
AddressIndexIsExact ==
    recv.at = "recv_from" =>
        /\ \A a \in DOMAIN byAddr : endpoint[byAddr[a]] = {a}
        /\ \A k \in DOMAIN byKey : \A a \in endpoint[byKey[k]] :
              a \in DOMAIN byAddr /\ byAddr[a] = byKey[k]

(* The newest incarnation of a namespace keeps its channel as long as its  *)
(* port is held: a clean-up of an older one never removes it (DropGuard:   *)
(* "preventing stale cleanup from affecting a newer namespace channel").   *)
NewestPortKeepsItsChannel == made \in held => channel = {made}
=============================================================================
