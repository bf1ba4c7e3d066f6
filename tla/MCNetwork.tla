----------------------------- MODULE MCNetwork ------------------------------
(***************************************************************************)
(* The parts that carry packets and connections, checked side by side: on  *)
(* names the part a behaviour exercises and the state of the others stays  *)
(* as it began, so that the state space is the sum of theirs.              *)
(***************************************************************************)
EXTENDS Integers, Sequences

CONSTANT Parts  \* of "fabric", "proxy", "wireguard", "tunnel", "stream", "network"
VARIABLE on

----------------------------------------------------------------------------
(* The fabric of a namespace. *)
CONSTANTS BufferFrames, MaxPorts, Policies, Flags
VARIABLES ep, open, next, nat, hop, effects, active, fate
F == INSTANCE Fabric
fVars == <<ep, open, next, nat, hop, effects, active, fate>>

(* The proxy of a service with an activator. *)
CONSTANTS MaxStreams, H2Ids
VARIABLES streams, nextStream, act
P == INSTANCE StreamProxy
pVars == <<streams, nextStream, act>>

(* The WireGuard adapter. *)
CONSTANTS PeerKeys, Sources, MaxPeerStates, MaxIncarnations, CleanupBuffer, PortFrames
VARIABLES byKey, byAddr, peerKey, endpoint, session, recv, channel, held, made, cleanups,
          inject, egress
W == INSTANCE WireGuard
wVars == <<byKey, byAddr, peerKey, endpoint, session, recv, channel, held, made, cleanups,
           inject, egress>>

(* The tunnels between workers. *)
CONSTANTS Workers, Segments, MaxChanges
VARIABLES registry, inbox, hosts, peers, ports, channels, noise, net, changes, lost
T == INSTANCE Tunnel
tVars == <<registry, inbox, hosts, peers, ports, channels, noise, net, changes, lost>>

(* A TCP stream of the client's userspace network. *)
CONSTANTS BufLimit, SockLimit, MaxIn, MaxOut
VARIABLES s, sock, loop, got, put, app
S == INSTANCE UserspaceStream
sVars == <<s, sock, loop, got, put, app>>

(* The commands and sockets of the client's userspace network. *)
CONSTANTS Callers, Ports, QueueLimit, MaxSockets
VARIABLES task, network, caller, cmds, dns, sockets, opened
U == INSTANCE UserspaceNetwork WITH made <- opened
uVars == <<task, network, caller, cmds, dns, sockets, opened>>

----------------------------------------------------------------------------
Init == on \in Parts /\ F!Init /\ P!Init /\ W!WInit /\ T!Init /\ S!UInit /\ U!EInit

Next ==
  \/ on = "fabric" /\ F!Next /\ UNCHANGED <<on, pVars, wVars, tVars, sVars, uVars>>
  \/ on = "proxy" /\ P!Next /\ UNCHANGED <<on, fVars, wVars, tVars, sVars, uVars>>
  \/ on = "wireguard" /\ W!WNext /\ UNCHANGED <<on, fVars, pVars, tVars, sVars, uVars>>
  \/ on = "tunnel" /\ T!Next /\ UNCHANGED <<on, fVars, pVars, wVars, sVars, uVars>>
  \/ on = "stream" /\ S!UNext /\ UNCHANGED <<on, fVars, pVars, wVars, tVars, uVars>>
  \/ on = "network" /\ U!ENext /\ UNCHANGED <<on, fVars, pVars, wVars, tVars, sVars>>

Spec == Init /\ [][Next]_<<on, fVars, pVars, wVars, tVars, sVars, uVars>>

----------------------------------------------------------------------------
(* No frame waits where the next one would pass, and no endpoint sends to  *)
(* a port that is gone (EndpointTable, PortGuard).                         *)
NothingWaitsAtAnOpenPort == F!NothingWaitsAtAnOpenPort /\ F!AttachedPortsAreOpen


(* The indexes of the WireGuard peers agree, and cleaning up after an old  *)
(* port never takes the channel of a newer one (adapter/wireguard.rs).     *)
PeersAreIndexed == W!AddressIndexIsExact /\ W!NewestPortKeepsItsChannel



(* Whoever awaits the answer to a command gets one, also when the network  *)
(* task ends first (connect/userspace.rs).                                 *)
CallersAreAnswered == U!CallersAreAnswered
=============================================================================
