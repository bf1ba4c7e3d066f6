------------------------------- MODULE Fabric -------------------------------
(***************************************************************************)
(* The data plane of one namespace on one worker: the endpoint table that  *)
(* EndpointSync and EndpointUpdate configure, the dispatch of frames by    *)
(* destination address with buffering, DNAT and flow tracking, and the     *)
(* ports of pods that come and go.  One pod (or WireGuard peer) address    *)
(* and one pass-through service that may have it as its backend; services  *)
(* with an activator are the subject of StreamProxy.                       *)
(*                                                                         *)
(* ep[ip] is the table's entry:                                            *)
(*   kind   "none" (no entry), "service", "unplaced", "remote", "adapter"  *)
(*          or "local"                                                     *)
(*   state  EndpointState                                                  *)
(*   buf    frames in the buffer, since the age of buffer_start: "none",   *)
(*          "recent" or "expired"                                          *)
(*   port   the attached port of a local pod, 0 if none                    *)
(*   backend  whether the service has the pod as its backend               *)
(*   policy the service's port configuration                               *)
(*   flow   the tracked TCP flow: "off" without a tracker, "none" without  *)
(*          a flow, or its TcpFlowState                                    *)
(*   pulsed an activation was sent within the debounce interval            *)
(* open are the live port ids, next the next id;  nat whether conntrack    *)
(* has the flow's reverse entry; hop a frame that was rewritten to the     *)
(* backend's address and is about to be dispatched again; effects the sync *)
(* effects the command handler still has to carry out; active[ip] what the *)
(* last EndpointDemand event said; fate what became of the frames the last *)
(* step took out of a buffer.  Every lock of the table is one step.        *)
(***************************************************************************)
EXTENDS Naturals, Sequences, FiniteSets

CONSTANTS BufferFrames,  \* frames a buffer holds
          MaxPorts,      \* ports opened
          Policies,      \* port configurations of the service
          Flags          \* TCP flags seen: of syn, synack, ack, fin, rst
VARIABLES ep, open, next, nat, hop, effects, active, fate

fVars == <<ep, open, next, nat, hop, effects, active, fate>>

Ips == {"pod", "svc"}

Empty(kind, state) == [kind |-> kind, state |-> state, buf |-> 0, since |-> "none",
                       port |-> 0, backend |-> FALSE, policy |-> 0, flow |-> "off",
                       pulsed |-> FALSE]

Init == /\ ep = [ip \in Ips |-> Empty("none", "Buffering")]
        /\ open = {} /\ next = 1
        /\ nat = FALSE /\ hop = FALSE
        /\ effects = <<>>
        /\ active = [ip \in Ips |-> FALSE]
        /\ fate = "none"

has_active_flows(flow) == flow \in {"Established", "HalfClosed"}

Reachable == \/ ep["pod"].kind = "local" /\ ep["pod"].port # 0
             \/ ep["pod"].kind \in {"remote", "adapter"}

(* resolve_ip knows the ports of local pods and adapters only. *)
resolve_ip == \/ ep["pod"].kind = "local" /\ ep["pod"].port \in open
              \/ ep["pod"].kind = "adapter"

(* The reverse entry for a frame that was rewritten to the backend.        *)
insert_conntrack_entry(rewritten) == nat' = (nat \/ rewritten)

----------------------------------------------------------------------------
(* Configuration: apply_single_spec on one entry of the table.             *)

(* A pod or a peer.  A local pod keeps its port, and the frames it got as  *)
(* an unplaced one; a tracker begins anew.                                 *)
PodEntry(e, kind, placement) ==
  CASE placement = "me" /\ kind = "Pod" ->
         LET port == IF e.kind = "local" THEN e.port ELSE 0
         IN [Empty("local", IF port # 0 THEN "Ready" ELSE "Pending") EXCEPT
               !.buf = IF e.kind = "unplaced" THEN e.buf ELSE 0,
               !.port = port,
               !.flow = IF port # 0 THEN "none" ELSE "off"]
    [] placement = "me" /\ kind = "WireGuardPeer" -> Empty("adapter", "Ready")
    [] placement = "other" -> Empty("remote", "Ready")
    [] placement = "nowhere" -> IF e.kind # "none" THEN e ELSE Empty("unplaced", "Buffering")

PodEffects(e, kind, placement) ==
  CASE placement = "me" /\ kind = "WireGuardPeer" /\ e.buf > 0 -> <<"FlushAdapterBuffer">>
    [] placement = "other" /\ e.state = "Buffering" /\ e.buf > 0 -> <<"FlushPodBuffer">>
    [] OTHER -> <<>>

(* The service, its backend "none", "pending" or "ready".  The same port   *)
(* configuration updates the entry in place; another one replaces it.      *)
ServiceEntry(e, backend, policy) ==
  LET state == CASE backend = "none" -> "Buffering" [] backend = "pending" -> "Pending"
                 [] backend = "ready" -> "Ready"
      has == backend # "none"
  IN IF e.kind = "service" /\ e.policy = policy
     THEN [e EXCEPT !.state = state, !.backend = has,
                    !.buf = IF has THEN @ ELSE 0,
                    !.since = IF has THEN @ ELSE "none",
                    !.pulsed = @ /\ has,
                    !.flow = IF has THEN @ ELSE "off"]
     ELSE [Empty("service", state) EXCEPT !.backend = has, !.policy = policy, !.flow = "none"]

ServiceEffects(e, backend, policy) ==
  LET kept == e.kind = "service" /\ e.policy = policy
  IN (IF kept /\ backend = "none" /\ has_active_flows(e.flow) THEN <<"FlowStatusChange">>
      ELSE <<>>)
     \o (IF backend = "ready" /\ (kept => e.state # "Ready") THEN <<"ServiceReady">> ELSE <<>>)

PodSpecs == {"Pod", "WireGuardPeer"} \X {"me", "other", "nowhere"}
ServiceSpecs == {"none", "pending", "ready"} \X Policies

(* EndpointSync names every address there is, EndpointUpdate some to       *)
(* remove and some to upsert; upserts is a partial map of specs.           *)
Apply(removed, pod, svc) ==
  LET cleared == [ip \in Ips |-> IF ip \in removed THEN Empty("none", "Buffering") ELSE ep[ip]]
  IN /\ ep' = [ip \in Ips |->
                 IF ip = "pod" THEN IF pod = <<>> THEN cleared[ip]
                                    ELSE PodEntry(cleared[ip], pod[1], pod[2])
                 ELSE IF svc = <<>> THEN cleared[ip]
                      ELSE ServiceEntry(cleared[ip], svc[1], svc[2])]
     /\ effects' = (IF pod = <<>> THEN <<>> ELSE PodEffects(cleared["pod"], pod[1], pod[2]))
                   \o (IF svc = <<>> THEN <<>>
                       ELSE ServiceEffects(cleared["svc"], svc[1], svc[2]))
     /\ fate' = "none"
     /\ UNCHANGED <<open, next, nat, hop, active>>

endpoint_sync == /\ effects = <<>>
                 /\ \E pod \in PodSpecs \cup {<<>>}, svc \in ServiceSpecs \cup {<<>>} :
                      Apply({ip \in Ips : IF ip = "pod" THEN pod = <<>> ELSE svc = <<>>},
                            pod, svc)

endpoint_update == /\ effects = <<>>
                   /\ \/ \E pod \in PodSpecs : Apply({}, pod, <<>>)
                      \/ \E svc \in ServiceSpecs : Apply({}, <<>>, svc)
                      \/ \E ip \in Ips : ep[ip].kind # "none" /\ Apply({ip}, <<>>, <<>>)

----------------------------------------------------------------------------
(* handle_endpoint_effects: one effect at a time, each under its own lock. *)

Drained(e) == [e EXCEPT !.buf = 0, !.since = "none"]

(* flush_service_frames: the frames go to the backend's port, or nowhere.  *)
flush_service_frames(n) == fate' = IF n = 0 THEN "none" ELSE IF resolve_ip THEN "sent" ELSE "dropped"

mark_service_ready ==
  LET e == ep["svc"]
  IN IF e.kind = "service" /\ e.backend
     THEN /\ ep' = [ep EXCEPT !["svc"] = [Drained(e) EXCEPT
                      !.state = "Ready", !.flow = IF @ = "off" THEN "none" ELSE @]]
          /\ flush_service_frames(e.buf)
          /\ insert_conntrack_entry(e.buf > 0 /\ resolve_ip)
     ELSE UNCHANGED <<ep, nat>> /\ fate' = "none"

(* By now the entry that held the frames has been replaced by one without. *)
flush_pod_buffer ==
  LET e == ep["pod"]
  IN /\ ep' = IF e.kind \in {"unplaced", "local"} THEN [ep EXCEPT !["pod"] = Drained(@)] ELSE ep
     /\ fate' = IF e.kind \in {"unplaced", "local"} /\ e.buf > 0 /\ resolve_ip THEN "sent"
                ELSE "gone"
     /\ UNCHANGED nat

handle_endpoint_effects ==
  /\ effects # <<>>
  /\ effects' = Tail(effects)
  /\ CASE Head(effects) = "ServiceReady" -> mark_service_ready
       [] Head(effects) = "FlushPodBuffer" -> flush_pod_buffer
       [] Head(effects) = "FlushAdapterBuffer" -> fate' = "sent" /\ UNCHANGED <<ep, nat>>
       [] Head(effects) = "FlowStatusChange" -> fate' = "none" /\ UNCHANGED <<ep, nat>>
  /\ active' = IF Head(effects) = "FlowStatusChange" THEN [active EXCEPT !["svc"] = FALSE]
               ELSE active
  /\ UNCHANGED <<open, next, hop>>

----------------------------------------------------------------------------
(* Frames.  track_packet sees the flags of a TCP segment towards the       *)
(* endpoint; only a SYN begins a flow.                                     *)
track_packet(flow, flag) ==
  CASE flow = "off" -> "off"
    [] flow = "none" -> IF flag = "syn" THEN "Opening"
                        ELSE IF flag = "synack" THEN "Established" ELSE "none"
    [] OTHER -> CASE flag = "rst" -> "Closed"
                  [] flag = "fin" -> IF flow = "HalfClosed" THEN "Closed" ELSE "HalfClosed"
                  [] flow = "Opening" /\ flag \in {"ack", "synack"} -> "Established"
                  [] OTHER -> flow

(* try_buffer_frame: an expired buffer is dropped with the frame.          *)
try_buffer_frame(e) ==
  CASE e.since = "expired" -> Drained(e)
    [] e.since # "expired" /\ e.buf >= BufferFrames -> e
    [] OTHER -> [e EXCEPT !.buf = @ + 1, !.since = IF @ = "none" THEN "recent" ELSE @]

(* A service passes a frame on to its backend; a pod without a port and a  *)
(* service that cannot keep theirs.                                        *)
dispatch_service(e) == e.kind = "service" /\ e.state = "Ready" /\ e.backend /\ Reachable

dispatch_local_pod_pending(e) ==
  \/ e.kind = "unplaced" \/ (e.kind = "local" /\ e.port = 0)
  \/ e.kind = "service" /\ ~dispatch_service(e)

(* lookup_and_buffer, and what dispatch_frame does with its answer; track  *)
(* is FALSE in the second pass over a rewritten frame.                     *)
lookup_and_buffer(ip, flag, track) ==
  LET flow == IF track THEN track_packet(ep[ip].flow, flag) ELSE ep[ip].flow
      e == [ep[ip] EXCEPT !.flow = flow]
  IN /\ ep' = [ep EXCEPT ![ip] = IF dispatch_local_pod_pending(e)
                                 THEN [try_buffer_frame(e) EXCEPT !.pulsed = TRUE] ELSE e]
     /\ insert_conntrack_entry(dispatch_service(e))
     /\ hop' = dispatch_service(e)
     /\ active' = [active EXCEPT ![ip] = IF has_active_flows(flow) # has_active_flows(ep[ip].flow)
                                         THEN has_active_flows(flow) ELSE @]
     /\ fate' = "none"
     /\ UNCHANGED <<open, next, effects>>

dispatch_frame == \/ /\ ~hop
                     /\ \E ip \in Ips, flag \in Flags :
                          ep[ip].kind # "none" /\ lookup_and_buffer(ip, flag, TRUE)
                  \/ hop /\ lookup_and_buffer("pod", "ack", FALSE)

----------------------------------------------------------------------------
(* add_port_inner for the pod's TAP: the port attaches to a local pod      *)
(* only, and the frames waiting for the pod's address are flushed to it.   *)
attach_port(e) == IF e.kind = "local"
                  THEN [Drained(e) EXCEPT !.port = next, !.state = "Ready",
                                          !.flow = IF @ = "off" THEN "none" ELSE @]
                  ELSE e

\* Slip: the service buffers that wait for the pod are left alone.
flush_by_backend_ip_none(e) == FALSE

flush_by_backend_ip(e) == e.kind = "service" /\ e.state = "Ready" /\ e.backend /\ e.buf > 0

add_port ==
  LET flushes == flush_by_backend_ip(ep["svc"])
      served == ep["pod"].kind = "local" \/ resolve_ip
  IN /\ next <= MaxPorts
     /\ open' = open \cup {next} /\ next' = next + 1
     /\ ep' = [ep EXCEPT !["pod"] = attach_port(@),
                         !["svc"] = IF flushes THEN Drained(@) ELSE @]
     /\ fate' = IF flushes /\ ~served THEN "dropped"
                ELSE IF flushes \/ (ep["pod"].kind = "local" /\ ep["pod"].buf > 0) THEN "sent"
                ELSE "none"
     /\ insert_conntrack_entry(flushes /\ served)
     /\ UNCHANGED <<hop, effects, active>>

\* Slip: a port that goes away stays attached.
detach_port_never(e, id) == e

detach_port(e, id) == IF e.kind = "local" /\ e.port = id
                      THEN [e EXCEPT !.port = 0, !.state = "Pending"] ELSE e

(* PortGuard: the port detaches, from the entry it is attached to, and is  *)
(* removed.                                                                *)
PortGuard(id) == /\ id \in open
                 /\ open' = open \ {id}
                 /\ ep' = [ep EXCEPT !["pod"] = detach_port(@, id)]
                 /\ fate' = "none"
                 /\ UNCHANGED <<next, nat, hop, effects, active>>

(* The read loop of a port may end at any time: end of file, an error, or  *)
(* its task is aborted.  The guard is dropped whatever the reason.         *)
port_read_loop == \E id \in open : PortGuard(id)

(* Time passes: buffers expire and the debounce interval ends. *)
tick(ip) == /\ ep[ip].since = "recent" \/ ep[ip].pulsed
            /\ ep' = [ep EXCEPT ![ip].pulsed = FALSE,
                                ![ip].since = IF @ = "recent" THEN "expired" ELSE @]
            /\ fate' = "none"
            /\ UNCHANGED <<open, next, nat, hop, effects, active>>

(* ConntrackTable::gc: an entry that no frame has used for too long goes.  *)
conntrack_gc == nat' \in {nat, FALSE}

(* The periodic collection may find a flow, or the conntrack entry, past   *)
(* its timeout.                                                            *)
gc_flow_trackers(ip) ==
  /\ ep[ip].flow \notin {"off", "none"}
  /\ ep' = [ep EXCEPT ![ip].flow = "none"]
  /\ active' = [active EXCEPT ![ip] = IF has_active_flows(ep[ip].flow) THEN FALSE ELSE @]
  /\ conntrack_gc
  /\ fate' = "none"
  /\ UNCHANGED <<open, next, hop, effects>>

Next == \/ endpoint_sync \/ endpoint_update \/ handle_endpoint_effects
        \/ dispatch_frame
        \/ add_port \/ port_read_loop
        \/ \E ip \in Ips : tick(ip) \/ gc_flow_trackers(ip)

Spec == Init /\ [][Next]_fVars

----------------------------------------------------------------------------
(* No frame waits where the next one would pass: a local pod with a port   *)
(* has an empty buffer, and so has a ready service whose backend is such a *)
(* pod, once the command handler is done.  Otherwise the buffered start of *)
(* a connection would be overtaken by its retransmission and stay until it *)
(* expires (attach_port, flush_by_backend_ip, mark_service_ready).         *)
NothingWaitsAtAnOpenPort ==
  ep["pod"].kind = "local" /\ ep["pod"].port # 0 /\ effects = <<>> =>
    /\ ep["pod"].buf = 0
    /\ ep["svc"].kind = "service" /\ ep["svc"].state = "Ready" /\ ep["svc"].backend
       => ep["svc"].buf = 0

(* A local pod's entry never names a port that is gone, in whatever order  *)
(* ports, guards and endpoint specs come (detach_port, apply_single_spec): *)
(* frames are not sent into the void but buffered.                         *)
AttachedPortsAreOpen == ep["pod"].port # 0 => ep["pod"].port \in open

(* The comment at config.rs:390: when a tracker goes away with active      *)
(* flows the orchestrator is notified, so that it can clear the demand.    *)
(* Between commands, what it was last told is what the tracker sees.       *)
DemandIsTold == effects = <<>> => \A ip \in Ips : active[ip] = has_active_flows(ep[ip].flow)

(* src/README.md:41: traffic to a service address is held until the        *)
(* backing pod is ready, then flushed.  Frames taken out of the service's  *)
(* buffer while the pod can be reached are sent, not dropped               *)
(* (flush_service_frames).                                                 *)
FlushedFramesAreSent == fate = "dropped" => ~Reachable
=============================================================================
