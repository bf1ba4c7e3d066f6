------------------------------ MODULE Endpoint ------------------------------
(***************************************************************************)
(* One endpoint under every order of inputs: its owner's configuration,    *)
(* the workload's readiness and placement, the activators' demand, traffic *)
(* and the idle timer.                                                     *)
(***************************************************************************)
EXTENDS EndpointSm

VARIABLE ep

Init == \E has_activation \in BOOLEAN : ep = NewEndpoint(has_activation)

Exists == ~ep.destroyed

OnConfig == Exists /\ \E c \in EndpointConfig \cup {None} : ep' = ConfigInput(ep, c)

OnReadiness == Exists /\ \E r \in ReadyInfo \cup {None} : ep' = ReadinessInput(ep, r)

OnPlacement == Exists /\ \E w \in Workers \cup {None} : ep' = PlacementInput(ep, w)

OnBackendNeed == Exists /\ \E active \in BOOLEAN : ep' = BackendNeedInput(ep, active)

OnTraffic == Exists /\ ep' = EndpointDemandTraffic(ep)

(* A timer cancelled in the meantime may still fire.                       *)
OnTimer == Exists /\ ep' = EndpointTimerFired(ep)

(* A requested timer fires in the end: the wheel keeps it until it is due. *)
RequestedTimer == ep.out_wanted_timers # {} /\ OnTimer

Next ==
  \/ OnConfig
  \/ OnReadiness
  \/ OnPlacement
  \/ OnBackendNeed
  \/ OnTraffic
  \/ OnTimer

Spec == Init /\ [][Next]_ep

(* Quiet: from here on no traffic arrives and no activator is active.      *)
Quiet == OnConfig \/ OnReadiness \/ OnPlacement \/ OnTimer

FairSpec == Spec /\ WF_ep(RequestedTimer)

-----------------------------------------------------------------------------
TypeOK == ep \in Endpoint

(* The demand signal is what compute_demand says of the fields, and the    *)
(* idle timer is requested exactly while it is what keeps up the demand of *)
(* an endpoint with activation: an always-on endpoint never has a timer    *)
(* running that would later be taken for the end of demand.                *)
DemandHasItsReason ==
  /\ ep.out_demand = compute_demand(ep)
  /\ ep.out_wanted_timers = IF ep.idle_timer_active THEN {"IdleTimeout"} ELSE {}
  /\ ep.idle_timer_active => ep.has_activation

(* Workers are told about an active backend only while the workload is     *)
(* ready, and then about the ready pod's worker; before that a service     *)
(* that cannot be activated is not announced at all.                       *)
AnnouncedBackendIsReady ==
  LET info == ep.out_endpoint_info
  IN /\ info # None /\ info.active => ep.last_readiness # None /\ info.worker = ep.last_readiness.worker
     /\ info # None /\ info.kind = "Service" /\ ~info.active => ep.has_activation

(* The idle timer bounds demand: when no traffic comes any more, an        *)
(* endpoint whose activators are silent loses its demand.                  *)
DemandEndsWithoutTraffic ==
  <>[][Quiet]_ep => <>[](ep.active_level \/ ~ep.has_activation \/ ~ep.out_demand \/ ep.destroyed)
=============================================================================
