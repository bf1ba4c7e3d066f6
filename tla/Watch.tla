-------------------------------- MODULE Watch --------------------------------
(***************************************************************************)
(* Watching a namespace: the events the ObservabilityAdapter derives from  *)
(* signal changes, the EventBus that keeps a ring of them and fans them    *)
(* out, the gRPC stream (stream_events), and the client's NamespaceWatcher *)
(* with its NamespaceModel.  One workload, whose status is a number, and   *)
(* pods that are created, run and are reaped.  The specification is fixed  *)
(* while it is watched: adding or removing a workload makes no event, and  *)
(* a model that was built before never learns of it.                       *)
(***************************************************************************)
EXTENDS Integers, Sequences, FiniteSets, SequencesExt

CONSTANTS Statuses, Pods,
          RingSize,       \* max_events_per_namespace
          ChannelSize,    \* the subscriber's channel, 256
          MaxEvents       \* bound

VARIABLES wl,      \* the workload's status
          pods,    \* pod -> status, for the pods that exist
          ring,    \* NamespaceState.buffer
          sub,     \* the subscription: registered, what is still queued
          client,  \* the NamespaceWatcher
          since,   \* statuses the workload has had since the watcher started
          made     \* events and pods so far
nVars == <<wl, pods, ring, sub, client, since, made>>

(* NamespaceState::publish: retain drops a subscriber whose channel is     *)
(* full as it does one that is gone.                                       *)
publish(e) ==
    /\ made.events < MaxEvents
    /\ ring' = LET b == Append(ring, e)
               IN SubSeq(b, 1 + (IF Len(b) > RingSize THEN 1 ELSE 0), Len(b))
    /\ sub' = CASE ~sub.on -> sub
                [] Len(sub.live) < ChannelSize -> [sub EXCEPT !.live = Append(@, e)]
                [] OTHER -> [sub EXCEPT !.on = FALSE]

WorkloadStatusObs_changed(s) ==
    /\ s # wl
    /\ wl' = s
    /\ since' = since \cup {s}
    /\ publish([of |-> "workload", status |-> s])
    /\ made' = [made EXCEPT !.events = @ + 1]
    /\ UNCHANGED <<pods, client>>

convert_pod_status_transition(s) == IF s = "Finished" THEN "Stopped" ELSE s

PodStatusObs_added(p) ==
    /\ p \notin made.pods
    /\ pods' = [q \in DOMAIN pods \cup {p} |->
                  IF q = p THEN [status |-> "Pending", placed |-> FALSE] ELSE pods[q]]
    /\ publish([of |-> p, status |-> "Created"])
    /\ made' = [made EXCEPT !.pods = @ \cup {p}, !.events = @ + 1]
    /\ UNCHANGED <<wl, client, since>>

(* PodWorkerObsAggregator::changed: the lease is granted.                  *)
PodWorkerObs_changed(p) ==
    /\ p \in DOMAIN pods /\ ~pods[p].placed
    /\ pods' = [pods EXCEPT ![p].placed = TRUE]
    /\ publish([of |-> p, status |-> "Scheduled"])
    /\ made' = [made EXCEPT !.events = @ + 1]
    /\ UNCHANGED <<wl, client, since>>

PodStatusObs_changed(p) ==
    /\ p \in DOMAIN pods /\ pods[p].placed
    /\ \E s \in (IF pods[p].status = "Running" THEN {"Finished"} ELSE {"Running"}) :
          /\ pods[p].status # "Finished"
          /\ pods' = [pods EXCEPT ![p].status = s]
          /\ publish([of |-> p, status |-> convert_pod_status_transition(s)])
    /\ made' = [made EXCEPT !.events = @ + 1]
    /\ UNCHANGED <<wl, client, since>>

PodStatusObs_removed(p) ==
    /\ p \in DOMAIN pods
    /\ pods' = [q \in DOMAIN pods \ {p} |-> pods[q]]
    /\ publish([of |-> p, status |-> "Reaped"])
    /\ made' = [made EXCEPT !.events = @ + 1]
    /\ UNCHANGED <<wl, client, since>>

-----------------------------------------------------------------------------
(* The stream sends the history it got, then what is published live.       *)
stream_events(historical) == [on |-> TRUE, history |-> historical, live |-> <<>>]

(* EventBusHandle::subscribe.                                              *)
subscribe ==
    /\ client.phase = "idle"
    /\ sub' = stream_events(ring)
    /\ client' = [client EXCEPT !.phase = "subscribed"]
    /\ since' = {wl}
    /\ UNCHANGED <<wl, pods, ring, made>>

sm_pod_status_to_client(s) == IF s = "Pending" THEN "Launching" ELSE s

(* The report is made of the state machines' signals, not of the events.   *)
(* Every pod here belongs to the workload; one that does not is left out.  *)
status_report ==
    [workload |-> wl, pods |-> [p \in DOMAIN pods |-> sm_pod_status_to_client(pods[p].status)]]

(* The report does not tell a placed pod from a new one.                   *)
convert_pod_state(s) ==
    CASE s = "Launching" -> "Created" [] s = "Finished" -> "Stopped" [] OTHER -> s

from_status(report) ==
    [report EXCEPT !.pods = [p \in DOMAIN @ |-> convert_pod_state(@[p])]]

\* Slip: the status is fetched before the events are subscribed to.
get_namespace_status_early ==
    /\ \/ /\ client.phase = "idle"
          /\ client' = [phase |-> "fetched", model |-> from_status(status_report)]
          /\ since' = {wl}
          /\ UNCHANGED sub
       \/ /\ client.phase = "fetched"
          /\ client' = [client EXCEPT !.phase = "watching"]
          /\ sub' = stream_events(<<>>)
          /\ UNCHANGED since
    /\ UNCHANGED <<wl, pods, ring, made>>

get_namespace_status ==
    /\ client.phase = "subscribed"
    /\ client' = [phase |-> "watching", model |-> from_status(status_report)]
    /\ UNCHANGED <<wl, pods, ring, sub, since, made>>

apply_workload_event(m, e) == [m EXCEPT !.workload = e.status]

(* An event about a pod the model does not know inserts it.                *)
apply_pod_event(m, e) ==
    IF e.status = "Reaped"
    THEN [m EXCEPT !.pods = [q \in DOMAIN @ \ {e.of} |-> @[q]]]
    ELSE [m EXCEPT !.pods =
            [q \in DOMAIN @ \cup {e.of} |-> IF q = e.of THEN e.status ELSE @[q]]]

apply_event(m, e) ==
    IF e.of = "workload" THEN apply_workload_event(m, e) ELSE apply_pod_event(m, e)

(* NamespaceWatcher::next: the next message, or the end of the stream.     *)
next ==
    /\ client.phase = "watching"
    /\ IF sub.history # <<>>
       THEN /\ client' = [client EXCEPT !.model = apply_event(@, Head(sub.history))]
            /\ sub' = [sub EXCEPT !.history = Tail(@)]
       ELSE IF sub.live # <<>>
       THEN /\ client' = [client EXCEPT !.model = apply_event(@, Head(sub.live))]
            /\ sub' = [sub EXCEPT !.live = Tail(@)]
       ELSE /\ ~sub.on
            /\ client' = [client EXCEPT !.phase = "ended"]
            /\ UNCHANGED sub
    /\ UNCHANGED <<wl, pods, ring, since, made>>

NInit ==
    /\ wl = CHOOSE s \in Statuses : TRUE
    /\ pods = <<>> /\ ring = <<>> /\ since = {}
    /\ sub = [on |-> FALSE, history |-> <<>>, live |-> <<>>]
    /\ client = [phase |-> "idle", model |-> [workload |-> wl, pods |-> <<>>]]
    /\ made = [events |-> 0, pods |-> {}]

NNext ==
    \/ \E s \in Statuses : WorkloadStatusObs_changed(s)
    \/ \E p \in Pods : \/ PodStatusObs_added(p) \/ PodWorkerObs_changed(p)
                     \/ PodStatusObs_changed(p) \/ PodStatusObs_removed(p)
    \/ subscribe \/ get_namespace_status \/ next

NSpec == NInit /\ [][NNext]_nVars

-----------------------------------------------------------------------------
(* What the model may show for a pod: a snapshot reports a placed pod as   *)
(* Created, the stream as Scheduled.                                       *)
Shown(status) == CASE status = "Pending" -> {"Created", "Scheduled"}
                   [] status = "Finished" -> {"Stopped"}
                   [] OTHER -> {status}

(* A watcher that has read everything agrees with the namespace: nothing   *)
(* falls between the snapshot and the stream, although the history it      *)
(* replays on the snapshot may be older or cut off by the ring (watcher.rs *)
(* "so that no events are lost between the snapshot and the stream").      *)
ReadUpMeansAgreed ==
    client.phase = "watching" /\ sub.on /\ sub.history = <<>> /\ sub.live = <<>> =>
        /\ client.model.workload = wl
        /\ DOMAIN client.model.pods = DOMAIN pods
        /\ \A p \in DOMAIN pods : client.model.pods[p] \in Shown(pods[p].status)

(* A started watcher shows a status the workload has had since the watcher *)
(* was started ("return a consistent watcher"), so wait_for never answers  *)
(* for a state that was over before it was called.                         *)
WatcherShowsNoOldState == client.phase = "watching" => client.model.workload \in since
=============================================================================
