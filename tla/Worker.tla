------------------------------- MODULE Worker -------------------------------
(***************************************************************************)
(* A worker process after its handshake: the main loop of Worker::run,     *)
(* which handles one command of the orchestrator at a time and between     *)
(* commands forwards the events of bg_event_rx, over the supervisor tasks  *)
(* of PodSupervisor and the namespaces' gateway and event-bridge tasks.    *)
(*                                                                         *)
(* namespaces[n] is "none", "up", "failing" (the gateway exited and its    *)
(* NamespaceFailed is sent) or "failed" (its token is cancelled too).      *)
(* pods are the keys of NamespaceState::pods, Home(p) the namespace of a   *)
(* pod.  main says what the loop awaits: "select", or inside a handler     *)
(* "send" (a slot of its own channel for the event in say), "stop",        *)
(* "reply", "destroy", "shutdown" (the supervisors in who), or "down".     *)
(* log[p] are the events about p forwarded to the orchestrator, as far as  *)
(* they tell the pod's story.  Commands are the orchestrator's choice; a   *)
(* pod id is launched or resumed once and asked to suspend MaxSuspends     *)
(* times, a namespace created MaxCreates times at most; asked counts both. *)
(***************************************************************************)
EXTENDS PodSupervisor, SequencesExt

CONSTANTS Namespaces, Home(_),  \* namespaces, and the one of each pod
          MaxSuspends, MaxCreates,
          Traffic               \* demand events the channel may hold
VARIABLES namespaces, pods, main, log, asked

vars == <<sup, bg, disk, namespaces, pods, main, log, asked>>

Idle == [at |-> "select", who |-> {}, say |-> <<>>]
Await(at, who) == [at |-> at, who |-> who, say |-> <<>>]
Say(kind, x) == [at |-> "send", who |-> {}, say |-> <<[kind |-> kind, pod |-> x]>>]

Init == /\ SupInit
        /\ namespaces = [n \in Namespaces |-> "none"]
        /\ pods = {}
        /\ main = Idle
        /\ log = [p \in Pods |-> <<>>]
        /\ asked = [x \in Pods \cup Namespaces |-> 0]

AbortAll(ps) == sup' = [p \in Pods |-> IF p \in ps THEN Aborted(sup[p]) ELSE sup[p]]
CancelAll(ps) == sup' = [p \in Pods |-> IF p \in ps THEN [sup[p] EXCEPT !.cancel = TRUE]
                                        ELSE sup[p]]
PodsOf(n) == {p \in pods : Home(p) = n}

(* A FatalError, a lost connection or a Shutdown command leaves the loop:  *)
(* shutdown_all cancels every token and awaits the supervisors.            *)
shutdown_all == /\ main' = Await("shutdown", pods)
                /\ CancelAll(pods)
                /\ pods' = {}
                /\ namespaces' = [n \in Namespaces |-> "none"]
                /\ UNCHANGED <<bg, disk, log, asked>>

shutdown == main.at = "select" /\ shutdown_all

FatalError(n) == main.at = "select" /\ namespaces[n] = "none" /\ shutdown_all

----------------------------------------------------------------------------
(* CreateNamespace: a namespace of the same id is replaced, and with it    *)
(* its pods are dropped; a gateway that cannot be created is fatal.        *)
handle_create_namespace(n) ==
  /\ main.at = "select" /\ asked[n] < MaxCreates
  /\ \/ shutdown_all
     \/ /\ asked' = [asked EXCEPT ![n] = @ + 1]
        /\ namespaces' = [namespaces EXCEPT ![n] = "up"]
        /\ AbortAll(PodsOf(n))
        /\ pods' = pods \ PodsOf(n)
        /\ main' = Say("NamespaceCreated", n)
        /\ UNCHANGED <<bg, disk, log>>

handle_destroy_namespace(n) ==
  /\ main.at = "select" /\ namespaces[n] # "none"
  /\ namespaces' = [namespaces EXCEPT ![n] = "none"]
  /\ CancelAll(PodsOf(n))
  /\ pods' = pods \ PodsOf(n)
  /\ main' = [at |-> "destroy", who |-> PodsOf(n),
              say |-> <<[kind |-> "NamespaceDestroyed", pod |-> n]>>]
  /\ UNCHANGED <<bg, disk, log, asked>>

(* The gateway task exits: it reports and then cancels the token. *)
gateway_exits(n) ==
  \/ /\ namespaces[n] = "up"
     /\ send_event("NamespaceFailed", n)
     /\ namespaces' = [namespaces EXCEPT ![n] = "failing"]
     /\ UNCHANGED <<sup, disk, pods, main, log, asked>>
  \/ /\ namespaces[n] = "failing"
     /\ namespaces' = [namespaces EXCEPT ![n] = "failed"]
     /\ CancelAll(PodsOf(n))
     /\ UNCHANGED <<bg, disk, pods, main, log, asked>>

(* The event bridge forwards demand of the fabric with try_send: a full    *)
(* channel drops it.                                                       *)
event_bridge(n) == /\ namespaces[n] # "none"
                   /\ Len(SelectSeq(bg, LAMBDA e : e.kind = "EndpointDemand")) < Traffic
                   /\ Len(bg) < BgCapacity
                   /\ bg' = Append(bg, [kind |-> "EndpointDemand", pod |-> n])
                   /\ UNCHANGED <<sup, disk, namespaces, pods, main, log, asked>>

----------------------------------------------------------------------------
(* The supervisor is spawned with a child of the namespace's token. *)
Spawn(p, how, pc) ==
  /\ sup' = [sup EXCEPT ![p] = [NoTask EXCEPT !.pc = pc, !.how = how,
                                  !.cancel = namespaces[Home(p)] = "failed"]]
  /\ pods' = pods \cup {p}
  /\ UNCHANGED <<bg, disk, namespaces, main, log, asked>>

handle_launch_pod(p) ==
  /\ main.at = "select" /\ sup[p].pc = "idle"
  /\ namespaces[Home(p)] # "none"
  /\ Spawn(p, "launch", "prepare")

(* ResumePod reads the snapshot's metadata first; an unknown pool or a     *)
(* missing or damaged snapshot is reported as PodFailed.                   *)
handle_resume_pod(p) ==
  /\ main.at = "select" /\ sup[p].pc = "idle"
  /\ namespaces[Home(p)] # "none"
  /\ \/ Spawn(p, "resume", "prepare")
     \/ /\ main' = Say("PodFailed", p)
        /\ sup' = [sup EXCEPT ![p].pc = "done"]   \* the pod id is used up
        /\ UNCHANGED <<bg, disk, namespaces, pods, log, asked>>

(* StopPod takes the pod out of the map: gracefully its token is cancelled *)
(* and the supervisor awaited, otherwise the supervisor is aborted.        *)
handle_stop_pod(p, graceful) ==
  /\ main.at = "select" /\ namespaces[Home(p)] # "none" /\ p \in pods
  /\ pods' = pods \ {p}
  /\ \/ graceful /\ CancelAll({p}) /\ main' = Await("stop", {p})
     \/ ~graceful /\ AbortAll({p}) /\ main' = main
  /\ UNCHANGED <<bg, disk, namespaces, log, asked>>

(* SuspendPod: an unknown pool, an unknown pod and a supervisor that has   *)
(* returned are answered with PodSuspendFailed through the loop's own      *)
(* channel; otherwise the request is mailed and its reply awaited.         *)
handle_suspend_pod(p) ==
  /\ main.at = "select" /\ namespaces[Home(p)] # "none"
  /\ asked[p] < MaxSuspends
  /\ Contains(log[p], "PodRunning")
  /\ asked' = [asked EXCEPT ![p] = @ + 1]
  /\ \/ /\ main' = Say("PodSuspendFailed", p)
        /\ UNCHANGED sup
     \/ /\ p \in pods /\ ~Ended(p)
        /\ main' = Await("reply", {p})
        /\ sup' = [sup EXCEPT ![p].mail = TRUE]
  /\ UNCHANGED <<bg, disk, namespaces, pods, log>>

handle_delete_artifact(p) == /\ main.at = "select" /\ p \in disk
                             /\ disk' = disk \ {p}
                             /\ UNCHANGED <<sup, bg, namespaces, pods, main, log, asked>>

----------------------------------------------------------------------------
(* What a handler awaits.  A supervisor is awaited for STOP_POD_TIMEOUT    *)
(* and then dropped, which aborts it; a suspend reply is awaited for as    *)
(* long as the supervisor lives.                                           *)

MayTimeOut(p) == sup[p].spent + Bound(sup[p].pc) >= STOP_POD_TIMEOUT

\* Slip: the handler gives up on the supervisor without dropping its handle.
joined_detached(p) == /\ main.at \in {"stop", "destroy", "shutdown"} /\ p \in main.who
                      /\ UNCHANGED sup
                      /\ Ended(p) \/ MayTimeOut(p)
                      /\ main' = [main EXCEPT !.who = @ \ {p}]
                      /\ UNCHANGED <<bg, disk, namespaces, pods, log, asked>>

joined(p) == /\ main.at \in {"stop", "destroy", "shutdown"} /\ p \in main.who
             /\ \/ Ended(p) /\ UNCHANGED sup
                \/ ~Ended(p) /\ MayTimeOut(p) /\ AbortAll({p})
             /\ main' = [main EXCEPT !.who = @ \ {p}]
             /\ UNCHANGED <<bg, disk, namespaces, pods, log, asked>>


replied(p) == /\ main.at = "reply" /\ p \in main.who
              /\ sup[p].reply # "none" \/ Ended(p)
              /\ main' = Idle
              /\ UNCHANGED <<sup, bg, disk, namespaces, pods, log, asked>>

returned ==
  /\ main.who = {}
  /\ \/ /\ main.at \in {"stop", "shutdown"}
        /\ main' = IF main.at = "stop" THEN Idle ELSE Await("down", {})
        /\ UNCHANGED bg
     \/ /\ main.at \in {"send", "destroy"}
        /\ send_event(main.say[1].kind, main.say[1].pod)
        /\ main' = Idle
  /\ UNCHANGED <<sup, disk, namespaces, pods, log, asked>>

(* An event of bg_event_rx is forwarded; one that ends a pod first takes   *)
(* the pod out of the map, and dropping its handle aborts a supervisor     *)
(* that is still running.                                                  *)
finishes == {"PodExited", "PodFailed", "PodSuspended", "PodSuspendFailed"}
story == finishes \cup {"PodRunning", "ArtifactWriteCommitted"}

\* Slip: the finished pod's handle is detached instead of dropped.
remove_finished_pod_detached(e) == UNCHANGED sup /\ pods' = pods \ {e.pod}

remove_finished_pod(e) == AbortAll({e.pod} \cap pods) /\ pods' = pods \ {e.pod}

forward_event ==
  /\ main.at = "select" /\ bg # <<>>
  /\ bg' = Tail(bg)
  /\ LET e == Head(bg)
     IN /\ IF e.kind \in finishes THEN remove_finished_pod(e) ELSE UNCHANGED <<sup, pods>>
        /\ log' = IF e.pod \in Pods /\ e.kind \in story THEN [log EXCEPT ![e.pod] = Append(@, e.kind)] ELSE log
  /\ UNCHANGED <<disk, namespaces, main, asked>>

----------------------------------------------------------------------------
Loop == (\E p \in Pods : joined(p) \/ replied(p)) \/ returned \/ forward_event

Exited == main.at = "down" /\ UNCHANGED vars

Next == \/ Loop
        \/ shutdown
        \/ Exited
        \/ \E n \in Namespaces : \/ FatalError(n) \/ handle_create_namespace(n)
                                 \/ handle_destroy_namespace(n)
                                 \/ gateway_exits(n) \/ event_bridge(n)
        \/ \E p \in Pods : \/ Supervisor(p) /\ UNCHANGED <<namespaces, pods, main, log, asked>>
                           \/ handle_launch_pod(p) \/ handle_resume_pod(p)
                           \/ \E g \in BOOLEAN : handle_stop_pod(p, g)
                           \/ handle_suspend_pod(p) \/ handle_delete_artifact(p)

(* The runtime schedules the main task and every supervisor; image pulls   *)
(* and calls to the VMM are taken to return.                               *)
Fairness == /\ WF_vars(Loop)
            /\ \A p \in Pods : WF_vars(Progress(p) /\ UNCHANGED <<namespaces, pods, main, log, asked>>)
            /\ \A n \in Namespaces : WF_vars(gateway_exits(n) /\ namespaces[n] = "failing")

Spec == Init /\ [][Next]_vars /\ Fairness

----------------------------------------------------------------------------
(* Properties *)

(* A VM runs only under a supervisor task that is alive and that somebody  *)
(* owns: the map of its namespace, or the handler that is waiting for it.  *)
(* So an aborted, forgotten or timed-out supervisor never leaves its child *)
(* process behind, and none survives the worker (task_handle.rs).  A child *)
(* counts from the moment its VmInstance owns it.                          *)
NoStrayVm == \A p \in Pods : sup[p].vm = "up" => ~Ended(p) /\ p \in pods \cup main.who

(* The orchestrator sees a pod's story in order: it runs once and before   *)
(* anything ends it, an artifact is committed before the pod is called     *)
(* suspended, and only a SuspendPod that came too late adds a second last  *)
(* event.                                                                  *)
StoryIsInOrder == \A p \in Pods :
  /\ \A i, j \in DOMAIN log[p] :
        i < j => /\ log[p][j] # "PodRunning"
                 /\ log[p][i] \in finishes => log[p][j] = "PodSuspendFailed"
                                              \/ log[p][i] = "PodSuspendFailed"
  /\ \A j \in DOMAIN log[p] : log[p][j] = "PodSuspended" =>
        \E i \in 1..(j - 1) : log[p][i] = "ArtifactWriteCommitted"


(* The comment on the timeouts of supervisor.rs:22: a graceful stop is     *)
(* given enough time for the graceful shutdown to complete before the      *)
(* supervisor is given up.                                                 *)
GracefulStopCompletes ==
  [][\A p \in Pods : main.at = "stop" /\ sup[p].pc \in {"stop", "drain", "shutdown"}
                     => sup'[p].pc # "gone"]_vars
=============================================================================
