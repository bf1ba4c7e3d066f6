------------------------------ MODULE Announce ------------------------------
(***************************************************************************)
(* What a namespace tells its workers: the services' endpoints, the DNS    *)
(* registry and the WireGuard peers.  A cycle of the namespace (inner.rs)  *)
(* turns what changed into actions (incremental_diff of the router, the    *)
(* endpoint and DNS adapters) and these into commands, broadcast to the    *)
(* active workers; a worker that becomes active is sent the caches.  The   *)
(* specification operations and the address allocator are those of         *)
(* Addresses; every resource here is a service, whose endpoint is created  *)
(* and destroyed in the cycle of the specification that adds or removes    *)
(* it.  A worker's table is what its commands make of it, address by       *)
(* address; what the fabric does with an entry is module Fabric's.         *)
(* The caches also stand for the router's record of what it last           *)
(* delivered to the two ports.                                             *)
(***************************************************************************)
EXTENDS Addresses

CONSTANTS Workers,    \* ids of worker connections; an id is never used again
          Activated,  \* the services with activation
          MaxQueue    \* bound: commands waiting for a worker when another change comes

VARIABLES worker,     \* absent, pending, active or gone
          queue,      \* commands on their way to a worker, in order
          answered,   \* workers whose NamespaceCreated is on its way back
          backend,    \* service -> the worker of its ready backend, if any
          endpoint_cache, wg_peer_cache, dns_cache,
          table,      \* worker -> its endpoints: address -> specification
          names,      \* worker -> its registry: name -> address
          peers       \* worker -> the WireGuard peers added to it
hereVars == <<worker, queue, answered, backend, endpoint_cache, wg_peer_cache,
              dns_cache, table, names, peers>>
nVars == <<aVars, hereVars>>

Connected == {w \in Workers : worker[w] \in {"pending", "active"}}
ActiveOf(ws) == {w \in Workers : ws[w] = "active"}

(* update_status_signals: a service with activation is announced from the  *)
(* start, any other once it has a ready backend.                           *)
endpoint_info(live, bs) ==
    [k \in {s \in DOMAIN live : s \in Activated \/ bs[s] # {}} |->
        [ip |-> live[k], at |-> bs[k]]]

(* The endpoint aggregator: Update for what is new or says something else, *)
(* whatever it said before, Remove with what was said last.                *)
changed(kind, k, info) == [kind |-> kind, op |-> "update", id |-> k, info |-> info]
removed(kind, k, old) == [kind |-> kind, op |-> "remove", id |-> k, info |-> old]

(* What was added or changed comes first, then what was removed.           *)
incremental_diff(prev, cur, kind) ==
       SetToSeq({changed(kind, k, cur[k]) :
                    k \in {j \in DOMAIN cur : j \notin DOMAIN prev \/ prev[j] # cur[j]}})
    \o SetToSeq({removed(kind, k, prev[k]) : k \in DOMAIN prev \ DOMAIN cur})

(* The DNS aggregator: a service's name is its id and never changes.       *)
dns_actions(live) == incremental_diff(dns_cache, live, "name")

(* reconcile of the two adapters: the caches follow the actions.           *)
reconcile(cache, actions) ==
    FoldLeft(LAMBDA c, a : IF a.op = "update" THEN With(c, a.id, a.info)
                           ELSE Without(c, {a.id}),
             cache, actions)

build_endpoint_spec_from_info(info, kind) ==
    [ip |-> info.ip, kind |-> kind, at |-> info.at]

build_endpoint_command(a) ==
    [cmd |-> "EndpointUpdate",
     upserted |-> IF a.op = "update" THEN {build_endpoint_spec_from_info(a.info, a.kind)} ELSE {},
     removed |-> IF a.op = "remove" THEN {a.info.ip} ELSE {}]

build_registry_command(actions) ==
    [cmd |-> "RegistryUpdate",
     added |-> {<<a.id, a.info>> : a \in {x \in Range(actions) : x.op = "update"}},
     removed |-> {a.id : a \in {x \in Range(actions) : x.op = "remove"}}]

(* collect_effects: one command per endpoint action, in order, a removed   *)
(* peer followed by RemoveWireGuardPeer, and one for the registry.         *)
broadcast_commands(actions, dns) ==
       FoldLeft(LAMBDA cs, a :
                    Append(cs, build_endpoint_command(a))
                    \o IF a.kind = "peer" /\ a.op = "remove"
                       THEN <<[cmd |-> "RemoveWireGuardPeer", key |-> a.id]>> ELSE <<>>,
                <<>>, actions)
    \o IF dns = <<>> THEN <<>> ELSE <<build_registry_command(dns)>>

worker_commands(actions, w) ==
    FoldLeft(LAMBDA cs, a :
                 IF a.kind = "peer" /\ a.op = "update" /\ a.info.at = {w}
                 THEN Append(cs, [cmd |-> "AddWireGuardPeer", key |-> a.id]) ELSE cs,
             <<>>, actions)

PeerInfo(ps) == [k \in DOMAIN ps |-> [ip |-> ps[k].ip, at |-> {ps[k].worker}]]

(* run_cycle and route_namespace_output, after the specification, the      *)
(* peers or the backends changed: first the broadcasts to the active       *)
(* workers, then the targeted commands, to workers that have a connection. *)
run_cycle(live, ps, bs, ws) ==
    LET actions == incremental_diff(endpoint_cache, endpoint_info(live, bs), "service")
                   \o incremental_diff(wg_peer_cache, PeerInfo(ps), "peer")
        dns == dns_actions(live)
        Of(kind) == SelectSeq(actions, LAMBDA a : a.kind = kind)
    IN /\ endpoint_cache' = reconcile(endpoint_cache, Of("service"))
       /\ wg_peer_cache' = reconcile(wg_peer_cache, Of("peer"))
       /\ dns_cache' = reconcile(dns_cache, dns)
       /\ queue' = [w \in Workers |->
             IF ws[w] \notin {"pending", "active"} THEN <<>>
             ELSE queue[w]
                  \o (IF ws[w] = "active" THEN broadcast_commands(actions, dns) ELSE <<>>)
                  \o worker_commands(actions, w)]
-----------------------------------------------------------------------------
NextLive == IF current' = {} THEN Empty ELSE CHOOSE m \in current' : TRUE

(* A removed service takes its endpoint and its backend with it.           *)
spec_applied ==
    /\ backend' = [k \in Resources |-> IF k \in DOMAIN NextLive THEN backend[k] ELSE {}]
    /\ run_cycle(NextLive, wgPeers, backend', worker)
    /\ UNCHANGED <<worker, answered, table, names, peers>>

client_spec ==
    /\ \/ \E input \in Inputs : apply_full_spec(input)
       \/ \E input \in Inputs, gone \in SUBSET Resources :
              Cardinality(gone \cup DOMAIN input) <= MaxPatch /\ apply_patch(input, gone)
    /\ spec_applied

(* handle_client_command, Connect: the worker is one that has a slot.      *)
client_connect(key) ==
    /\ handle_connect_network(key)
    /\ \A k \in DOMAIN wgPeers' \ DOMAIN wgPeers : wgPeers'[k].worker \in Connected
    /\ run_cycle(Live, wgPeers', backend, worker)
    /\ UNCHANGED <<worker, answered, backend, table, names, peers>>

client_disconnect(key) ==
    /\ handle_wg_disconnect(key)
    /\ run_cycle(Live, wgPeers', backend, worker)
    /\ UNCHANGED <<worker, answered, backend, table, names, peers>>

(* The workload behind a service becomes ready on a worker, or stops.      *)
readiness(k, at) ==
    /\ k \in DOMAIN Live /\ at # backend[k]
    /\ backend' = [backend EXCEPT ![k] = at]
    /\ run_cycle(Live, wgPeers, backend', worker)
    /\ UNCHANGED <<aVars, worker, answered, table, names, peers>>

(* WorkerConnected, with CreateNamespace on its way to the worker.         *)
worker_connected(w) ==
    /\ worker[w] = "absent"
    /\ worker' = [worker EXCEPT ![w] = "pending"]
    /\ queue' = [queue EXCEPT ![w] = <<[cmd |-> "CreateNamespace"]>>]
    /\ UNCHANGED <<aVars, answered, backend, endpoint_cache, wg_peer_cache, dns_cache,
                   table, names, peers>>

(* WorkerDisconnected: what ran there is displaced; its peers keep it.     *)
worker_disconnected(w) ==
    /\ w \in Connected
    /\ worker' = [worker EXCEPT ![w] = "gone"]
    /\ answered' = answered \ {w}
    /\ backend' = [k \in Resources |-> backend[k] \ {w}]
    /\ run_cycle(Live, wgPeers, backend', worker')
    /\ table' = [table EXCEPT ![w] = Empty]
    /\ names' = [names EXCEPT ![w] = Empty]
    /\ peers' = [peers EXCEPT ![w] = {}]
    /\ UNCHANGED aVars

build_endpoint_sync ==
    [cmd |-> "EndpointSync",
     endpoints |-> {build_endpoint_spec_from_info(endpoint_cache[k], "service") :
                        k \in DOMAIN endpoint_cache}
                   \cup {build_endpoint_spec_from_info(wg_peer_cache[k], "peer") :
                        k \in DOMAIN wg_peer_cache}]

build_sync == [cmd |-> "RegistrySync", entries |-> dns_cache]

PeersPlacedOn(w) == {k \in DOMAIN wg_peer_cache : wg_peer_cache[k].at = {w}}

\* Slip: names are left to the updates that follow.
handle_namespace_created_nameless(w) ==
    /\ w \in answered
    /\ answered' = answered \ {w}
    /\ worker' = [worker EXCEPT ![w] = "active"]
    /\ queue' = [queue EXCEPT ![w] = @ \o <<build_endpoint_sync>>
                    \o SetToSeq({[cmd |-> "AddWireGuardPeer", key |-> k] : k \in PeersPlacedOn(w)})]
    /\ UNCHANGED <<aVars, backend, endpoint_cache, wg_peer_cache, dns_cache, table, names, peers>>

(* The worker becomes active and is sent both caches, unless they are      *)
(* empty, and the peers placed on it.                                      *)
handle_namespace_created(w) ==
    /\ w \in answered
    /\ answered' = answered \ {w}
    /\ worker' = [worker EXCEPT ![w] = "active"]
    /\ queue' = [queue EXCEPT ![w] = @
          \o (IF DOMAIN dns_cache = {} THEN <<>> ELSE <<build_sync>>)
          \o (IF build_endpoint_sync.endpoints = {} THEN <<>> ELSE <<build_endpoint_sync>>)
          \o SetToSeq({[cmd |-> "AddWireGuardPeer", key |-> k] : k \in PeersPlacedOn(w)})]
    /\ UNCHANGED <<aVars, backend, endpoint_cache, wg_peer_cache, dns_cache, table, names, peers>>

-----------------------------------------------------------------------------
(* The worker.                                                             *)
ByAddress(S) == [ip \in {s.ip : s \in S} |-> CHOOSE s \in S : s.ip = ip]

apply_endpoint_sync(endpoints) == ByAddress(endpoints)
apply_endpoint_update(t, upserted, gone) == ByAddress(upserted) @@ Without(t, gone)
registry_sync(entries) == entries

registry_update(m, added, gone) ==
    [n \in {p[1] : p \in added} |-> (CHOOSE p \in added : p[1] = n)[2]] @@ Without(m, gone)

handle_command(w) ==
    /\ queue[w] # <<>>
    /\ LET c == Head(queue[w])
       IN /\ answered' = IF c.cmd = "CreateNamespace" THEN answered \cup {w} ELSE answered
          /\ table' = [table EXCEPT ![w] =
                CASE c.cmd = "EndpointSync" -> apply_endpoint_sync(c.endpoints)
                  [] c.cmd = "EndpointUpdate" -> apply_endpoint_update(@, c.upserted, c.removed)
                  [] OTHER -> @]
          /\ names' = [names EXCEPT ![w] =
                CASE c.cmd = "RegistrySync" -> registry_sync(c.entries)
                  [] c.cmd = "RegistryUpdate" -> registry_update(@, c.added, c.removed)
                  [] OTHER -> @]
          /\ peers' = [peers EXCEPT ![w] =
                CASE c.cmd = "AddWireGuardPeer" -> @ \cup {c.key}
                  [] c.cmd = "RemoveWireGuardPeer" -> @ \ {c.key}
                  [] OTHER -> @]
    /\ queue' = [queue EXCEPT ![w] = Tail(@)]
    /\ UNCHANGED <<aVars, worker, backend, endpoint_cache, wg_peer_cache, dns_cache>>

-----------------------------------------------------------------------------
NInit ==
    /\ AInit
    /\ worker = [w \in Workers |-> "absent"]
    /\ queue = [w \in Workers |-> <<>>]
    /\ answered = {}
    /\ backend = [k \in Resources |-> {}]
    /\ endpoint_cache = Empty /\ wg_peer_cache = Empty /\ dns_cache = Empty
    /\ table = [w \in Workers |-> Empty]
    /\ names = [w \in Workers |-> Empty]
    /\ peers = [w \in Workers |-> {}]

(* MaxQueue bounds how far a worker falls behind.                          *)
NNext ==
    \/ /\ \A w \in Workers : Len(queue[w]) < MaxQueue
       /\ \/ client_spec
          \/ \E key \in Peers : client_connect(key) \/ client_disconnect(key)
          \/ \E k \in Resources, at \in {{}} \cup {{w} : w \in ActiveOf(worker)} : readiness(k, at)
    \/ \E w \in Workers :
          worker_connected(w) \/ worker_disconnected(w)
            \/ handle_namespace_created(w) \/ handle_command(w)

NSpec == NInit /\ [][NNext]_nVars

-----------------------------------------------------------------------------
(* A worker that is active and has no command waiting has the names of the *)
(* registry, and the WireGuard peers placed on it, whatever broadcasts     *)
(* went out while CreateNamespace and its answer were on their way         *)
(* (handle_namespace_created against collect_effects).                     *)
ActiveWorkersAreCurrent ==
    \A w \in ActiveOf(worker) :
        queue[w] = <<>> => names[w] = dns_cache /\ PeersPlacedOn(w) \subseteq peers[w]

(* The endpoint table of such a worker is the one EndpointSync would give  *)
(* it (docs/core/worker-protocol.md:150, "to keep each worker's endpoint   *)
(* table in sync").                                                        *)
EndpointTablesAreInSync ==
    \A w \in ActiveOf(worker) :
        queue[w] = <<>> => table[w] = ByAddress(build_endpoint_sync.endpoints)
=============================================================================
