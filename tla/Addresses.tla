----------------------------- MODULE Addresses -----------------------------
(***************************************************************************)
(* The addresses of one namespace: NamespaceIpAllocator (ip_alloc.rs), the *)
(* two specification operations that use it (inner.rs), and the            *)
(* WireGuardPeerManager (wg_peers.rs), which hands out addresses of the    *)
(* same subnet on its own.  An address is its offset from the first host,  *)
(* base + 2.  An input is, per resource, the empty set (an automatic       *)
(* address) or a singleton (the explicit one); its other fields carry no   *)
(* address and are left out.                                               *)
(***************************************************************************)
EXTENDS Integers, Sequences, FiniteSets, SequencesExt

CONSTANTS Resources,  \* the workloads and services
          Explicit,   \* offsets a user may write down
          Subnet,     \* number of addresses of the subnet
          WgReserve,  \* 10 in Namespace::new
          MaxPatch,   \* bound: resources one patch names
          MaxConnects, \* bound: addresses handed to peers
          Peers,      \* client public keys
          Gateways    \* workers that serve WireGuard

VARIABLES al,       \* the NamespaceIpAllocator
          current,  \* current_spec: none, or one map resource -> address
          wgNext,   \* next_host_offset, as an offset
          wgPeers   \* peers and wg_peer_ports: key -> address and worker
aVars == <<al, current, wgNext, wgPeers>>

Order == SetToSeq(Resources)  \* BTreeMap order: workloads, then services
Usable == Subnet - 2
NonWg == IF Usable > WgReserve THEN Usable - WgReserve ELSE 0
AutoZoneSize == NonWg \div 2
ManualZone == AutoZoneSize .. NonWg - 1
Empty == <<>>
Without(f, S) == [k \in DOMAIN f \ S |-> f[k]]
With(f, k, v) == [j \in DOMAIN f \cup {k} |-> IF j = k THEN v ELSE f[j]]

occupied(a) == {a.allocations[k].offset : k \in DOMAIN a.allocations}

\* Slip: the kind is not looked at, so explicit addresses join the free list.
release_any(a, k) ==
    IF k \notin DOMAIN a.allocations THEN a
    ELSE [a EXCEPT !.allocations = Without(@, {k}),
                   !.free = Append(@, a.allocations[k].offset)]

release(a, k) ==
    IF k \notin DOMAIN a.allocations THEN a
    ELSE [a EXCEPT !.allocations = Without(@, {k}),
                   !.free = IF a.allocations[k].auto
                            THEN Append(@, a.allocations[k].offset) ELSE @]

Granted(a, k, offset, auto) ==
    [ok |-> TRUE,
     al |-> [a EXCEPT !.allocations = With(@, k, [offset |-> offset, auto |-> auto])]]
Refused(a) == [ok |-> FALSE, al |-> a]

allocate_auto(a, k) ==
    LET unused == {c \in a.next .. AutoZoneSize - 1 : c \notin occupied(a)}
        candidate == CHOOSE c \in unused : \A d \in unused : c <= d
    IN IF a.free # <<>>
       THEN Granted([a EXCEPT !.free = Front(@)], k, Last(a.free), TRUE)
       ELSE IF unused = {} THEN Refused(a)
       ELSE Granted([a EXCEPT !.next = candidate + 1], k, candidate, TRUE)

allocate_manual(a, k, offset) ==
    IF offset \notin ManualZone \/ offset \in occupied(a)
    THEN Refused(a)
    ELSE Granted(a, k, offset, FALSE)

(* An existing allocation is kept, whatever explicit address is asked for. *)
allocate(a, k, explicit) ==
    IF k \in DOMAIN a.allocations
    THEN [ok |-> a.allocations[k].auto = (explicit = {}), al |-> a]
    ELSE IF explicit = {} THEN allocate_auto(a, k)
    ELSE allocate_manual(a, k, CHOOSE o \in explicit : TRUE)

(* The loops over workloads and services; the first error ends them, and   *)
(* what they allocated before stays.                                       *)
resolve_spec_input(a, input) ==
    FoldLeft(LAMBDA r, k : IF ~r.ok \/ k \notin DOMAIN input THEN r
                           ELSE allocate(r.al, k, input[k]),
             [ok |-> TRUE, al |-> a], Order)

Released(a, S) == FoldLeft(LAMBDA b, k : IF k \in S THEN release(b, k) ELSE b, a, Order)
Live == IF current = {} THEN Empty ELSE CHOOSE m \in current : TRUE
AddressesIn(a, S) == [k \in S |-> a.allocations[k].offset]

Inputs == UNION {[S -> {{}} \cup {{o} : o \in Explicit}] : S \in SUBSET Resources}

apply_full_spec(input) ==
    LET gone == DOMAIN Live \ DOMAIN input
        r == resolve_spec_input(Released(al, gone), input)
    IN /\ al' = r.al
       /\ current' = IF r.ok THEN {AddressesIn(r.al, DOMAIN input)} ELSE current
       /\ UNCHANGED <<wgNext, wgPeers>>

(* Without a current specification a patch is refused.                     *)
apply_patch(input, removed) ==
    LET r == resolve_spec_input(Released(al, removed), input)
        kept == Without(Live, removed \cup DOMAIN input)
    IN /\ current # {}
       /\ al' = r.al
       /\ current' = IF r.ok THEN {AddressesIn(r.al, DOMAIN input) @@ kept} ELSE current
       /\ UNCHANGED <<wgNext, wgPeers>>

(* connect is idempotent; otherwise the cursor moves down, to host 2.      *)
connect(key, worker) ==
    IF key \in DOMAIN wgPeers \/ wgNext < 0
    THEN UNCHANGED <<wgNext, wgPeers>>
    ELSE /\ wgPeers' = With(wgPeers, key, [ip |-> wgNext, worker |-> worker])
         /\ wgNext' = wgNext - 1

(* handle_connect_network: some worker with WireGuard, then the namespace. *)
handle_connect_network(key) ==
    /\ wgNext > Subnet - 4 - MaxConnects \/ key \in DOMAIN wgPeers
    /\ \E w \in Gateways : connect(key, w)
    /\ UNCHANGED <<al, current>>

handle_wg_disconnect(key) ==
    /\ wgPeers' = Without(wgPeers, {key})
    /\ UNCHANGED <<al, current, wgNext>>

AInit ==
    /\ al = [allocations |-> Empty, free |-> <<>>, next |-> 0]
    /\ current = {}
    /\ wgNext = Subnet - 4
    /\ wgPeers = Empty

ANext ==
    \/ \E input \in Inputs : apply_full_spec(input)
    \/ \E input \in Inputs, removed \in SUBSET Resources :
           Cardinality(removed \cup DOMAIN input) <= MaxPatch /\ apply_patch(input, removed)
    \/ \E key \in Peers : handle_connect_network(key) \/ handle_wg_disconnect(key)

ASpec == AInit /\ [][ANext]_aVars

-----------------------------------------------------------------------------
(* The allocator never has one address twice, and never has an address     *)
(* both handed out and on the free list: release, allocate_auto and        *)
(* allocate_manual keep allocations, occupied_offsets and auto_free_list   *)
(* apart through every order of updates, failed ones included.             *)
AllocationsAreDistinct ==
    LET given == DOMAIN al.allocations
    IN /\ \A j, k \in given : al.allocations[j].offset = al.allocations[k].offset => j = k
       /\ Range(al.free) \cap occupied(al) = {}
       /\ Cardinality(Range(al.free)) = Len(al.free)

(* No two resources of the current specification share an address          *)
(* (ip_alloc.rs: "preventing collisions by construction").                 *)
SpecAddressesAreDistinct ==
    \A j, k \in DOMAIN Live : Live[j] = Live[k] => j = k

(* A WireGuard peer's address lies in the zone reserved for peers.         *)
PeersStayInTheirZone == \A k \in DOMAIN wgPeers : wgPeers[k].ip >= NonWg
=============================================================================
