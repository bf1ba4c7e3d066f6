------------------------------ MODULE Gateway ------------------------------
(***************************************************************************)
(* The output gateways of a worker (fabric/gateway): for each namespace a  *)
(* task with a TUN device for the way out, an IP stack for its own address *)
(* and a DNS forwarder, joined to the fabric by two channels.  Namespaces  *)
(* use the same subnet unless their specification says otherwise           *)
(* (client/src/spec/convert.rs), so they share the host's one iptables     *)
(* MASQUERADE rule, which is what `rules' counts.  A packet is what the    *)
(* gateway tells apart: its own address, a pod of the subnet, the internet,*)
(* or too short to be a packet.  The resolver and iptables are external.   *)
(***************************************************************************)
EXTENDS Naturals, Sequences, FiniteSets

CONSTANTS Namespaces, Names,
          Buffer,            \* CHANNEL_BUF
          MaxLookups, MaxChanges

VARIABLES gw,       \* namespace -> {} or {its running gateway}
          rules,    \* MASQUERADE rules of the subnet on the host
          registry, \* namespace -> names it resolves itself
          egress,   \* namespace -> packets from the fabric
          ingress,  \* namespace -> number of packets to the fabric
          lookups,  \* namespace -> names being looked up upstream
          results,  \* namespace -> their results, in order
          changes
gVars == <<gw, rules, registry, egress, ingress, lookups, results, changes>>
chans == <<registry, egress, ingress, lookups, results>>

Running(n) == gw[n] # {}
\* The loop is at its select, with no packet it waits to pass on.
Selecting(n) == \E g \in gw[n] : ~g.held

GInit == /\ gw = [n \in Namespaces |-> {}] /\ rules = 0 /\ changes = 0
         /\ registry = [n \in Namespaces |-> {}]
         /\ egress = [n \in Namespaces |-> <<>>] /\ ingress = [n \in Namespaces |-> 0]
         /\ lookups = [n \in Namespaces |-> {}] /\ results = [n \in Namespaces |-> <<>>]

\* iptables -C, then -A unless it is there: either way the gateway believes
\* the rule is its own.  Failing is only logged.
setup_masquerade(ok) == /\ rules' = IF ok /\ rules = 0 THEN 1 ELSE rules

\* MasqueradeRule::drop: iptables -D, whoever added the rule.
drop_masquerade(g) == rules' = IF g.nat /\ rules > 0 THEN rules - 1 ELSE rules

\* TunEgress::new and FabricGateway::new_with_egress for a new namespace.
new_with_egress(n) ==
    /\ ~Running(n) /\ changes < MaxChanges /\ changes' = changes + 1
    /\ \E ok \in BOOLEAN : setup_masquerade(ok) /\ gw' = [gw EXCEPT ![n] = {[nat |-> ok, held |-> FALSE]}]
    /\ UNCHANGED chans

\* The run loop ends, or the namespace is dropped and its task with it: the
\* channels, the lookups' results and the TUN device go.
Stop(n) == /\ \E g \in gw[n] : drop_masquerade(g)
           /\ gw' = [gw EXCEPT ![n] = {}]
           /\ registry' = [registry EXCEPT ![n] = {}]
           /\ egress' = [egress EXCEPT ![n] = <<>>] /\ ingress' = [ingress EXCEPT ![n] = 0]
           /\ lookups' = [lookups EXCEPT ![n] = {}] /\ results' = [results EXCEPT ![n] = <<>>]
           /\ UNCHANGED changes

destroy_namespace(n) == Running(n) /\ Stop(n)
-----------------------------------------------------------------------------
\* The fabric hands a packet over if there is room (forwarding.rs).
from_fabric(n, p) ==
    /\ Running(n) /\ Len(egress[n]) < Buffer
    /\ egress' = [egress EXCEPT ![n] = Append(@, p)]
    /\ UNCHANGED <<gw, rules, registry, ingress, lookups, results, changes>>

\* poll_and_drain: what the stack says goes to the fabric, or is dropped.
Answered(n) == ingress' = [ingress EXCEPT ![n] = IF @ < Buffer THEN @ + 1 ELSE @]

\* A packet to the gateway's own address is a DNS query for one of Names; a
\* name of the registry is answered at once, any other is looked up.
process_queries(n, name) ==
    IF name \in registry[n]
    THEN Answered(n) /\ UNCHANGED lookups
    ELSE lookups' = [lookups EXCEPT ![n] = @ \cup {name}] /\ UNCHANGED ingress

egress_packet(n) ==
    /\ Selecting(n) /\ egress[n] # <<>>
    /\ egress' = [egress EXCEPT ![n] = Tail(@)]
    /\ IF Head(egress[n]) \in Names
       THEN process_queries(n, Head(egress[n]))
       ELSE UNCHANGED <<ingress, lookups>>   \* write_egress: out through the TUN
    /\ UNCHANGED <<gw, rules, registry, results, changes>>

\* The resolver is done; its task waits for room in the result channel.
resolved(n, name) ==
    /\ name \in lookups[n] /\ Len(results[n]) < MaxLookups
    /\ lookups' = [lookups EXCEPT ![n] = @ \ {name}]
    /\ results' = [results EXCEPT ![n] = Append(@, name)]
    /\ UNCHANGED <<gw, rules, registry, egress, ingress, changes>>

write_result(n) ==
    /\ Selecting(n) /\ results[n] # <<>> /\ results' = [results EXCEPT ![n] = Tail(@)]
    /\ Answered(n)
    /\ UNCHANGED <<gw, rules, registry, egress, lookups, changes>>

\* A packet from the internet is for a pod, or for another subnet and dropped.
read_ingress_frame(n, p) ==
    /\ Selecting(n)
    /\ \/ /\ p = "pod" /\ gw' = [gw EXCEPT ![n] = {[g EXCEPT !.held = TRUE] : g \in @}]
          /\ UNCHANGED <<rules, chans, changes>>
       \* None: the device is closed, or build_ingress_frame found less than
       \* an IP header.
       \/ p \in {"eof", "short"} /\ Stop(n)

\* ingress_tx.send waits for room, and the loop with it.
send_ingress(n) ==
    /\ Running(n) /\ ~Selecting(n) /\ ingress[n] < Buffer
    /\ ingress' = [ingress EXCEPT ![n] = @ + 1]
    /\ gw' = [gw EXCEPT ![n] = {[g EXCEPT !.held = FALSE] : g \in @}]
    /\ UNCHANGED <<rules, registry, egress, lookups, results, changes>>

gateway_ingress_task(n) ==
    /\ ingress[n] > 0 /\ ingress' = [ingress EXCEPT ![n] = @ - 1]
    /\ UNCHANGED <<gw, rules, registry, egress, lookups, results, changes>>

\* RegistrySync replaces the names, RegistryUpdate removes and adds some.
registry_sync(n, S) ==
    /\ Running(n) /\ registry' = [registry EXCEPT ![n] = S]
    /\ UNCHANGED <<gw, rules, egress, ingress, lookups, results, changes>>

registry_update(n, removed, added) ==
    /\ Running(n) /\ registry' = [registry EXCEPT ![n] = (@ \ removed) \cup added]
    /\ UNCHANGED <<gw, rules, egress, ingress, lookups, results, changes>>
-----------------------------------------------------------------------------
GNext == \E n \in Namespaces :
    \/ new_with_egress(n) \/ destroy_namespace(n)
    \/ \E p \in Names \cup {"internet"} : from_fabric(n, p)
    \/ egress_packet(n) \/ write_result(n) \/ gateway_ingress_task(n)
    \/ \E name \in Names : resolved(n, name)
    \/ \E p \in {"pod", "eof", "short"} : read_ingress_frame(n, p)
    \/ send_ingress(n)
    \/ \E S \in SUBSET Names : registry_sync(n, S) \/ registry_update(n, S, {})

GSpec == GInit /\ [][GNext]_gVars
-----------------------------------------------------------------------------
\* A gateway that set its MASQUERADE rule up has it for as long as it runs:
\* the packets of its pods leave the host with the host's address.
NatWhileRunning ==
    \A n \in Namespaces : \A g \in gw[n] : g.nat => rules > 0
=============================================================================
