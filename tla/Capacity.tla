------------------------------ MODULE Capacity ------------------------------
(***************************************************************************)
(* What a worker reports about its storage and its load: the capacity tick *)
(* and the PSI tick of the command loop (worker/mod.rs, resources.rs), and *)
(* what the orchestrator keeps of them.  One pool of Size units, so that   *)
(* one percent is Size \div 100 units; load is one PSI average in percent. *)
(* Readings move freely between the ticks.  Losing the connection starts a *)
(* new worker loop, which announces its pools in WorkerHello.              *)
(***************************************************************************)
EXTENDS Integers, Sequences

CONSTANTS Size, Free,       \* capacity, and the amounts that may be available
          Loads,            \* the values of the PSI average
          Soft, Hard        \* watermarks in percent used

VARIABLES free, load,       \* the readings of the host
          lastPools, lastPsi,   \* what was sent last: {} or {value}
          outbox,           \* events on the wire, in order
          told              \* the orchestrator's view

cVars == <<free, load, lastPools, lastPsi, outbox, told>>

Distance(a, b) == IF a > b THEN a - b ELSE b - a
UsedPercent(avail) == ((Size - avail) * 100) \div Size

\* WorkerHello carries the pools and no condition.
detect_capabilities == [avail |-> free, hard |-> FALSE, soft |-> FALSE, psi |-> {}]

CInit == /\ free \in Free /\ load \in Loads
         /\ lastPools = {} /\ lastPsi = {} /\ outbox = <<>>
         /\ told = detect_capabilities

\* pool_disk_stats and read_psi see whatever the host does meanwhile.
HostChanges == /\ \/ free' \in Free /\ UNCHANGED load
                  \/ load' \in Loads /\ UNCHANGED free
               /\ UNCHANGED <<lastPools, lastPsi, outbox, told>>

\* More than one percent of the capacity since the report that was sent last.
PoolsChanged == \A old \in lastPools : Distance(free, old) > Size \div 100


\* The conditions of both watermarks go first, then the pools.  The loop waits
\* for room in the writer's channel, so the last tick's events went out.
capacity_tick ==
    /\ outbox = <<>>
    /\ IF PoolsChanged
       THEN /\ outbox' = <<[key |-> "hard", value |-> UsedPercent(free) >= Hard],
                           [key |-> "soft", value |-> UsedPercent(free) >= Soft],
                           [key |-> "avail", value |-> free]>>
            /\ lastPools' = {free}
       ELSE UNCHANGED <<outbox, lastPools>>
    /\ UNCHANGED <<free, load, lastPsi, told>>

\* psi_changed_significantly: more than one percentage point.
PsiChanged == \A old \in lastPsi : Distance(load, old) > 1

psi_tick == /\ outbox = <<>>
            /\ IF PsiChanged
               THEN /\ outbox' = <<[key |-> "psi", value |-> {load}]>>
                    /\ lastPsi' = {load}
               ELSE UNCHANGED <<outbox, lastPsi>>
            /\ UNCHANGED <<free, load, lastPools, told>>

\* worker_state.rs keeps the last value of each.
Receive == /\ outbox # <<>>
           /\ told' = [told EXCEPT ![Head(outbox).key] = Head(outbox).value]
           /\ outbox' = Tail(outbox)
           /\ UNCHANGED <<free, load, lastPools, lastPsi>>

\* The connection is lost with what is in it, and made again.
Reconnect == /\ lastPools' = {} /\ lastPsi' = {} /\ outbox' = <<>>
             /\ told' = detect_capabilities
             /\ UNCHANGED <<free, load>>

CNext == HostChanges \/ capacity_tick \/ psi_tick \/ Receive \/ Reconnect

CSpec == CInit /\ [][CNext]_cVars
-----------------------------------------------------------------------------
=============================================================================
