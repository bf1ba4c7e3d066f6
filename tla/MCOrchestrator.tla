--------------------------- MODULE MCOrchestrator ---------------------------
(* Constant values of the orchestrator runs. *)
EXTENDS Orchestrator

MCTunnelled == {1}
MCOne == {<<"a", 1>>}
MCTwo == {<<"a", 1>>, <<"b", 2>>}
\* Calm, and above High; the memory score 45 is Elevated only after 60.
MCPsi == {[compute |-> 30, memory |-> 60, storage |-> 0],
          [compute |-> 90, memory |-> 45, storage |-> 0]}
=============================================================================
