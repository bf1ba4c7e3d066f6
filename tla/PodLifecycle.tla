---------------------------- MODULE PodLifecycle ----------------------------
(***************************************************************************)
(* What a pod promises its owner: the linear lifecycle drawn in the header *)
(* of crates/orchestrator/src/sm/pod.rs. A status never comes back, a      *)
(* terminal status is final, and a pod is gone only after it has reached   *)
(* one.                                                                    *)
(***************************************************************************)
VARIABLES status, gone

vars == <<status, gone>>

Live == {"Pending", "Running", "Suspending"}
Dead == {"Suspended", "Finished", "Failed", "Displaced"}

Init == status = "Pending" /\ gone = FALSE

(* A step that ends in a terminal status may also reap the pod.            *)
Advance(from, to) ==
  /\ ~gone
  /\ status \in from
  /\ status' \in to
  /\ gone' \in (IF status' \in Dead THEN BOOLEAN ELSE {FALSE})

Run       == Advance({"Pending"}, {"Running"})
Suspend   == Advance({"Running"}, {"Suspending"})
Suspended == Advance({"Suspending"}, {"Suspended"})
Die       == Advance(Live, {"Finished", "Failed", "Displaced"})
Reap      == ~gone /\ status \in Dead /\ gone' = TRUE /\ UNCHANGED status

Next == Run \/ Suspend \/ Suspended \/ Die \/ Reap

Spec == Init /\ [][Next]_vars
=============================================================================
