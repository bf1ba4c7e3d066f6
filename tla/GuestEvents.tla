---------------------------- MODULE GuestEvents ----------------------------
(***************************************************************************)
(* How what happens in a guest reaches the orchestrator: EventDispatch     *)
(* folds the guest's event stream into one EventDispatchState behind a     *)
(* watch channel, which keeps the last value only; the pod monitor wakes   *)
(* on a change, clones the state and lets StateTracker turn the difference *)
(* with what it saw last into worker events.                               *)
(*                                                                         *)
(* guest is the EventDispatchState, fresh the watch channel's unseen mark, *)
(* awake a monitor between changed() and borrow(), tracker the             *)
(* StateTracker, told what the worker events sent so far amount to and     *)
(* outcome the MonitorOutcome.                                             *)
(***************************************************************************)
EXTENDS Naturals

CONSTANTS Sizes,   \* balloon sizes a guest asks for
          MaxOom   \* OOM kills of a guest
VARIABLES guest, fresh, awake, tracker, told, outcome

geVars == <<guest, fresh, awake, tracker, told, outcome>>

Nothing == [balloon |-> 0, constrained |-> FALSE, oom |-> 0]

Init == /\ guest = [balloon |-> 0, constrained |-> FALSE, oom |-> 0,
                    exited |-> FALSE, failed |-> FALSE, closed |-> FALSE]
        /\ fresh = FALSE /\ awake = FALSE
        /\ tracker = Nothing
        /\ told = Nothing
        /\ outcome = "none"

(* EventDispatch::spawn: one arm for each event; the task ends with the    *)
(* stream, and it may still run after the monitor has left its loop.       *)
send_modify(g) == /\ ~guest.closed
                  /\ guest' = g
                  /\ fresh' = TRUE
                  /\ UNCHANGED <<awake, tracker, told, outcome>>

container_exited == ~guest.exited /\ send_modify([guest EXCEPT !.exited = TRUE])
balloon_set(n) == n # guest.balloon /\ send_modify([guest EXCEPT !.balloon = n])
task_error == ~guest.failed /\ send_modify([guest EXCEPT !.failed = TRUE])
memory_constrained(b) == b # guest.constrained /\ send_modify([guest EXCEPT !.constrained = b])
oom_kill(n) == guest.oom + n <= MaxOom /\ send_modify([guest EXCEPT !.oom = @ + n])
stream_ends == send_modify([guest EXCEPT !.closed = TRUE])

changed == /\ outcome = "none" /\ ~awake
           /\ fresh \/ guest.closed
           /\ awake' = TRUE /\ fresh' = FALSE
           /\ UNCHANGED <<guest, tracker, told, outcome>>

\* Slip: the number of kills seen last is not remembered.
process_forgets ==
  IF guest.failed \/ guest.exited
  THEN /\ outcome' = IF guest.failed THEN "fatal" ELSE "exited"
       /\ UNCHANGED <<tracker, told>>
  ELSE /\ told' = [balloon |-> guest.balloon, constrained |-> guest.constrained,
                   oom |-> told.oom + (guest.oom - tracker.oom)]
       /\ tracker' = [balloon |-> guest.balloon, constrained |-> guest.constrained,
                      oom |-> tracker.oom]
       /\ outcome' = IF guest.closed THEN "fatal" ELSE "none"

(* StateTracker::process: a task error, then an exit end the pod before    *)
(* anything is compared; a closed stream ends it after.                    *)
process ==
  IF guest.failed \/ guest.exited
  THEN /\ outcome' = IF guest.failed THEN "fatal" ELSE "exited"
       /\ UNCHANGED <<tracker, told>>
  ELSE /\ told' = [balloon |-> IF guest.balloon # tracker.balloon
                               THEN guest.balloon ELSE told.balloon,
                   constrained |-> IF guest.constrained # tracker.constrained
                                   THEN guest.constrained ELSE told.constrained,
                   oom |-> told.oom + (guest.oom - tracker.oom)]
       /\ tracker' = [f \in DOMAIN Nothing |-> guest[f]]
       /\ outcome' = IF guest.closed THEN "fatal" ELSE "none"

borrow == /\ awake /\ awake' = FALSE
          /\ process
          /\ UNCHANGED <<guest, fresh>>

Finished == outcome # "none" /\ guest.closed /\ UNCHANGED geVars

Next == \/ Finished
        \/ container_exited \/ task_error \/ stream_ends
        \/ \E n \in Sizes : balloon_set(n)
        \/ \E b \in BOOLEAN : memory_constrained(b)
        \/ \E n \in 1..MaxOom : oom_kill(n)
        \/ changed \/ borrow

----------------------------------------------------------------------------
(* Whatever changes the watch channel swallowed, once the monitor has seen *)
(* the last one the orchestrator and the VMM have been told exactly the    *)
(* guest's state: the balloon it wants, whether it is constrained, and     *)
(* every OOM kill once.  And a container that exits before its event       *)
(* stream closes ends the pod as exited, not as broken, in whatever order  *)
(* the monitor wakes (StateTracker::process).                              *)
GuestIsReported ==
  /\ ~fresh /\ ~awake /\ outcome = "none" => told = [f \in DOMAIN Nothing |-> guest[f]]
  /\ outcome = "fatal" /\ ~guest.failed => ~guest.exited
=============================================================================
