---------------------------- MODULE GuestMemory ----------------------------
(***************************************************************************)
(* The guest's memory manager: pressure in the containers' cgroup makes    *)
(* the guest ask for a smaller balloon, sustained low usage for a larger   *)
(* one.  The limits of the cgroup are lowered before the balloon grows and *)
(* raised only when the balloon monitor has seen its pages released.       *)
(*                                                                         *)
(* mem is the MemoryManager, asked the last BalloonSet the VMM has not     *)
(* applied yet (a set of at most one: the worker's watch channel keeps the *)
(* last value), target the VMM's, pages the num_pages of the balloon,      *)
(* which follows it in chunks, seen and changes the monitor's last reading *)
(* and its channel, told the last constraint event.  All amounts are in    *)
(* the same unit.  memory.current is chosen by each step that reads it.    *)
(***************************************************************************)
EXTENDS Naturals, Sequences, FiniteSetsExt

CONSTANTS VmMem,         \* vm_mem_mib
          Balloon,       \* distvirt.balloon_mib
          Kernel,        \* KERNEL_BUFFER_MIB
          Gap,           \* HIGH_TO_MAX_GAP_MIB
          InitialStep, MaxStep, InflationStep, Headroom, StreakRequired,
          Chunk,         \* pages the driver moves at a time
          MaxAsked,      \* bound: BalloonSets of a run
          MaxChanges     \* capacity of the monitor's channel
VARIABLES mem, asked, target, pages, seen, changes, told, count

mVars == <<mem, asked, target, pages, seen, changes, told, count>>

Sub(a, b) == IF a > b THEN a - b ELSE 0   \* saturating_sub

initial_limits ==
  LET max == Sub(Sub(VmMem, Balloon), Kernel) IN [max |-> max, high |-> Sub(max, Gap)]

Init == /\ mem = [balloon |-> Balloon, step |-> InitialStep, pending |-> 0,
                  high |-> initial_limits.high, max |-> initial_limits.max,
                  streak |-> 0, cooling |-> FALSE, constraint |-> "Normal"]
        /\ asked = {} /\ target = Balloon /\ pages = Balloon /\ seen = Balloon /\ changes = <<>>
        /\ told = "Normal" /\ count = 0

(* The task's arms send the events they are returned. *)
BalloonSet(amount) == asked' = {amount} /\ count' = count + 1
Quiet == UNCHANGED <<asked, count>>

is_pressure_resolved(current) == current < mem.high

----------------------------------------------------------------------------
NoInflation == [mem EXCEPT !.streak = 0, !.cooling = TRUE]

\* Slip: the release the VMM still owes is replaced by the new one.
deflate_overwrites(m, step) ==
  [m EXCEPT !.step = step, !.balloon = @ - Min({step, m.balloon}),
            !.pending = Min({step, m.balloon}), !.constraint = "Waiting"]

deflate(m, step) ==
  [m EXCEPT !.step = step, !.balloon = @ - Min({step, m.balloon}),
            !.pending = @ + Min({step, m.balloon}), !.constraint = "Waiting"]

(* The step doubles while a release is only partly confirmed; while it is  *)
(* not confirmed at all, nothing is asked.                                 *)
handle_pressure ==
  /\ count < MaxAsked
  /\ IF mem.balloon = 0
     THEN /\ mem' = [NoInflation EXCEPT !.constraint = "BalloonExhausted"]
          /\ told' = IF mem.constraint = "BalloonExhausted" THEN told ELSE "BalloonExhausted"
          /\ Quiet
     ELSE IF mem.pending >= mem.step
     THEN mem' = NoInflation /\ Quiet /\ UNCHANGED told
     ELSE /\ mem' = deflate(NoInflation, IF mem.pending > 0 THEN Min({mem.step * 2, MaxStep})
                                         ELSE InitialStep)
          /\ BalloonSet(mem'.balloon)
          /\ UNCHANGED told
  /\ UNCHANGED <<target, pages, seen, changes>>

(* "some" pressure only holds inflation back, "full" deflates. *)
handle_psi_event(level) ==
  IF level = "full" THEN handle_pressure
  ELSE mem' = NoInflation /\ Quiet /\ UNCHANGED <<target, pages, seen, changes, told>>

(* memory.events: a breach of memory.high is the usual way to deflate. *)
memory_events == handle_pressure

----------------------------------------------------------------------------
check_constraint_cleared(m, current) ==
  IF m.constraint = "Normal" \/ current >= m.high
  THEN mem' = m /\ UNCHANGED told
  ELSE /\ mem' = [m EXCEPT !.constraint = "Normal"]
       /\ told' = IF m.constraint = "Waiting" THEN told ELSE "Normal"

(* The limits rise by what was released; ok is whether the cgroup's files  *)
(* could be written.                                                       *)
on_balloon_pages_changed(ok, current) ==
  /\ changes # <<>>
  /\ changes' = Tail(changes)
  /\ LET change == Head(changes)
         released == Sub(change.old, change.new)
         m == [mem EXCEPT !.pending = Sub(@, released)]
         max == mem.max + released
     IN IF released = 0 THEN mem' = mem /\ UNCHANGED told
        ELSE IF ~ok THEN mem' = m /\ UNCHANGED told
        ELSE check_constraint_cleared(
               [m EXCEPT !.max = max,
                         !.high = IF mem.balloon = 0 THEN max ELSE @ + released], current)
  /\ Quiet
  /\ UNCHANGED <<target, pages, seen>>

inflate(m) == [m EXCEPT !.high = @ - InflationStep, !.max = (mem.high - InflationStep) + Gap,
                        !.balloon = @ + InflationStep, !.streak = 0]

tick_inflation(ok, current) ==
  /\ count < MaxAsked
  /\ LET cleared == mem.constraint \notin {"Normal", "Waiting"} /\ is_pressure_resolved(current)
         m == IF cleared THEN [mem EXCEPT !.constraint = "Normal"] ELSE mem
         low == current * 4 < mem.high * 3
         streak == IF low THEN mem.streak + 1 ELSE 0
         fits == Sub(mem.high, InflationStep) >= current + Headroom
     IN /\ told' = IF cleared THEN "Normal" ELSE told
        /\ IF mem.pending > 0 \/ mem.cooling
           THEN mem' = m /\ Quiet
           ELSE IF streak < StreakRequired
           THEN mem' = [m EXCEPT !.streak = streak] /\ Quiet
           ELSE IF ~fits
           THEN mem' = [m EXCEPT !.streak = 0] /\ Quiet
           ELSE IF ~ok
           THEN mem' = [m EXCEPT !.streak = Min({streak, StreakRequired})] /\ Quiet
           ELSE mem' = inflate(m) /\ BalloonSet(mem'.balloon)
  /\ UNCHANGED <<target, pages, seen, changes>>

(* The stall deadline of the last deflation. *)
check_deflation_deadline(current) ==
  /\ mem.constraint = "Waiting"
  /\ IF is_pressure_resolved(current)
     THEN mem' = [mem EXCEPT !.constraint = "Normal"] /\ UNCHANGED told
     ELSE mem' = [mem EXCEPT !.constraint = "DeflationStalled"] /\ told' = "DeflationStalled"
  /\ Quiet
  /\ UNCHANGED <<target, pages, seen, changes>>

----------------------------------------------------------------------------
(* Time, the VMM, a connection that breaks with the event, and the balloon *)
(* monitor, which reads the balloon's size when it gets to it.             *)

cooldown_ends ==
  /\ mem.cooling /\ mem' = [mem EXCEPT !.cooling = FALSE]
  /\ UNCHANGED <<asked, target, pages, seen, changes, told, count>>

set_balloon ==
  /\ asked # {}
  /\ asked' = {} /\ target' \in asked
  /\ UNCHANGED <<mem, pages, seen, changes, told, count>>

(* The virtio driver, in chunks. *)
driver_moves ==
  /\ pages # target
  /\ pages' = IF pages > target THEN pages - Min({Chunk, pages - target})
              ELSE pages + Min({Chunk, target - pages})
  /\ UNCHANGED <<mem, asked, target, seen, changes, told, count>>

event_lost ==
  /\ asked # {} /\ asked' = {}
  /\ UNCHANGED <<mem, target, pages, seen, changes, told, count>>

balloon_monitor ==
  /\ pages # seen /\ Len(changes) < MaxChanges
  /\ seen' = pages /\ changes' = Append(changes, [old |-> seen, new |-> pages])
  /\ UNCHANGED <<mem, asked, target, pages, told, count>>

Settled == count = MaxAsked /\ UNCHANGED mVars

Next == \/ memory_events
        \/ \E level \in {"some", "full"} : handle_psi_event(level)
        \/ \E ok \in BOOLEAN, current \in 0..mem.max : on_balloon_pages_changed(ok, current)
        \/ \E ok \in BOOLEAN, current \in 0..mem.max : tick_inflation(ok, current)
        \/ \E current \in 0..mem.max : check_deflation_deadline(current)
        \/ cooldown_ends \/ set_balloon \/ driver_moves \/ event_lost \/ balloon_monitor \/ Settled

----------------------------------------------------------------------------
(* When the manager counts no release as pending, the balloon is no larger *)
(* than it wants, however BalloonSets and readings were merged, lost or    *)
(* delayed; so tick_inflation never lowers the limits of containers whose  *)
(* memory the VMM still holds (pending_deflation_mib).                     *)
PendingCoversReleases ==
  mem.pending = 0 /\ changes = <<>> /\ seen = pages => pages <= mem.balloon

(* The containers' hard limit and the balloon leave the kernel its buffer: *)
(* memory.max is never more than the VM's memory without the balloon and   *)
(* KERNEL_BUFFER_MIB (tick_inflation, on_balloon_pages_changed).           *)
KernelKeepsItsBuffer == mem.max + pages + Kernel <= VmMem
=============================================================================
