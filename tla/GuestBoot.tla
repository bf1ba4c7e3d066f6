------------------------------ MODULE GuestBoot ------------------------------
(***************************************************************************)
(* The guest agent as process 1 of its VM (guest-init/src/main.rs): the    *)
(* boot sequence, the tasks it selects over, the memory.events and PSI     *)
(* monitors, and the container-init process that turns a fork of the agent *)
(* into the container's program (guest-init/src/container/init.rs).        *)
(*                                                                         *)
(* boot is the step of run() that comes next; sys what the steps set up;   *)
(* host the mount points of the agent's own mount namespace.  proc[c] is   *)
(* the init process of container c: at the index of its next step, mounts  *)
(* the table of its own namespace once it has one.  links are the symbolic *)
(* links in /dev: every devtmpfs mount shows the one instance of the       *)
(* kernel.  count are the kernel's memory.events counters, noted whether   *)
(* an inotify event is queued, mon the AsyncMemoryEventsMonitor (prev its  *)
(* last reading, blind whether a read of the file ever failed) and psi the *)
(* levels whose triggers have fired.                                       *)
(***************************************************************************)
EXTENDS Integers, FiniteSets, Sequences

CONSTANTS Containers, MaxCount

VARIABLES boot, sys, host, proc, links, count, noted, mon, psi

bVars == <<boot, sys, host, proc, links, count, noted, mon, psi>>

Zero == [high |-> 0, oom_kill |-> 0]

BInit == /\ boot = "filesystems" /\ host = {} /\ links = {}
         /\ sys \in [balloon : BOOLEAN, zram : {FALSE}, cgroup : {FALSE},
                     limits : {FALSE}, tasks : {{}}]
         /\ proc = [c \in Containers |-> [at |-> 0, mounts |-> {}, own |-> FALSE,
                                          root |-> "guest", uid |-> 0, gid |-> 0]]
         /\ count = Zero /\ noted = FALSE /\ psi = {}
         /\ mon = [there |-> FALSE, prev |-> Zero, drained |-> FALSE, blind |-> FALSE, told |-> Zero]

---------------------------------------------------------------------------
(* run(): each step either is fatal on failure (the VM reboots) or only    *)
(* logs it and goes on.                                                    *)

Fatal == boot' = "down" /\ UNCHANGED <<sys, host, proc, links, count, noted, mon, psi>>
Then(step) == boot' = step
Untouched == UNCHANGED <<proc, links, count, noted, psi>>

\* Each mount that fails is skipped; /dev is mounted by the kernel.
mount_essential_filesystems ==
    /\ boot = "filesystems" /\ Then("memory")
    /\ \E failed \in {{}, {"/sys/fs/cgroup"}, {"/tmp"}} :
          host' = {"/proc", "/sys", "/tmp", "/dev", "/sys/fs/cgroup"} \ failed
    /\ UNCHANGED <<sys, mon>> /\ Untouched

\* Reset, algorithm, size, mkswap, swapon: the first that fails ends it.
setup_zram_swap(ok) == [sys EXCEPT !.zram = ok]

\* configure_memory: zram swap is optional, an unreadable /proc/meminfo is not.
configure_memory ==
    /\ boot = "memory"
    /\ \/ Fatal
       \/ /\ Then("cgroup") /\ UNCHANGED <<host, mon>> /\ Untouched
          /\ \E ok \in BOOLEAN : sys' = setup_zram_swap(ok)

\* The parent cgroup of all containers, with the memory controller.
init_container_cgroup_root ==
    /\ boot = "cgroup" /\ Then("config") /\ UNCHANGED <<host, mon>> /\ Untouched
    /\ \E ok \in BOOLEAN : sys' = [sys EXCEPT !.cgroup = ok /\ "/sys/fs/cgroup" \in host]

\* GuestConfig::from_cmdline and the transport's listener.
read_config_and_listen ==
    /\ boot = "config"
    /\ Fatal \/ (Then("limits") /\ UNCHANGED <<sys, host, mon>> /\ Untouched)

\* The first cgroup limits, set before the PSI triggers are created.
set_memory_limits ==
    /\ boot = "limits" /\ Then("psi") /\ UNCHANGED <<host, mon>> /\ Untouched
    /\ \E ok \in BOOLEAN :
          sys' = [sys EXCEPT !.limits = sys.balloon /\ sys.cgroup /\ ok]

setup_psi_monitor ==
    /\ boot = "psi" /\ Then("events") /\ UNCHANGED <<host, mon>> /\ Untouched
    /\ \E ok \in BOOLEAN :
          sys' = [sys EXCEPT !.tasks = IF ok /\ sys.cgroup THEN {"psi"} ELSE {}]

\* AsyncMemoryEventsMonitor::new: the watch first, the reading after it.
memory_events_monitor ==
    /\ boot = "events" /\ Then("tasks") /\ UNCHANGED <<sys, host>> /\ Untouched
    /\ \E ok \in BOOLEAN :
          mon' = [mon EXCEPT !.there = ok /\ sys.cgroup, !.prev = count]

\* The balloon monitor needs the manager, the balloon task the PSI monitor too.
spawn_tasks ==
    /\ boot = "tasks" /\ Then("run") /\ UNCHANGED <<host, mon>> /\ Untouched
    /\ sys' = [sys EXCEPT !.tasks = {"supervisor"}
                 \cup (IF sys.balloon THEN {"balloon_monitor"} ELSE {})
                 \cup (IF sys.balloon /\ "psi" \in @ THEN {"balloon_task"} ELSE {})]

\* The select of run(): the first task to end, the supervisor included, ends
\* the agent; main() then syncs and reboots the VM.
task_ends(t) ==
    /\ boot = "run" /\ t \in sys.tasks
    /\ Fatal

---------------------------------------------------------------------------
(* The container-init process.                                             *)

Steps == <<"config", "limits", "session", "unshare", "private", "names", "pivot", "chdir",
           "proc", "dev", "links", "tmp", "mask", "readonly", "stdio", "groups", "gid", "uid",
           "exec">>
Running == Len(Steps) + 1
Exited == -1

\* The backend's start: a child of the agent, in the agent's namespaces.
clone3(c) ==
    /\ boot = "run" /\ proc[c].at = 0
    /\ proc' = [proc EXCEPT ![c].at = 1, ![c].mounts = host]
    /\ UNCHANGED <<boot, sys, host, links, count, noted, mon, psi>>

\* A mount is made in the process's own namespace, or in the agent's.
mount(c, p, target) ==
    /\ proc' = [proc EXCEPT ![c] = [p EXCEPT !.mounts = IF p.own THEN @ \cup {target} ELSE @]]
    /\ host' = IF p.own THEN host ELSE host \cup {target}

\* Slip: the new mount namespace is forgotten.
unshare_uts_only(p) == p

unshare(p) == [p EXCEPT !.own = TRUE, !.mounts = host]

\* chdir, pivot_root(".", "."), then the old root is detached.
pivot_root(p) == [p EXCEPT !.root = "container", !.mounts = {}]

\* /proc, /sys, /dev, the links in /dev, then the tmpfs mounts: a link that
\* is there already is an error, like a mount that fails.
mount_container_filesystems(c, p, step) ==
    IF step = "links"
    THEN /\ proc' = [proc EXCEPT ![c] = IF links = {} THEN p ELSE [p EXCEPT !.at = Exited]]
         /\ links' = {"fd", "stdin", "stdout", "stderr"} /\ UNCHANGED host
    ELSE mount(c, p, step) /\ UNCHANGED links

\* /dev/null over the first paths; the others bound to themselves, read-only.
mask_paths(c, p) == mount(c, p, "masked") /\ UNCHANGED links
readonly_paths(c, p) == mount(c, p, "readonly") /\ UNCHANGED links

\* exec_container: the next step (container_init_main has its failure).
exec_container(c) ==
    LET p == [proc[c] EXCEPT !.at = @ + 1]
        step == Steps[proc[c].at]
        Is(q) == proc' = [proc EXCEPT ![c] = q] /\ UNCHANGED <<host, links>>
    IN /\ boot = "run" /\ proc[c].at \in 1..Len(Steps)
       /\ CASE step = "unshare" -> Is(unshare(p))
            [] step = "pivot" -> Is(pivot_root(p))
            [] step \in {"proc", "dev", "links", "tmp"} -> mount_container_filesystems(c, p, step)
            [] step = "mask" -> mask_paths(c, p)
            [] step = "readonly" -> readonly_paths(c, p)
            [] step = "gid" -> Is([p EXCEPT !.gid = 1])
            [] step = "uid" -> Is([p EXCEPT !.uid = 1])
            [] OTHER -> Is(p)
       /\ UNCHANGED <<boot, sys, count, noted, mon, psi>>

\* container_init_main: any step may fail, and the program itself may end.
container_init_main(c) ==
    /\ boot = "run" /\ proc[c].at \in 1..Running
    /\ proc' = [proc EXCEPT ![c].at = Exited]
    /\ UNCHANGED <<boot, sys, host, links, count, noted, mon, psi>>

---------------------------------------------------------------------------
(* The kernel's counters and the monitors.                                 *)

InCgroup == {c \in Containers : proc[c].at \in 1..Running}

memory_event(f) ==
    /\ boot = "run" /\ InCgroup # {} /\ count[f] < MaxCount
    /\ count' = [count EXCEPT ![f] = @ + 1] /\ noted' = mon.there
    /\ UNCHANGED <<boot, sys, host, proc, links, mon, psi>>

psi_fires(level) ==
    /\ boot = "run" /\ InCgroup # {} /\ level \notin psi
    /\ psi' = psi \cup {level}
    /\ UNCHANGED <<boot, sys, host, proc, links, count, noted, mon>>

\* AsyncPsiMonitor::wait: all that fired is drained and re-armed at once.
psi_wait ==
    /\ boot = "run" /\ "balloon_task" \in sys.tasks /\ psi # {} /\ ~mon.drained
    /\ psi' = {}
    /\ UNCHANGED <<boot, sys, host, proc, links, count, noted, mon>>

diff(now, before) == [f \in DOMAIN now |-> IF now[f] > before[f] THEN now[f] - before[f] ELSE 0]


\* AsyncMemoryEventsMonitor::wait_for_change: the queued events are drained,
\* then the file is read (all zero when that fails) and compared.
wait_for_change(ok) ==
    /\ boot = "run" /\ "balloon_task" \in sys.tasks /\ mon.there
    /\ \/ noted /\ ~mon.drained /\ ok /\ noted' = FALSE /\ mon' = [mon EXCEPT !.drained = TRUE]
       \/ LET current == IF ok THEN count ELSE Zero
              delta == diff(current, mon.prev)
          IN /\ mon.drained /\ UNCHANGED noted
             /\ mon' = [mon EXCEPT !.drained = FALSE, !.prev = current, !.blind = @ \/ ~ok,
                                   !.told = [f \in DOMAIN @ |-> @[f] + delta[f]]]
    /\ UNCHANGED <<boot, sys, host, proc, links, count, psi>>

BNext == \/ mount_essential_filesystems \/ configure_memory \/ init_container_cgroup_root
         \/ read_config_and_listen
         \/ set_memory_limits \/ setup_psi_monitor \/ memory_events_monitor \/ spawn_tasks
         \/ \E t \in {"supervisor", "balloon_monitor", "balloon_task"} : task_ends(t)
         \/ \E c \in Containers : clone3(c) \/ exec_container(c) \/ container_init_main(c)
         \/ \E f \in DOMAIN count : memory_event(f)
         \/ \E level \in {"some", "full"} : psi_fires(level)
         \/ psi_wait \/ \E ok \in BOOLEAN : wait_for_change(ok)

BSpec == BInit /\ [][BNext]_bVars

---------------------------------------------------------------------------
(* A counter that moved (an OOM kill, a breach of memory.high) is never    *)
(* slept through: as long as the balloon task runs and its reads succeed,  *)
(* a counter that differs from the last reading has an inotify event       *)
(* queued, or the reading is about to be made; and what was told adds up   *)
(* to the last reading, nothing twice (wait_for_change).                   *)
MemoryEventsAreHeard ==
    (boot = "run" /\ mon.there /\ "balloon_task" \in sys.tasks /\ ~mon.blind) =>
        /\ count # mon.prev => noted \/ mon.drained
        /\ mon.told = mon.prev

(* Whatever step a container's set-up has reached or failed at, the        *)
(* agent's own mount table is the one it booted with: the mounts of a      *)
(* container are all made after it has left the agent's mount namespace.   *)
MountsStay == boot = "run" => host' = host
GuestMountsStay == [][MountsStay]_bVars
=============================================================================
