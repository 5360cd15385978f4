------------------------------ MODULE GapidMain ------------------------------
(***************************************************************************)
(* gapid's main, as a service and as PID 1 (cmd/gapid, core/supervisor     *)
(* New, Run, EnablePid1, RunPhase0 and the shutdown requests, core/pid1,   *)
(* core/mounts, core/watchdog, core/shutdown): construction, phase 0, the  *)
(* run, and the teardown that ends in reboot(2).                           *)
(*                                                                         *)
(* Signals and requests on the bus arrive while all of it goes on; the     *)
(* goroutines are main, the one that waits for a request, the signal loop, *)
(* the bus handler, the reap loop and the watchdog.                        *)
(***************************************************************************)
EXTENDS Naturals, Sequences, FiniteSets

CONSTANTS
    Agents,         \* agents set up by the run
    MaxRequests     \* bound: shutdown requests made

ASSUME GapidAssumption == IsFiniteSet(Agents) /\ MaxRequests \in Nat

Actions == {"poweroff", "reboot", "halt"}

\* EarlyMounts, in order, and which mount point lies beneath which.
EarlyMounts == <<"/dev", "/proc", "/sys", "/sys/fs/cgroup", "/run", "/tmp">>
Targets     == {EarlyMounts[k] : k \in 1..Len(EarlyMounts)}
Beneath(t)  == IF t = "/sys" THEN {"/sys/fs/cgroup"} ELSE {}

VARIABLES
    pid1, skip,     \* Pid1Mode, NoEarlyMounts
    mpc, mnt,       \* where main is, and its place in the mount table
    mounted,        \* the targets something is mounted on
    cgroupsReady,   \* cgroups.Setup found its hierarchy
    signals,        \* pid1.Install, or signal.Notify, has run
    chan,           \* shutdownReq, a channel of one request
    waiter, action, \* the goroutine that waits for it, what it read
    ctxDone,        \* the run context is cancelled
    reaper, wd,     \* the reap loop and the watchdog device
    live,           \* agents with a process
    \* history
    asked, first,   \* requests made, and the first of them
    done            \* the teardown's system calls, in order

gapidVars == <<pid1, skip, mpc, mnt, mounted, cgroupsReady, signals, chan, waiter,
               action, ctxDone, reaper, wd, live, asked, first, done>>

Goto(l) == mpc' = l

-----------------------------------------------------------------------------
(* Construction and phase 0.                                               *)

\* supervisor.New: cgroups.Setup is tried with the mounts there are (a failure
\* is a warning); a transport, key or store that cannot be had is fatal.
New ==
    /\ mpc = "new"
    /\ cgroupsReady' = ({"/proc", "/sys/fs/cgroup"} \subseteq mounted)
    /\ Goto("failed") \/ Goto(IF pid1 THEN "phase0" ELSE "run")
    /\ signals' = TRUE
    /\ waiter' = IF pid1 THEN "off" ELSE "waits"
    /\ UNCHANGED <<pid1, skip, mnt, mounted, chan, action, ctxDone, reaper, wd, live,
                   asked, first, done>>

\* EnablePid1 installs the signals, then RunPhase0: pidfd, subreaper, reap loop.
Phase0 ==
    /\ mpc = "phase0"
    /\ \/ Goto("failed") /\ UNCHANGED <<reaper, mnt>>
       \/ /\ reaper' = "on" /\ mnt' = 1
          /\ Goto(IF skip THEN "watchdog" ELSE "mounts")
    /\ UNCHANGED <<pid1, skip, mounted, cgroupsReady, signals, chan, waiter, action,
                   ctxDone, wd, live, asked, first, done>>

\* IsMounted reads /proc/self/mountinfo, and finds nothing before /proc is there.
IsMounted(t) == "/proc" \in mounted /\ t \in mounted

\* One entry of MountEarly.  The kernel refuses to mount the same filesystem
\* twice on one target; every failure ends the boot.
MountEarly ==
    /\ mpc = "mounts"
    /\ LET t == EarlyMounts[mnt]
       IN  \/ IsMounted(t) /\ Goto("mounts") /\ UNCHANGED mounted
           \/ /\ ~IsMounted(t) /\ t \notin mounted
              /\ Goto("mounts") /\ mounted' = mounted \cup {t}
           \/ ~IsMounted(t) /\ Goto("failed") /\ UNCHANGED mounted
    /\ mnt' = mnt + 1
    /\ UNCHANGED <<pid1, skip, cgroupsReady, signals, chan, waiter, action, ctxDone,
                   reaper, wd, live, asked, first, done>>

Mounted ==
    /\ mpc = "mounts" /\ mnt > Len(EarlyMounts) /\ Goto("watchdog")
    /\ UNCHANGED <<pid1, skip, mnt, mounted, cgroupsReady, signals, chan, waiter, action,
                   ctxDone, reaper, wd, live, asked, first, done>>

\* The watchdog, when it is enabled, must open.  Then main starts the goroutine
\* that waits for a request, and calls Run.
OpenWatchdog ==
    /\ mpc = "watchdog"
    /\ \/ Goto("failed") /\ UNCHANGED <<wd, waiter>>
       \/ wd' \in {"none", "armed"} /\ waiter' = "waits" /\ Goto("run")
    /\ UNCHANGED <<pid1, skip, mnt, mounted, cgroupsReady, signals, chan, action, ctxDone,
                   reaper, live, asked, first, done>>

-----------------------------------------------------------------------------
(* Shutdown requests.                                                      *)

\* Mutant of Queued: a channel without a buffer, so that a request made before
\* the goroutine waits for it is dropped.
QueuedUnbuffered(a) ==
    chan' = IF chan = "none" /\ waiter = "waits" THEN a ELSE chan

\* Mutant of Queued: the last request replaces the one that waits.
QueuedLast(a) == chan' = a

\* RequestShutdown sends without waiting, into a channel that holds one.
Queued(a) == chan' = IF chan = "none" THEN a ELSE chan

Request(a) ==
    /\ asked < MaxRequests /\ asked' = asked + 1
    /\ first' = IF first = "none" THEN a ELSE first
    /\ Queued(a)
    /\ UNCHANGED <<pid1, skip, mpc, mnt, mounted, cgroupsReady, signals, waiter, action,
                   ctxDone, reaper, wd, live, done>>

Up == mpc \notin {"new", "failed", "down"}

\* The loop of pid1.Install ends with the context; a service's own signal
\* goroutine is the waiter, and the request stands for the signal it reads.
Heard == signals /\ ~ctxDone

Signal == Up /\ Heard /\ Request("poweroff")

\* subscribeSystemShutdown, from registerHandlers on; other payloads are refused.
BusRequest == Up /\ mpc \notin {"phase0", "mounts", "watchdog", "run"} /\
              \E a \in Actions : Request(a)

WaiterReads ==
    /\ waiter = "waits" /\ chan # "none"
    /\ action' = chan /\ chan' = "none" /\ waiter' = "read"
    /\ UNCHANGED <<pid1, skip, mpc, mnt, mounted, cgroupsReady, signals, ctxDone, reaper,
                   wd, live, asked, first, done>>

WaiterCancels ==
    /\ waiter = "read"
    /\ ctxDone' = TRUE /\ waiter' = "done"
    /\ UNCHANGED <<pid1, skip, mpc, mnt, mounted, cgroupsReady, signals, chan, action,
                   reaper, wd, live, asked, first, done>>

\* The context also ends the reap loop and, with its magic close, the watchdog.
ReaperEnds ==
    /\ ctxDone /\ reaper = "on" /\ reaper' = "off"
    /\ UNCHANGED <<pid1, skip, mpc, mnt, mounted, cgroupsReady, signals, chan, waiter,
                   action, ctxDone, wd, live, asked, first, done>>

WatchdogCloses ==
    /\ ctxDone /\ wd = "armed" /\ wd' = "closed"
    /\ UNCHANGED <<pid1, skip, mpc, mnt, mounted, cgroupsReady, signals, chan, waiter,
                   action, ctxDone, reaper, live, asked, first, done>>

-----------------------------------------------------------------------------
(* Run and the teardown.                                                   *)

\* setupAgents, registerHandlers.
Run ==
    /\ mpc = "run" /\ Goto("serve") /\ live' \in SUBSET Agents
    /\ UNCHANGED <<pid1, skip, mnt, mounted, cgroupsReady, signals, chan, waiter, action,
                   ctxDone, reaper, wd, asked, first, done>>

\* Mutant of Cancelled: Run ends as soon as a request is there.
CancelledEarly == ctxDone \/ chan # "none"

Cancelled == ctxDone

RunEnds ==
    /\ mpc = "serve" /\ Cancelled /\ Goto("stopAll")
    /\ UNCHANGED <<pid1, skip, mnt, mounted, cgroupsReady, signals, chan, waiter, action,
                   ctxDone, reaper, wd, live, asked, first, done>>

\* StopAll stops one agent after the other, and gives up at the first that
\* refuses (one still starting).  Run calls it, and SystemShutdown once more,
\* where the grace may run out first.
StopAll ==
    /\ mpc \in {"stopAll", "teardown"}
    /\ \/ \E a \in live : live' = live \ {a} /\ UNCHANGED <<mpc, mnt, done>>
       \/ /\ UNCHANGED live
          /\ IF mpc = "stopAll"
             THEN Goto(IF pid1 THEN "teardown" ELSE "down") /\ UNCHANGED <<mnt, done>>
             ELSE /\ Goto("unmount") /\ done' = Append(done, "sync")
                  /\ mnt' = IF skip THEN 0 ELSE Len(EarlyMounts)
    /\ UNCHANGED <<pid1, skip, mounted, cgroupsReady, signals, chan, waiter, action,
                   ctxDone, reaper, wd, asked, first>>

\* Mutant of UnmountOrder: the table is unmounted in the order of mounting.
UnmountOrder1st == EarlyMounts[Len(EarlyMounts) + 1 - mnt]

UnmountOrder == EarlyMounts[mnt]

\* Targets are detached from the last to the first, premounted ones too; an
\* error is logged.
Unmount ==
    /\ mpc = "unmount" /\ mnt > 0
    /\ mnt' = mnt - 1
    /\ done' = Append(done, UnmountOrder)
    /\ mounted' = mounted \ {UnmountOrder}
    /\ UNCHANGED <<pid1, skip, mpc, cgroupsReady, signals, chan, waiter, action, ctxDone,
                   reaper, wd, live, asked, first>>

\* reboot(2), or, where it is refused, the exit of a container's init.
Reboot ==
    /\ mpc = "unmount" /\ mnt = 0 /\ Goto("down")
    /\ done' = Append(done, action)
    /\ UNCHANGED <<pid1, skip, mnt, mounted, cgroupsReady, signals, chan, waiter, action,
                   ctxDone, reaper, wd, live, asked, first>>

-----------------------------------------------------------------------------
\* A cold boot has nothing mounted; a container has everything; a kernel may
\* mount /dev of itself.
GapidAt(l) ==
    /\ pid1 \in BOOLEAN /\ skip \in BOOLEAN
    /\ mounted \in {{}, {"/dev"}, Targets}
    /\ mpc = l /\ mnt = 0 /\ cgroupsReady = FALSE /\ signals = FALSE
    /\ chan = "none" /\ waiter = "off" /\ action = "poweroff" /\ ctxDone = FALSE
    /\ reaper = "none" /\ wd = "none" /\ live = {}
    /\ asked = 0 /\ first = "none" /\ done = <<>>

GapidInit == GapidAt("new")

MainStep == \/ New \/ Phase0 \/ (mnt \in 1..Len(EarlyMounts) /\ MountEarly) \/ Mounted
            \/ OpenWatchdog \/ Run \/ RunEnds \/ StopAll \/ Unmount \/ Reboot
GoStep   == WaiterReads \/ WaiterCancels

GapidNext == MainStep \/ GoStep \/ Signal \/ BusRequest \/ ReaperEnds \/ WatchdogCloses

\* Main and the waiting goroutine go on: every agent's stop is bounded.
GapidFairness == WF_gapidVars(MainStep) /\ WF_gapidVars(GoStep)

GapidSpec == GapidInit /\ [][GapidNext]_gapidVars /\ GapidFairness

-----------------------------------------------------------------------------
GapidTypeOK ==
    /\ mpc \in {"new", "phase0", "mounts", "watchdog", "run", "serve", "stopAll",
                "teardown", "unmount", "down", "failed"}
    /\ mnt \in 0..Len(EarlyMounts) + 1 /\ mounted \subseteq Targets
    /\ chan \in Actions \cup {"none"} /\ first \in Actions \cup {"none"}
    /\ action \in Actions /\ waiter \in {"off", "waits", "read", "done"}
    /\ reaper \in {"none", "on", "off"} /\ wd \in {"none", "armed", "closed"}
    /\ live \subseteq Agents /\ asked \in 0..MaxRequests

\* The first request wins: the machine goes down the way it asked, whatever
\* signals and requests came while the teardown was under way.  And the teardown
\* detaches a mount point only when nothing is mounted beneath it, and never
\* before the file systems are synced.
ShutdownInOrder ==
    \A k \in 1..Len(done) :
        /\ done[k] \in Actions => done[k] = first
        /\ done[k] \in Targets =>
             /\ \E j \in 1..k - 1 : done[j] = "sync"
             /\ \A b \in Beneath(done[k]) : \E j \in 1..k - 1 : done[j] = b

\* A request is never lost: one that arrives while phase 0 or the set-up of the
\* agents is still going on takes the machine down too, unless the boot failed.
ShutdownCompletes == first # "none" ~> mpc \in {"down", "failed"}

\* Phase 0 comes before cgroups exist: the control groups of a daemon that
\* serves as PID 1 with its early mounts are usable.
CgroupsAfterMounts == mpc = "serve" /\ pid1 /\ ~skip => cgroupsReady
=============================================================================
