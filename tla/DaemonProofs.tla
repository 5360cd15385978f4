----------------------------- MODULE DaemonProofs -----------------------------
(***************************************************************************)
(* Proofs about gapid's main and about the runner of Python agents, for    *)
(* any number of shutdown requests, runs and watch loops; and about the    *)
(* two kits together.                                                      *)
(***************************************************************************)
EXTENDS MCDaemon, KitProofs

-----------------------------------------------------------------------------
(* Main: the teardown.  The first request is the one in the channel until  *)
(* the goroutine has read it, and the one it read afterwards; main gets to *)
(* the teardown only through the context that this goroutine cancels.      *)

FirstKept ==
    /\ waiter \in {"off", "waits"} => chan = first
    /\ waiter \in {"read", "done"} => first \in Actions /\ action = first
    /\ mpc \in {"new", "phase0", "mounts", "watchdog"} => waiter = "off"
    /\ ctxDone => waiter = "done"
    /\ mpc \in {"stopAll", "teardown", "unmount"} => ctxDone

\* The teardown synced first, and has detached what lies behind mnt in the table.
TeardownSoFar ==
    /\ done \in Seq(Actions \cup Targets \cup {"sync"})
    /\ mpc \notin {"unmount", "down"} => done = <<>>
    /\ mpc = "unmount" =>
         /\ \E j \in 1..Len(done) : done[j] = "sync"
         /\ mnt \in 0..Len(EarlyMounts)
         /\ mnt > 0 => \A m \in mnt + 1..Len(EarlyMounts) :
                          \E j \in 1..Len(done) : done[j] = EarlyMounts[m]

GapidInv == GapidTypeOK /\ FirstKept /\ TeardownSoFar /\ ShutdownInOrder

\* The mount table: six entries, and what lies beneath an entry comes after it.
LEMMA MountTable ==
  /\ Len(EarlyMounts) = 6
  /\ Targets = {"/dev", "/proc", "/sys", "/sys/fs/cgroup", "/run", "/tmp"}
  /\ \A m \in 1..6 : EarlyMounts[m] \in Targets
  /\ \A m \in 1..6 : \A b \in Beneath(EarlyMounts[m]) : \E k \in m + 1..6 : EarlyMounts[k] = b
  <1>1. Len(EarlyMounts) = 6
    BY DEF EarlyMounts
  <1>2. 1..6 = {1, 2, 3, 4, 5, 6}
    OBVIOUS
  <1>3. /\ EarlyMounts[1] = "/dev" /\ EarlyMounts[2] = "/proc" /\ EarlyMounts[3] = "/sys"
        /\ EarlyMounts[4] = "/sys/fs/cgroup" /\ EarlyMounts[5] = "/run"
        /\ EarlyMounts[6] = "/tmp"
    BY DEF EarlyMounts
  <1>4. Targets = {"/dev", "/proc", "/sys", "/sys/fs/cgroup", "/run", "/tmp"}
    BY <1>1, <1>2, <1>3 DEF Targets
  <1>5. \A m \in 1..6 : EarlyMounts[m] \in Targets
    BY <1>2, <1>3, <1>4
  <1>6. ASSUME NEW m \in 1..6, NEW b \in Beneath(EarlyMounts[m])
        PROVE  \E k \in m + 1..6 : EarlyMounts[k] = b
    <2>1. m = 3 /\ b = "/sys/fs/cgroup"
      BY <1>2, <1>3, <1>6 DEF Beneath
    <2>2. QED
      BY <2>1, <1>3
  <1>7. QED
    BY <1>1, <1>4, <1>5, <1>6

\* One more system call of the teardown: what it must respect.
LEMMA OneMoreCall ==
  ASSUME TeardownSoFar, ShutdownInOrder, NEW x \in Actions \cup Targets \cup {"sync"},
         done' = Append(done, x), first' = first,
         x \in Actions => x = first,
         x \in Targets => /\ \E j \in 1..Len(done) : done[j] = "sync"
                          /\ \A b \in Beneath(x) : \E j \in 1..Len(done) : done[j] = b
  PROVE  /\ done' \in Seq(Actions \cup Targets \cup {"sync"})
         /\ \A j \in 1..Len(done) : j \in 1..Len(done') /\ done'[j] = done[j]
         /\ \E j \in 1..Len(done') : done'[j] = x
         /\ ShutdownInOrder'
  <1>1. /\ done \in Seq(Actions \cup Targets \cup {"sync"}) /\ Len(done) \in Nat
        /\ done' \in Seq(Actions \cup Targets \cup {"sync"})
        /\ Len(done') = Len(done) + 1 /\ done'[Len(done) + 1] = x
        /\ \A j \in 1..Len(done) : done'[j] = done[j]
    BY DEF TeardownSoFar
  <1>2. \A j \in 1..Len(done) : j \in 1..Len(done') /\ done'[j] = done[j]
    BY <1>1
  <1>3. Len(done) + 1 \in 1..Len(done')
    BY <1>1
  <1>4. ASSUME NEW k \in 1..Len(done')
        PROVE  /\ done'[k] \in Actions => done'[k] = first'
               /\ done'[k] \in Targets =>
                    /\ \E j \in 1..k - 1 : done'[j] = "sync"
                    /\ \A b \in Beneath(done'[k]) : \E j \in 1..k - 1 : done'[j] = b
    <2>1. CASE k \in 1..Len(done)
      <3>1. done'[k] = done[k] /\ \A j \in 1..k - 1 : done'[j] = done[j]
        BY <1>1, <2>1
      <3>2. /\ done[k] \in Actions => done[k] = first
            /\ done[k] \in Targets =>
                 /\ \E j \in 1..k - 1 : done[j] = "sync"
                 /\ \A b \in Beneath(done[k]) : \E j \in 1..k - 1 : done[j] = b
        BY <2>1 DEF ShutdownInOrder
      <3>3. QED
        BY <3>1, <3>2
    <2>2. CASE k = Len(done) + 1
      <3>1. done'[k] = x /\ k - 1 = Len(done)
        BY <1>1, <2>2
      <3>2. \A y : (\E j \in 1..Len(done) : done[j] = y) => \E j \in 1..k - 1 : done'[j] = y
        BY <1>2, <3>1
      <3>3. x \in Targets =>
              /\ \E j \in 1..k - 1 : done'[j] = "sync"
              /\ \A b \in Beneath(x) : \E j \in 1..k - 1 : done'[j] = b
        BY <3>2
      <3>4. QED
        BY <3>1, <3>3, Zenon
    <2>3. k \in 1..Len(done) \/ k = Len(done) + 1
      BY <1>1
    <2>4. QED
      BY <2>1, <2>2, <2>3, Zenon
  <1>5. ShutdownInOrder'
    BY <1>4 DEF ShutdownInOrder
  <1>6. QED
    BY <1>1, <1>2, <1>3, <1>5

\* What a step that makes no system call keeps.
LEMMA NoCall ==
  ASSUME ShutdownInOrder, done' = done, first' = first \/ first = "none"
  PROVE  ShutdownInOrder'
  <1>1. "none" \notin Actions
    BY DEF Actions
  <1>2. \A k \in 1..Len(done) : done[k] \in Actions => done[k] = first'
    BY <1>1 DEF ShutdownInOrder
  <1>3. QED
    BY <1>2 DEF ShutdownInOrder

\* The state of main stays in range, and the first request is kept.
LEMMA GapidTyped ==
  ASSUME GapidInv, [GapidNext]_gapidVars
  PROVE  GapidTypeOK' /\ FirstKept'
  <1>l. Len(EarlyMounts) = 6 /\ \A m \in 1..6 : EarlyMounts[m] \in Targets
    BY MountTable
  <1> USE GapidAssumption DEF GapidInv, GapidTypeOK, FirstKept, Goto
  <1>1. CASE New
    BY <1>1 DEF New
  <1>2. CASE Phase0
    BY <1>2, <1>l DEF Phase0
  <1>3. CASE mnt \in 1..Len(EarlyMounts) /\ MountEarly
    <2>1. EarlyMounts[mnt] \in Targets /\ mnt' \in 0..Len(EarlyMounts) + 1
      BY <1>3, <1>l DEF MountEarly
    <2>2. mounted' \subseteq Targets
      BY <1>3, <2>1 DEF MountEarly
    <2>3. QED
      BY <1>3, <2>1, <2>2 DEF MountEarly
  <1>4. CASE Mounted
    BY <1>4 DEF Mounted
  <1>5. CASE OpenWatchdog
    BY <1>5 DEF OpenWatchdog
  <1>6. CASE Run
    BY <1>6 DEF Run
  <1>7. CASE RunEnds
    BY <1>7 DEF RunEnds, Cancelled
  <1>8. CASE StopAll
    <2>1. /\ mpc \in {"stopAll", "teardown"} /\ live' \subseteq Agents
          /\ UNCHANGED <<mounted, chan, waiter, action, ctxDone, reaper, wd, asked, first>>
      BY <1>8 DEF StopAll
    <2>2. mpc' \in {"stopAll", "teardown", "unmount", "down"}
      BY <1>8 DEF StopAll
    <2>3. mnt' \in {mnt, 0, Len(EarlyMounts)}
      BY <1>8 DEF StopAll
    <2>4. mnt' \in 0..Len(EarlyMounts) + 1
      BY <2>3, <1>l
    <2>5. QED
      BY <2>1, <2>2, <2>4
  <1>9. CASE Unmount
    BY <1>9, <1>l DEF Unmount
  <1>10. CASE Reboot
    BY <1>10 DEF Reboot
  <1>11. CASE WaiterReads
    BY <1>11 DEF WaiterReads
  <1>12. CASE WaiterCancels
    BY <1>12 DEF WaiterCancels
  <1>13. ASSUME NEW a \in Actions, Request(a)
         PROVE  GapidTypeOK' /\ FirstKept'
    BY <1>13 DEF Request, Queued, Actions
  <1>14. CASE ReaperEnds
    BY <1>14 DEF ReaperEnds
  <1>15. CASE WatchdogCloses
    BY <1>15 DEF WatchdogCloses
  <1>16. CASE UNCHANGED gapidVars
    BY <1>16 DEF gapidVars
  <1>17. QED
    BY <1>1, <1>2, <1>3, <1>4, <1>5, <1>6, <1>7, <1>8, <1>9, <1>10, <1>11, <1>12, <1>13,
       <1>14, <1>15, <1>16
       DEF GapidNext, MainStep, GoStep, Signal, BusRequest, Actions

\* The teardown goes on in order.
LEMMA TeardownInOrder ==
  ASSUME GapidInv, [GapidNext]_gapidVars
  PROVE  TeardownSoFar' /\ ShutdownInOrder'
  <1> USE DEF Goto
  <1>i. GapidTypeOK /\ FirstKept /\ TeardownSoFar /\ ShutdownInOrder
    BY DEF GapidInv
  <1>1. CASE StopAll
    <2>0. /\ first' = first /\ done = <<>>
          /\ \/ mpc' \in {"stopAll", "teardown"} /\ done' = done
             \/ mpc' = "down" /\ done' = done
             \/ /\ mpc' = "unmount" /\ done' = Append(done, "sync")
                /\ mnt' \in {0, Len(EarlyMounts)}
      BY <1>1, <1>i DEF StopAll, TeardownSoFar
    <2>1. CASE mpc' # "unmount" /\ done' = done
      BY <2>0, <2>1, <1>i, NoCall DEF TeardownSoFar
    <2>2. CASE mpc' = "unmount" /\ done' = Append(done, "sync") /\ mnt' \in {0, Len(EarlyMounts)}
      <3>1. "sync" \notin Actions \cup Targets
        BY MountTable DEF Actions
      <3>2. /\ done' \in Seq(Actions \cup Targets \cup {"sync"})
            /\ \E j \in 1..Len(done') : done'[j] = "sync"
            /\ ShutdownInOrder'
        BY <1>i, <2>0, <2>2, <3>1, OneMoreCall
      <3>3. /\ mnt' \in 0..Len(EarlyMounts)
            /\ mnt' > 0 => \A m \in mnt' + 1..Len(EarlyMounts) : FALSE
        <4>1. mnt' = 0 \/ mnt' = 6
          BY <2>2, MountTable
        <4>2. QED
          BY <4>1, MountTable
      <3>4. QED
        BY <2>2, <3>2, <3>3 DEF TeardownSoFar
    <2>3. QED
      BY <2>0, <2>1, <2>2
  <1>2. CASE Unmount
    <2>1. /\ mpc = "unmount" /\ mnt > 0 /\ mnt' = mnt - 1 /\ mpc' = mpc /\ first' = first
          /\ done' = Append(done, EarlyMounts[mnt])
      BY <1>2 DEF Unmount, UnmountOrder
    <2>2. /\ mnt \in 1..6 /\ \E j \in 1..Len(done) : done[j] = "sync"
          /\ \A m \in mnt + 1..6 : \E j \in 1..Len(done) : done[j] = EarlyMounts[m]
      BY <1>i, <2>1, MountTable DEF TeardownSoFar
    <2>3. EarlyMounts[mnt] \in Targets /\ EarlyMounts[mnt] \notin Actions
      BY <2>2, MountTable DEF Actions
    <2>4. \A b \in Beneath(EarlyMounts[mnt]) : \E j \in 1..Len(done) : done[j] = b
      BY <2>2, MountTable
    <2>5. /\ done' \in Seq(Actions \cup Targets \cup {"sync"})
          /\ \A j \in 1..Len(done) : j \in 1..Len(done') /\ done'[j] = done[j]
          /\ \E j \in 1..Len(done') : done'[j] = EarlyMounts[mnt]
          /\ ShutdownInOrder'
      BY <1>i, <2>1, <2>2, <2>3, <2>4, OneMoreCall
    <2>6. \A m \in mnt'+ 1..6 : \E j \in 1..Len(done') : done'[j] = EarlyMounts[m]
      <3>1. ASSUME NEW m \in mnt' + 1..6
            PROVE  \E j \in 1..Len(done') : done'[j] = EarlyMounts[m]
        <4>1. m = mnt \/ m \in mnt + 1..6
          BY <2>1, <2>2
        <4>2. QED
          BY <4>1, <2>2, <2>5
      <3>2. QED
        BY <3>1
    <2>7. \E j \in 1..Len(done') : done'[j] = "sync"
      BY <2>2, <2>5
    <2>8. mnt' \in 0..6
      BY <2>1, <2>2
    <2>9. QED
      BY <2>1, <2>5, <2>6, <2>7, <2>8, MountTable DEF TeardownSoFar
  <1>3. CASE Reboot
    <2>1. mpc = "unmount" /\ mpc' = "down" /\ first' = first /\ done' = Append(done, action)
      BY <1>3 DEF Reboot
    <2>2. action \in Actions /\ action = first
      BY <1>i, <2>1 DEF FirstKept
    <2>3. action \notin Targets
      BY <2>2, MountTable DEF Actions
    <2>4. QED
      BY <1>i, <2>1, <2>2, <2>3, OneMoreCall DEF TeardownSoFar
  <1>4. CASE /\ done' = done /\ (first' = first \/ first = "none")
             /\ mpc' \notin {"unmount", "down"} => mpc \notin {"unmount", "down"}
             /\ mpc' = "unmount" => mpc = "unmount" /\ mnt' = mnt
    <2>1. ShutdownInOrder'
      BY <1>4, <1>i, NoCall
    <2>2. TeardownSoFar'
      BY <1>4, <1>i DEF TeardownSoFar
    <2>3. QED
      BY <2>1, <2>2
  <1>6. Signal \/ BusRequest
        => done' = done /\ mpc' = mpc /\ mnt' = mnt /\ (first' = first \/ first = "none")
    BY DEF Signal, BusRequest, Request
  <1>7. StopAll \/ Unmount \/ Reboot
        \/ /\ done' = done /\ (first' = first \/ first = "none")
           /\ mpc' \notin {"unmount", "down"} => mpc \notin {"unmount", "down"}
           /\ mpc' = "unmount" => mpc = "unmount" /\ mnt' = mnt
    BY <1>6 DEF GapidNext, MainStep, GoStep, gapidVars, New, Phase0, MountEarly, Mounted,
           OpenWatchdog, Run, RunEnds, WaiterReads, WaiterCancels, ReaperEnds, WatchdogCloses
  <1>8. QED
    BY <1>1, <1>2, <1>3, <1>4, <1>7

\* The machine goes down the way the first request asked, and the teardown syncs
\* before it detaches and detaches what lies beneath first, for any number of
\* requests and signals at any moment.
THEOREM GapidShutdownInOrder == GapidSpec => []ShutdownInOrder
  <1>1. GapidInit => GapidInv
    <2>1. ASSUME GapidInit
          PROVE  GapidTypeOK /\ FirstKept
      BY <2>1, GapidAssumption, MountTable
         DEF GapidInit, GapidAt, GapidTypeOK, FirstKept, Actions
    <2>2. ASSUME GapidInit
          PROVE  TeardownSoFar /\ ShutdownInOrder
      BY <2>2 DEF GapidInit, GapidAt, TeardownSoFar, ShutdownInOrder
    <2>3. QED
      BY <2>1, <2>2 DEF GapidInv
  <1>2. GapidInv /\ [GapidNext]_gapidVars => GapidInv'
    BY GapidTyped, TeardownInOrder DEF GapidInv
  <1>3. GapidInv => ShutdownInOrder
    BY DEF GapidInv
  <1>4. QED
    BY <1>1, <1>2, <1>3, PTL DEF GapidSpec

-----------------------------------------------------------------------------
(* The runner: a run that lives is the one in the slot, the one a          *)
(* one-shot's Start waits for, one Stop has killed, or one that was started *)
(* before the Reset of a stop.                                             *)

\* The slot, by agent type.  A one-shot's Start owns its run until it exits,
\* although Stop may clear the slot meanwhile; a service has no such owner, and
\* its watcher leaves the slot to Stop.
SlotInv ==
    /\ typ = "oneshot" => /\ cmd \in {0, starting}
                          /\ \A r \in Runs : exitWatch[r] = "none"
    /\ typ # "oneshot" => /\ starting = 0
                          /\ stopRun # 0 => cmd = stopRun /\ ownStop
    /\ resetting => stopRun = 0 /\ cmd \in {0} \cup between
    /\ \A r \in {cmd, starting, stopRun} \ {0} : life[r] # "none"

LiveRuns ==
    /\ \A r \in Runs : life[r] = "runs" => r \in {cmd, starting} \cup killed \cup between
    /\ \A q, r \in Runs : q < r /\ life[r] # "none" => life[q] # "none"

\* Nothing is published of a run that is still in the slot, or being reloaded.
EndsInv ==
    /\ \A r \in Runs : life[r] = "none" => ends[r] = 0
    /\ \A r \in {cmd, reloadRun} \ {0} : ends[r] = 0

PyInv == PyTypeOK /\ SlotInv /\ LiveRuns /\ EndsInv /\ OneRunOneWatch

\* A loop is armed only where none is, and Disarm cancels the one it forgets.
OneWatch == \A l \in Arms : loop[l] = "poll" /\ l \notin disarmed => l = armed

\* The parts of the state that the socket's loops leave alone.
runVars == <<typ, listens, cmd, life, killed, ownStop, exitWatch, starting, stopRun,
             reloadRun, ends, lateRunning, resetVars>>

\* A step that leaves the runs alone keeps what is said of them.
LEMMA RunsUnchanged ==
  ASSUME PyInv, UNCHANGED runVars, backlog' \in BOOLEAN, lapsed' \in BOOLEAN,
         armed' \in 0..MaxArms, disarmed' \subseteq Arms,
         loop' \in [Arms -> {"none", "poll", "disarm", "handler", "done"}], OneWatch'
  PROVE  PyInv'
  <1>1. PyTypeOK'
    BY DEF PyInv, PyTypeOK, runVars, resetVars
  <1>2. SlotInv' /\ LiveRuns' /\ EndsInv'
    BY DEF PyInv, SlotInv, LiveRuns, EndsInv, runVars, resetVars
  <1>3. OneRunOneWatch'
    BY DEF PyInv, OneRunOneWatch, OneWatch, runVars, resetVars
  <1>4. QED
    BY <1>1, <1>2, <1>3 DEF PyInv

\* Disarm, for whoever calls it.
LEMMA Disarmed ==
  ASSUME PyInv, Disarm
  PROVE  /\ armed' \in 0..MaxArms /\ disarmed' \subseteq Arms
         /\ \A l \in Arms : loop[l] = "poll" => l \in disarmed'
  <1>1. armed \in 0..MaxArms /\ disarmed \subseteq Arms /\ MaxArms \in Nat
    BY PyAssumption DEF PyInv, PyTypeOK
  <1>2. \A l \in Arms : loop[l] = "poll" /\ l \notin disarmed => l = armed
    BY DEF PyInv, OneRunOneWatch
  <1>3. QED
    BY <1>1, <1>2 DEF Disarm, Arms

\* The steps of the watch loops, of the traffic and of the runs' own lives that
\* no call makes.
LEMMA WatchKept ==
  ASSUME PyInv,
         Connect \/ Accept \/ (\E l \in Arms : LoopEnds(l) \/ LoopFires(l) \/ LoopDisarms(l))
  PROVE  PyInv'
  <1>t. /\ PyTypeOK /\ OneWatch /\ PyInv
    BY DEF PyInv, OneRunOneWatch, OneWatch
  <1>1. CASE Connect \/ Accept
    <2>1. UNCHANGED <<armed, loop, disarmed, lapsed>> /\ UNCHANGED runVars /\ backlog' \in BOOLEAN
      BY <1>1 DEF Connect, Accept, runVars, resetVars
    <2>2. OneWatch'
      BY <2>1, <1>t DEF OneWatch
    <2>3. QED
      BY <2>1, <2>2, <1>t, RunsUnchanged DEF PyTypeOK
  <1>2. ASSUME NEW l \in Arms, LoopEnds(l) \/ LoopFires(l)
        PROVE  PyInv'
    <2>1. /\ UNCHANGED <<armed, disarmed, lapsed, backlog>> /\ UNCHANGED runVars
          /\ \E x \in {"done", "disarm"} : loop' = [loop EXCEPT ![l] = x]
      BY <1>2 DEF LoopEnds, LoopFires, runVars, resetVars
    <2>2. loop' \in [Arms -> {"none", "poll", "disarm", "handler", "done"}]
      BY <2>1, <1>t DEF PyTypeOK
    <2>3. OneWatch'
      BY <2>1, <1>t DEF OneWatch, PyTypeOK
    <2>4. QED
      BY <2>1, <2>2, <2>3, <1>t, RunsUnchanged DEF PyTypeOK
  <1>3. ASSUME NEW l \in Arms, LoopDisarms(l)
        PROVE  PyInv'
    <2>1. /\ Disarm /\ UNCHANGED <<lapsed, backlog>> /\ UNCHANGED runVars
          /\ loop' = [loop EXCEPT ![l] = "handler"]
      BY <1>3 DEF LoopDisarms, runVars, resetVars
    <2>2. loop' \in [Arms -> {"none", "poll", "disarm", "handler", "done"}]
      BY <2>1, <1>t DEF PyTypeOK
    <2>3. /\ armed' \in 0..MaxArms /\ disarmed' \subseteq Arms
          /\ \A m \in Arms : loop[m] = "poll" => m \in disarmed'
      BY <2>1, <1>t, Disarmed
    <2>4. OneWatch'
      BY <2>1, <2>3, <1>t DEF OneWatch, PyTypeOK
    <2>5. QED
      BY <2>1, <2>2, <2>3, <2>4, <1>t, RunsUnchanged DEF PyTypeOK
  <1>4. QED
    BY <1>1, <1>2, <1>3

\* What Start leaves of the runs: nothing changed, or one run more, in a slot
\* that was free and with every living run killed.
LEMMA Spawned ==
  ASSUME PyInv, Spawn, cmd = 0, starting = 0,
         UNCHANGED <<typ, listens, killed, stopRun, resetting, reloadRun, ends, lateRunning>>
  PROVE  /\ {cmd, starting, stopRun, reloadRun}' \subseteq 0..MaxRuns
         /\ life' \in [Runs -> {"none", "runs", "exited"}] /\ ownStop' \in BOOLEAN
         /\ exitWatch' \in [Runs -> {"none", "wait", "done"}]
         /\ SlotInv' /\ LiveRuns' /\ EndsInv' /\ between' \subseteq Runs
         /\ \A q, r \in Runs : q < r /\ life'[q] = "runs" /\ life'[r] = "runs"
                              => q \in killed' \cup between'
  <1>t. /\ PyTypeOK /\ SlotInv /\ LiveRuns /\ EndsInv /\ OneRunOneWatch
        /\ MaxRuns \in Nat /\ Runs = 1..MaxRuns /\ Runs \subseteq Nat
    BY PyAssumption DEF PyInv, Runs
  <1>1. PICK r \in Runs :
           /\ life[r] = "none" /\ \A q \in Runs : q < r => life[q] # "none"
           /\ cmd' = r /\ life' = [life EXCEPT ![r] = "runs"] /\ ownStop' = FALSE
           /\ starting' = IF typ = "oneshot" THEN r ELSE 0
           /\ exitWatch' = [exitWatch EXCEPT ![r] =
                               IF typ = "oneshot" THEN "none" ELSE "wait"]
           /\ between' = IF resetting THEN between \cup {r} ELSE between
    BY DEF Spawn
  <1>2. /\ life' \in [Runs -> {"none", "runs", "exited"}]
        /\ exitWatch' \in [Runs -> {"none", "wait", "done"}]
        /\ life'[r] = "runs" /\ \A q \in Runs \ {r} : life'[q] = life[q]
        /\ \A q \in Runs \ {r} : exitWatch'[q] = exitWatch[q]
        /\ typ = "oneshot" => exitWatch'[r] = "none"
    BY <1>1, <1>t DEF PyTypeOK
  <1>3. {cmd, starting, stopRun, reloadRun}' \subseteq 0..MaxRuns
    BY <1>1, <1>t DEF PyTypeOK
  <1>4. \A q \in Runs : life[q] = "runs" => q \in killed \cup between
    BY <1>t DEF LiveRuns, Runs
  <1>b. /\ between \subseteq between' /\ between' \subseteq Runs
        /\ resetting => r \in between'
    BY <1>1, <1>t DEF PyTypeOK
  <1>5. SlotInv'
    <2>1. typ # "oneshot" => stopRun = 0
      BY <1>t DEF SlotInv, PyTypeOK
    <2>2. \A s \in {cmd, starting, stopRun}' \ {0} : life'[s] # "none"
      BY <1>1, <1>2, <1>t DEF SlotInv, PyTypeOK
    <2>3. typ' = "oneshot" => cmd' \in {0, starting'} /\ \A q \in Runs : exitWatch'[q] = "none"
      BY <1>1, <1>2, <1>t DEF SlotInv
    <2>4. resetting' => stopRun' = 0 /\ cmd' \in {0} \cup between'
      BY <1>1, <1>b, <1>t DEF SlotInv
    <2>5. QED
      BY <1>1, <2>1, <2>2, <2>3, <2>4 DEF SlotInv
  <1>6. LiveRuns'
    <2>1. ASSUME NEW q \in Runs, NEW s \in Runs, q < s, life'[s] # "none"
          PROVE  life'[q] # "none"
      <3>1. CASE q = r
        BY <3>1, <1>2
      <3>2. CASE q # r /\ s = r
        BY <3>2, <2>1, <1>1, <1>2
      <3>3. CASE q # r /\ s # r
        BY <3>3, <2>1, <1>2, <1>t DEF LiveRuns
      <3>4. QED
        BY <3>1, <3>2, <3>3
    <2>2. \A q \in Runs : life'[q] = "runs" => q \in {cmd', starting'} \cup killed' \cup between'
      BY <1>1, <1>2, <1>4, <1>b
    <2>3. QED
      BY <2>1, <2>2 DEF LiveRuns
  <1>7. EndsInv'
    BY <1>1, <1>2, <1>t DEF EndsInv, PyTypeOK
  <1>8. ASSUME NEW q \in Runs, NEW s \in Runs, q < s, life'[q] = "runs", life'[s] = "runs"
        PROVE  q \in killed' \cup between'
    <2>1. CASE q # r
      BY <2>1, <1>2, <1>4, <1>b, <1>8
    <2>2. CASE q = r
      \* No run after r has begun.
      <3>1. s # r /\ life[s] # "none"
        BY <2>2, <1>2, <1>8, <1>t
      <3>2. QED
        BY <3>1, <2>2, <1>1, <1>8, <1>t DEF LiveRuns
    <2>3. QED
      BY <2>1, <2>2
  <1>9. QED
    BY <1>1, <1>2, <1>3, <1>5, <1>6, <1>7, <1>8, <1>b

\* Start, by an operator or by the traffic handler.
LEMMA StartKept ==
  ASSUME PyInv, OperatorStarts \/ (\E l \in Arms : HandlerStarts(l))
  PROVE  PyInv'
  <1>t. /\ PyTypeOK /\ OneWatch /\ SlotInv /\ LiveRuns /\ EndsInv /\ OneRunOneWatch
    BY DEF PyInv, OneRunOneWatch, OneWatch
  <1>l. /\ loop' \in [Arms -> {"none", "poll", "disarm", "handler", "done"}]
        /\ \A l \in Arms : loop'[l] = "poll" => loop[l] = "poll"
    BY <1>t DEF OperatorStarts, HandlerStarts, PyTypeOK
  <1>1. CASE PyStart
    <2>1. /\ armed' \in 0..MaxArms /\ disarmed' \subseteq Arms /\ starting = 0
          /\ \A l \in Arms : loop[l] = "poll" => l \in disarmed'
          /\ UNCHANGED <<typ, listens, killed, backlog, stopRun, resetting, reloadRun, ends,
                         lateRunning>>
      BY <1>1, Disarmed DEF PyStart
    <2>2. OneWatch'
      BY <2>1, <1>l DEF OneWatch
    <2>3. lapsed' \in BOOLEAN
      BY <1>1, <1>t DEF PyStart, PyTypeOK
    <2>4. CASE UNCHANGED <<cmd, life, ownStop, starting, exitWatch, between>>
      BY <2>1, <2>2, <2>3, <2>4, <1>l, <1>t, RunsUnchanged DEF runVars, resetVars, PyTypeOK
    <2>5. CASE cmd = 0 /\ Spawn
      <3>1. /\ {cmd, starting, stopRun, reloadRun}' \subseteq 0..MaxRuns
            /\ life' \in [Runs -> {"none", "runs", "exited"}] /\ ownStop' \in BOOLEAN
            /\ exitWatch' \in [Runs -> {"none", "wait", "done"}]
            /\ SlotInv' /\ LiveRuns' /\ EndsInv' /\ between' \subseteq Runs
            /\ \A q, r \in Runs : q < r /\ life'[q] = "runs" /\ life'[r] = "runs"
                                 => q \in killed' \cup between'
        BY <2>1, <2>5, Spawned
      <3>2. PyTypeOK'
        BY <2>1, <2>3, <3>1, <1>l, <1>t DEF PyTypeOK
      <3>3. OneRunOneWatch'
        BY <2>1, <2>2, <3>1, <1>t DEF OneRunOneWatch, OneWatch
      <3>4. QED
        BY <3>1, <3>2, <3>3 DEF PyInv
    <2>6. QED
      BY <1>1, <2>4, <2>5 DEF PyStart, PyStartable
  <1>2. CASE ~PyStart
    <2>1. /\ UNCHANGED <<armed, disarmed, lapsed, backlog>> /\ UNCHANGED runVars
      BY <1>2 DEF OperatorStarts, HandlerStarts, runVars, resetVars
    <2>2. OneWatch'
      BY <2>1, <1>l, <1>t DEF OneWatch
    <2>3. QED
      BY <2>1, <2>2, <1>l, <1>t, RunsUnchanged DEF PyTypeOK
  <1>3. QED
    BY <1>1, <1>2

\* The end of a run is published, and the slot is cleared.
LEMMA EndKept ==
  ASSUME PyInv, NEW r \in Runs, life[r] # "none", EndPublished(r), reloadRun = 0,
         cmd' = 0, reloadRun' = 0, life' = life
  PROVE  EndsInv' /\ ends' \in [Runs -> Nat]
  BY DEF PyInv, PyTypeOK, EndsInv, EndPublished

\* A one-shot's Start returns.
LEMMA OneshotKept ==
  ASSUME PyInv, OneshotReturns
  PROVE  PyInv'
  <1>t. /\ PyTypeOK /\ SlotInv /\ LiveRuns /\ EndsInv /\ OneRunOneWatch
        /\ MaxRuns \in Nat /\ Runs = 1..MaxRuns
    BY PyAssumption DEF PyInv, Runs
  <1>1. /\ starting # 0 /\ life[starting] = "exited" /\ reloadRun = 0
        /\ EndPublished(starting) /\ starting' = 0 /\ cmd' = 0 /\ lapsed' = TRUE
        /\ UNCHANGED <<typ, listens, life, killed, ownStop, exitWatch, armed, loop,
                       disarmed, backlog, stopRun, reloadRun, lateRunning, resetting,
                       between>>
    BY DEF OneshotReturns, Lockable, resetVars
  <1>2. starting \in Runs /\ cmd \in {0, starting} /\ typ = "oneshot"
    BY <1>1, <1>t DEF SlotInv, PyTypeOK
  <1>3. EndsInv' /\ ends' \in [Runs -> Nat]
    BY <1>1, <1>2, EndKept
  <1>4. PyTypeOK'
    BY <1>1, <1>3, <1>t DEF PyTypeOK
  <1>5. SlotInv'
    BY <1>1, <1>2, <1>t DEF SlotInv
  <1>6. LiveRuns'
    BY <1>1, <1>2, <1>t DEF LiveRuns
  <1>7. OneRunOneWatch'
    BY <1>1, <1>t DEF OneRunOneWatch
  <1>8. QED
    BY <1>3, <1>4, <1>5, <1>6, <1>7 DEF PyInv

\* The exit watcher of a service.
LEMMA ExitWatcherKept ==
  ASSUME PyInv, NEW r \in Runs, ExitWatcher(r)
  PROVE  PyInv'
  <1>t. /\ PyTypeOK /\ SlotInv /\ LiveRuns /\ EndsInv /\ OneRunOneWatch
        /\ MaxRuns \in Nat /\ Runs = 1..MaxRuns /\ r # 0
    BY PyAssumption DEF PyInv, Runs
  <1>1. /\ exitWatch[r] = "wait" /\ life[r] = "exited" /\ reloadRun = 0
        /\ exitWatch' = [exitWatch EXCEPT ![r] = "done"]
        /\ UNCHANGED <<typ, listens, life, killed, ownStop, armed, loop, disarmed, backlog,
                       starting, stopRun, reloadRun, lateRunning, resetting, between>>
        /\ \/ ~ownStop /\ cmd = r /\ cmd' = 0 /\ EndPublished(r) /\ lapsed' = TRUE
           \/ UNCHANGED <<cmd, ends, lapsed>>
    BY DEF ExitWatcher, Lockable, resetVars
  <1>2. typ # "oneshot" /\ starting = 0
    BY <1>1, <1>t DEF SlotInv
  <1>3. exitWatch' \in [Runs -> {"none", "wait", "done"}]
    BY <1>1, <1>t DEF PyTypeOK
  <1>4. OneRunOneWatch'
    BY <1>1, <1>t DEF OneRunOneWatch
  <1>5. CASE ~ownStop /\ cmd = r /\ cmd' = 0 /\ EndPublished(r) /\ lapsed' = TRUE
    <2>1. EndsInv' /\ ends' \in [Runs -> Nat]
      BY <1>1, <1>5, EndKept
    <2>2. PyTypeOK'
      BY <1>1, <1>3, <1>5, <2>1, <1>t DEF PyTypeOK
    <2>3. SlotInv'
      BY <1>1, <1>2, <1>5, <1>t DEF SlotInv
    <2>4. LiveRuns'
      BY <1>1, <1>2, <1>5, <1>t DEF LiveRuns
    <2>5. QED
      BY <1>4, <2>1, <2>2, <2>3, <2>4 DEF PyInv
  <1>6. CASE UNCHANGED <<cmd, ends, lapsed>>
    <2>1. EndsInv'
      BY <1>1, <1>6, <1>t DEF EndsInv
    <2>2. PyTypeOK'
      BY <1>1, <1>3, <1>6, <1>t DEF PyTypeOK
    <2>3. SlotInv'
      BY <1>1, <1>2, <1>6, <1>t DEF SlotInv
    <2>4. LiveRuns'
      BY <1>1, <1>6, <1>t DEF LiveRuns
    <2>5. QED
      BY <1>4, <2>1, <2>2, <2>3, <2>4 DEF PyInv
  <1>7. QED
    BY <1>1, <1>5, <1>6

\* Stop begins.
LEMMA StopKept ==
  ASSUME PyInv, PyStop
  PROVE  PyInv'
  <1>t. PyTypeOK /\ SlotInv /\ LiveRuns /\ EndsInv /\ OneRunOneWatch
    BY DEF PyInv
  <1>1. /\ UNCHANGED <<typ, listens, cmd, life, killed, exitWatch, armed, loop, disarmed,
                       backlog, starting, reloadRun, ends, lateRunning, lapsed, between>>
        /\ ~resetting /\ stopRun = 0
        /\ \/ cmd # 0 /\ stopRun' = cmd /\ ownStop' = TRUE /\ resetting' = FALSE
           \/ cmd = 0 /\ resetting' = TRUE /\ stopRun' = 0 /\ ownStop' = ownStop
    BY DEF PyStop
  <1>2. PyTypeOK'
    BY <1>1, <1>t DEF PyTypeOK
  <1>3. SlotInv'
    BY <1>1, <1>t DEF SlotInv
  <1>4. LiveRuns' /\ EndsInv'
    BY <1>1, <1>t DEF LiveRuns, EndsInv
  <1>5. OneRunOneWatch'
    BY <1>1, <1>t DEF OneRunOneWatch
  <1>6. QED
    BY <1>2, <1>3, <1>4, <1>5 DEF PyInv

\* The socket is armed again, with a loop that is new.
LEMMA Rearmed ==
  ASSUME PyInv, Rearm, UNCHANGED disarmed
  PROVE  /\ armed' \in 0..MaxArms
         /\ loop' \in [Arms -> {"none", "poll", "disarm", "handler", "done"}]
         /\ OneWatch'
  <1>t. /\ PyTypeOK /\ OneWatch /\ MaxArms \in Nat /\ Arms = 1..MaxArms
    BY PyAssumption DEF PyInv, OneRunOneWatch, OneWatch, Arms
  <1>1. CASE UNCHANGED <<armed, loop>>
    BY <1>1, <1>t DEF PyTypeOK, OneWatch
  <1>2. ASSUME NEW l \in Arms, armed = 0, armed' = l, loop' = [loop EXCEPT ![l] = "poll"]
        PROVE  /\ armed' \in 0..MaxArms
               /\ loop' \in [Arms -> {"none", "poll", "disarm", "handler", "done"}]
               /\ OneWatch'
    BY <1>2, <1>t DEF PyTypeOK, OneWatch
  <1>3. QED
    BY <1>1, <1>2 DEF Rearm, ArmLocked

\* Stop ends: its run has exited or was killed.
LEMMA StopEndsKept ==
  ASSUME PyInv, PyStopEnds
  PROVE  PyInv'
  <1>t. /\ PyTypeOK /\ SlotInv /\ LiveRuns /\ EndsInv /\ OneRunOneWatch
        /\ MaxRuns \in Nat /\ Runs = 1..MaxRuns
    BY PyAssumption DEF PyInv, Runs
  <1>1. /\ stopRun # 0 /\ reloadRun = 0 /\ EndPublished(stopRun)
        /\ stopRun' = 0 /\ resetting' = TRUE /\ cmd' = 0 /\ Rearm /\ lapsed' = FALSE
        /\ UNCHANGED <<typ, listens, life, ownStop, exitWatch, disarmed, backlog, starting,
                       reloadRun, lateRunning, between>>
        /\ \/ life[stopRun] = "exited" /\ killed' = killed
           \/ cmd # 0 /\ killed' = killed \cup {cmd}
    BY DEF PyStopEnds, Lockable
  <1>2. stopRun \in Runs /\ life[stopRun] # "none"
    BY <1>1, <1>t DEF SlotInv, PyTypeOK
  <1>3. EndsInv' /\ ends' \in [Runs -> Nat]
    BY <1>1, <1>2, EndKept
  <1>4. /\ armed' \in 0..MaxArms
        /\ loop' \in [Arms -> {"none", "poll", "disarm", "handler", "done"}]
        /\ OneWatch'
    BY <1>1, Rearmed
  <1>c. cmd # 0 => cmd \in Runs
    BY <1>t DEF PyTypeOK
  <1>5. killed \subseteq killed' /\ killed' \subseteq Runs
    <2>1. killed \subseteq Runs
      BY <1>t DEF PyTypeOK
    <2>2. QED
      BY <1>1, <1>c, <2>1
  <1>6. PyTypeOK'
    BY <1>1, <1>3, <1>4, <1>5, <1>t DEF PyTypeOK
  <1>7. SlotInv'
    BY <1>1, <1>t DEF SlotInv
  <1>8. LiveRuns'
    <2>1. CASE typ = "oneshot"
      BY <2>1, <1>1, <1>5, <1>t DEF LiveRuns, SlotInv
    <2>2. CASE typ # "oneshot"
      <3>1. cmd = stopRun
        BY <2>2, <1>1, <1>t DEF SlotInv
      <3>2. life[cmd] = "runs" => cmd \in killed'
        BY <3>1, <1>1
      <3>3. QED
        BY <3>2, <1>1, <1>5, <1>t DEF LiveRuns
    <2>3. QED
      BY <2>1, <2>2
  <1>9. OneRunOneWatch'
    BY <1>1, <1>4, <1>5, <1>t DEF OneRunOneWatch, OneWatch
  <1>10. QED
    BY <1>3, <1>6, <1>7, <1>8, <1>9 DEF PyInv

\* Reset finds an empty slot, or a run started since Stop returned.
LEMMA ResetKept ==
  ASSUME PyInv, PyReset
  PROVE  PyInv'
  <1>t. /\ PyTypeOK /\ SlotInv /\ LiveRuns /\ EndsInv /\ OneRunOneWatch
        /\ MaxRuns \in Nat
    BY PyAssumption DEF PyInv
  <1>1. /\ resetting /\ resetting' = FALSE /\ cmd' = 0 /\ lapsed' \in BOOLEAN
        /\ UNCHANGED <<typ, listens, life, killed, ownStop, exitWatch, armed, loop, disarmed,
                       backlog, starting, stopRun, reloadRun, ends, lateRunning, between>>
    BY <1>t DEF PyReset, PyTypeOK
  <1>2. stopRun = 0 /\ cmd \in {0} \cup between
    BY <1>1, <1>t DEF SlotInv
  <1>c. {cmd, starting, stopRun, reloadRun}' \subseteq 0..MaxRuns
    BY <1>1, <1>t DEF PyTypeOK
  <1>3. PyTypeOK'
    BY <1>1, <1>c, <1>t DEF PyTypeOK
  <1>4. SlotInv' /\ EndsInv'
    BY <1>1, <1>2, <1>t DEF SlotInv, EndsInv
  <1>5. LiveRuns'
    BY <1>1, <1>2, <1>t DEF LiveRuns, Runs
  <1>6. OneRunOneWatch'
    BY <1>1, <1>t DEF OneRunOneWatch
  <1>7. QED
    BY <1>3, <1>4, <1>5, <1>6 DEF PyInv

\* Reload, which holds the lock from its check to its report.
LEMMA ReloadKept ==
  ASSUME PyInv, PyReload \/ PyReloadEnds
  PROVE  PyInv'
  <1>t. PyTypeOK /\ SlotInv /\ LiveRuns /\ EndsInv /\ OneRunOneWatch
    BY DEF PyInv
  <1>1. UNCHANGED <<typ, listens, cmd, life, killed, ownStop, exitWatch, armed, loop,
                    disarmed, backlog, starting, stopRun, ends, lapsed, resetting, between>>
    BY DEF PyReload, PyReloadEnds, resetVars
  <1>2. reloadRun' \in {0, cmd}
    BY DEF PyReload, PyReloadEnds
  <1>3. lateRunning' = {}
    <2>1. CASE PyReload
      BY <2>1, <1>t DEF PyReload, OneRunOneWatch
    <2>2. CASE PyReloadEnds
      <3>1. reloadRun # 0 /\ lateRunning' = lateRunning \cup {r \in {reloadRun} : ends[r] > 0}
        BY <2>2 DEF PyReloadEnds
      <3>2. ends[reloadRun] = 0
        BY <3>1, <1>t DEF EndsInv
      <3>3. QED
        BY <3>1, <3>2, <1>t DEF OneRunOneWatch
    <2>3. QED
      BY <2>1, <2>2
  <1>4. PyTypeOK'
    <2>1. reloadRun' \in 0..MaxRuns
      BY <1>2, <1>t, PyAssumption DEF PyTypeOK
    <2>2. QED
      BY <1>1, <1>3, <2>1, <1>t DEF PyTypeOK
  <1>5. SlotInv' /\ LiveRuns'
    BY <1>1, <1>t DEF SlotInv, LiveRuns
  <1>6. EndsInv'
    BY <1>1, <1>2, <1>t DEF EndsInv
  <1>7. OneRunOneWatch'
    BY <1>1, <1>3, <1>t DEF OneRunOneWatch
  <1>8. QED
    BY <1>4, <1>5, <1>6, <1>7 DEF PyInv

\* A process exits.
LEMMA ExitKept ==
  ASSUME PyInv, NEW r \in Runs, ProcessExits(r)
  PROVE  PyInv'
  <1>t. /\ PyTypeOK /\ SlotInv /\ LiveRuns /\ EndsInv /\ OneRunOneWatch
        /\ MaxRuns \in Nat /\ Runs = 1..MaxRuns
    BY PyAssumption DEF PyInv, Runs
  <1>1. /\ life[r] = "runs" /\ life' = [life EXCEPT ![r] = "exited"]
        /\ UNCHANGED <<typ, listens, cmd, killed, ownStop, exitWatch, armed, loop, disarmed,
                       backlog, starting, stopRun, reloadRun, ends, lateRunning, lapsed,
                       resetting, between>>
    BY DEF ProcessExits, resetVars
  <1>2. /\ life' \in [Runs -> {"none", "runs", "exited"}]
        /\ \A q \in Runs : life'[q] = "none" <=> life[q] = "none"
        /\ \A q \in Runs : life'[q] = "runs" => life[q] = "runs"
    BY <1>1, <1>t DEF PyTypeOK
  <1>3. PyTypeOK'
    BY <1>1, <1>2, <1>t DEF PyTypeOK
  <1>4. SlotInv'
    <2>1. \A q \in {cmd, starting, stopRun} \ {0} : life'[q] # "none"
      BY <1>2, <1>t DEF SlotInv, PyTypeOK
    <2>2. QED
      BY <2>1, <1>1, <1>t DEF SlotInv
  <1>5. LiveRuns' /\ EndsInv'
    BY <1>1, <1>2, <1>t DEF LiveRuns, EndsInv
  <1>6. OneRunOneWatch'
    BY <1>1, <1>2, <1>t DEF OneRunOneWatch
  <1>7. QED
    BY <1>3, <1>4, <1>5, <1>6 DEF PyInv

\* One process, but for a killed one and one that Reset let go, one watch loop and
\* no late RUNNING, for any number of runs, of arms and of calls.
THEOREM PyOneRunOneWatch == PySpec => []OneRunOneWatch
  <1>1. PyInit => PyInv
    <2>1. ASSUME PyInit
          PROVE  PyTypeOK
      <3>1. 0 \in 0..MaxRuns /\ {0, 1} \subseteq 0..MaxArms
        BY PyAssumption
      <3>2. armed \in 0..MaxArms
        BY <2>1, <3>1 DEF PyInit
      <3>3. /\ life \in [Runs -> {"none", "runs", "exited"}]
            /\ exitWatch \in [Runs -> {"none", "wait", "done"}]
            /\ loop \in [Arms -> {"none", "poll", "disarm", "handler", "done"}]
            /\ ends \in [Runs -> Nat]
        BY <2>1 DEF PyInit
      <3>4. /\ typ \in PyTypes /\ listens \in BOOLEAN /\ ownStop = FALSE
            /\ backlog = FALSE /\ lapsed = FALSE
            /\ killed = {} /\ disarmed = {} /\ lateRunning = {}
            /\ resetting = FALSE /\ between = {}
        BY <2>1 DEF PyInit
      <3>5. {cmd, starting, stopRun, reloadRun} \subseteq 0..MaxRuns
        BY <2>1, <3>1 DEF PyInit
      <3>6. QED
        BY <3>2, <3>3, <3>4, <3>5 DEF PyTypeOK
    <2>2. ASSUME PyInit
          PROVE  SlotInv /\ LiveRuns /\ EndsInv
      BY <2>2 DEF PyInit, SlotInv, LiveRuns, EndsInv
    <2>3. ASSUME PyInit
          PROVE  OneRunOneWatch
      BY <2>3, PyAssumption DEF PyInit, OneRunOneWatch, Arms
    <2>4. QED
      BY <2>1, <2>2, <2>3 DEF PyInv
  <1>2. PyInv /\ [PyNext]_pyVars => PyInv'
    <2>1. ASSUME PyInv, UNCHANGED pyVars
          PROVE  PyInv'
      <3>1. PyTypeOK' /\ SlotInv' /\ LiveRuns' /\ EndsInv'
        BY <2>1 DEF PyInv, pyVars, resetVars, PyTypeOK, SlotInv, LiveRuns, EndsInv
      <3>2. OneRunOneWatch'
        BY <2>1 DEF PyInv, pyVars, resetVars, OneRunOneWatch
      <3>3. QED
        BY <3>1, <3>2 DEF PyInv
    <2>2. QED
      BY <2>1, WatchKept, StartKept, OneshotKept, ExitWatcherKept, StopKept, StopEndsKept,
         ResetKept, ReloadKept, ExitKept DEF PyNext, LoopWork
  <1>3. PyInv => OneRunOneWatch
    BY DEF PyInv
  <1>4. QED
    BY <1>1, <1>2, <1>3, PTL DEF PySpec

-----------------------------------------------------------------------------
(* The kits side by side: a behaviour exercises one, and the other has     *)
(* ended before it began.                                                  *)

\* Whichever kit an agent is built on, the supervisor can hear the end of it.
THEOREM DaemonControlHeard == MCDaemonSpec => []ControlHeard
  <1>1. MCDaemonInit => KitInv /\ PyKitInv
    BY KitInvAtFirst, PyKitInvAtFirst DEF MCDaemonInit
  <1>2. KitInv /\ PyKitInv
        /\ [MCDaemonNext]_<<part, gapidVars, pyVars, kitVars, pyKitVars>>
        => (KitInv /\ PyKitInv)'
    <2>1. [MCDaemonNext]_<<part, gapidVars, pyVars, kitVars, pyKitVars>>
          => [KitNext]_kitVars /\ [PyKitNext]_pyKitVars
      BY DEF MCDaemonNext
    <2>2. QED
      BY <2>1, KitTyped, SaidKept, FdsKept, PyKitInvKept DEF KitInv
  <1>3. KitInv /\ PyKitInv => ControlHeard
    BY DEF KitInv, FdsInv, PyKitInv, ControlHeard
  <1>4. QED
    BY <1>1, <1>2, <1>3, PTL DEF MCDaemonSpec
=============================================================================
