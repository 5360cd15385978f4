--------------------------- MODULE AdoptedProcess ---------------------------
(***************************************************************************)
(* A process that CRIU restored and the runner adopted (core/agentmgr      *)
(* adopted.go and checkpoint.go, core/procsig, core/checkpoint, the reap   *)
(* loop of core/subreaper).  The runner holds a bare PID: a claim is the   *)
(* PID and the start epoch found at it, and signals go out only under the  *)
(* epoch.  PIDs are recycled.                                              *)
(*                                                                         *)
(* Processes are numbered in the order they start, and a process's number  *)
(* is its start epoch: two processes that use one PID never start in the   *)
(* same clock tick.  0 is no process, no PID, no watcher.  The agent's     *)
(* mutex is what makes a step atomic; no step that waits holds it.  Nothing *)
(* keeps a second Stop from entering while another one waits.              *)
(***************************************************************************)
EXTENDS Naturals, FiniteSets

CONSTANTS
    Pids,          \* PIDs the kernel hands out, positive
    MaxProcs,      \* bound: processes that ever exist
    Stoppers,      \* callers of the runner's Stop and Reset
    SignalFails    \* delivery may fail with an error that is none of procsig's

ASSUME AdoptAssumption ==
    /\ Pids \subseteq Nat \ {0} /\ MaxProcs \in Nat /\ SignalFails \in BOOLEAN

Procs == 1..MaxProcs
Epochs == 0..MaxProcs

VARIABLES
    born,         \* processes started so far
    at,           \* the process in each /proc entry, 0 when there is none
    pst,          \* a process runs, is a zombie, or is gone
    pending,      \* the signals sent to it
    claim,        \* adoptedPid and adoptedEpoch
    stopping,     \* GoAgent.stopping, PythonAgent.stopping
    watch,        \* adoptedWatch: the epoch of the watcher, which names it
    wpc, wpid,    \* a watcher's program counter, the PID it watches
    cancelled,    \* watchers whose context is cancelled
    rpc, rpid, rprev,   \* Restore: its place, the restored PID, who it joins
    \* of each Stop or Reset:
    spc, tgt, sprev,    \* its place, the claim it took, who it joins
    sig, fd,      \* the signal under way, the process it has pinned
    result,       \* what stopAdopted returns
    dpid,         \* the PID Checkpoint read and is about to dump
    \* history
    recorded,     \* processes whose epoch some adopt recorded
    signalled,    \* processes a Stop sent a signal to
    ended,        \* how often the end of a claimed process was published
    overlapped    \* processes whose claim a Stop took with another Stop under way

kernel   == <<born, at, pst, pending>>
agent    == <<claim, stopping, watch>>
watchers == <<wpc, wpid, cancelled>>
restorer == <<rpc, rpid, rprev>>
stopper  == <<spc, tgt, sprev, sig, fd, result>>
history  == <<recorded, signalled, ended, overlapped>>
adoptVars == <<kernel, agent, watchers, restorer, stopper, dpid, history>>

NoClaim == [pid |-> 0, epoch |-> 0]

-----------------------------------------------------------------------------
(* The kernel and the reap loop.                                           *)

\* A process starts at a PID nobody uses.
Occupy(p) ==
    /\ born < MaxProcs /\ at[p] = 0
    /\ born' = born + 1
    /\ at' = [at EXCEPT ![p] = born + 1]
    /\ pst' = [pst EXCEPT ![born + 1] = "runs"]
    /\ UNCHANGED pending

Fork(p) ==
    /\ Occupy(p)
    /\ UNCHANGED <<agent, watchers, restorer, stopper, dpid, history>>

\* It exits, of itself or of a signal.
Die(i) ==
    /\ pst[i] = "runs"
    /\ pst' = [pst EXCEPT ![i] = "zombie"]
    /\ UNCHANGED <<born, at, pending, agent, watchers, restorer, stopper, dpid,
                   history>>

\* ReapLoopWithObserver drains whatever Wait4 returns; NotifyExited only logs,
\* so who the exit is credited to is no state.
Reap(p) ==
    /\ at[p] # 0 /\ pst[at[p]] = "zombie"
    /\ pst' = [pst EXCEPT ![at[p]] = "gone"]
    /\ at' = [at EXCEPT ![p] = 0]
    /\ UNCHANGED <<born, pending, agent, watchers, restorer, stopper, dpid,
                   history>>

-----------------------------------------------------------------------------
(* The exit watcher and the liveness check it shares with Stop.            *)

\* Mutant of HasExited: a recycled PID counts as the process that had it.
HasExitedAnyEpoch(c) == ~\E i \in Procs : at[c.pid] = i /\ pst[i] = "runs"

\* adoptedHasExited: no /proc entry, another epoch, or a zombie.
HasExited(c) ==
    ~\E i \in Procs : at[c.pid] = i /\ c.epoch = i /\ pst[i] = "runs"

Watched(w) == [pid |-> wpid[w], epoch |-> w]

\* A tick of newAdoptedWatch's goroutine that finds the process gone; one that
\* does not changes nothing.
WatchSees(w) ==
    /\ wpc[w] = "poll" /\ HasExited(Watched(w))
    /\ wpc' = [wpc EXCEPT ![w] = "report"]
    /\ UNCHANGED <<kernel, agent, wpid, cancelled, restorer, stopper, dpid,
                   history>>

\* The select of the poll loop finds the context cancelled; a tick ready at
\* the same moment may still be served instead.
WatchCancelled(w) ==
    /\ wpc[w] = "poll" /\ w \in cancelled
    /\ wpc' = [wpc EXCEPT ![w] = "done"]
    /\ UNCHANGED <<kernel, agent, wpid, cancelled, restorer, stopper, dpid,
                   history>>

\* Mutant of Owns: a watcher reports whoever is stopping the process.
OwnsAlways(w) == claim = Watched(w)

\* adoptedExited defers to a Stop and to whoever replaced the claim.
Owns(w) == ~stopping /\ claim = Watched(w)

Publish(e) == ended' = [ended EXCEPT ![e] = @ + 1]

WatchReports(w) ==
    /\ wpc[w] = "report"
    /\ wpc' = [wpc EXCEPT ![w] = "done"]
    /\ \/ Owns(w) /\ claim' = NoClaim /\ Publish(w)
       \/ ~Owns(w) /\ UNCHANGED <<claim, ended>>
    /\ UNCHANGED <<kernel, stopping, watch, wpid, cancelled, restorer, stopper,
                   dpid, recorded, signalled, overlapped>>

\* takeAdoptedWatchLocked and the cancel of adoptedWatch.stop; Joined is its
\* wait, which the caller does with the lock released.
TakeWatch == watch' = 0 /\ cancelled' = cancelled \cup ({watch} \ {0})

Joined(w) == w # 0 => wpc[w] = "done"

-----------------------------------------------------------------------------
(* Restore and adopt.                                                      *)

\* CRIU recreates the process; a restore that fails changes nothing.
Restore(p) ==
    /\ rpc = "idle" /\ Occupy(p)
    /\ rpc' = "restored" /\ rpid' = p
    /\ UNCHANGED <<agent, watchers, rprev, stopper, dpid, history>>

AdoptRetires ==
    /\ rpc = "restored"
    /\ TakeWatch /\ rprev' = watch
    /\ rpc' = "adopting"
    /\ UNCHANGED <<kernel, claim, stopping, wpc, wpid, rpid, stopper, dpid,
                   history>>

\* The epoch is whatever runs at the PID by now; if nothing does, the PID is
\* claimed with no epoch and no watcher.
AdoptRecords ==
    /\ rpc = "adopting" /\ Joined(rprev)
    /\ rpc' = "idle"
    /\ claim' = [pid |-> rpid, epoch |-> at[rpid]]
    /\ stopping' = FALSE
    /\ recorded' = recorded \cup ({at[rpid]} \ {0})
    /\ \/ /\ at[rpid] # 0
          /\ watch' = at[rpid]
          /\ wpid' = [wpid EXCEPT ![at[rpid]] = rpid]
          /\ wpc' = [wpc EXCEPT ![at[rpid]] = "poll"]
       \/ at[rpid] = 0 /\ UNCHANGED <<watch, wpid, wpc>>
    /\ rpid' = 0 /\ rprev' = 0
    /\ UNCHANGED <<kernel, cancelled, stopper, dpid, signalled, ended, overlapped>>

-----------------------------------------------------------------------------
(* Stop and Reset.                                                         *)

Goes(s, place) == spc' = [spc EXCEPT ![s] = place]
Returns(s, why) == result' = [result EXCEPT ![s] = why]

\* A Stop is under way that took a claim.
Stopping(s) == tgt[s].pid # 0

\* Stop of an agent with no child: with a claim it takes the watcher and the
\* claim to stop, without one it only joins the watcher.  It does not look
\* whether another Stop is doing so.
StopAdopted(s) ==
    /\ spc[s] = "idle"
    /\ TakeWatch /\ sprev' = [sprev EXCEPT ![s] = watch]
    /\ tgt' = [tgt EXCEPT ![s] = claim]
    /\ \/ claim.pid # 0 /\ stopping' = TRUE /\ Goes(s, "joining")
       \/ claim.pid = 0 /\ UNCHANGED stopping /\ Goes(s, "leaving")
    /\ overlapped' = IF \E t \in Stoppers : Stopping(t)
                     THEN overlapped \cup ({claim.epoch} \ {0}) ELSE overlapped
    /\ UNCHANGED <<kernel, claim, wpc, wpid, restorer, sig, fd, result, dpid,
                   recorded, signalled, ended>>

ResetAdopted(s) ==
    /\ spc[s] = "idle"
    /\ TakeWatch /\ sprev' = [sprev EXCEPT ![s] = watch]
    /\ claim' = NoClaim /\ Goes(s, "leaving")
    /\ UNCHANGED <<kernel, stopping, wpc, wpid, restorer, tgt, sig, fd, result,
                   dpid, history>>

StopJoins(s) ==
    /\ Joined(sprev[s])
    /\ \/ spc[s] = "joining" /\ Goes(s, "check")
       \/ spc[s] = "leaving" /\ Goes(s, "idle")
    /\ sprev' = [sprev EXCEPT ![s] = 0]
    /\ UNCHANGED <<kernel, agent, watchers, restorer, tgt, sig, fd, result, dpid,
                   history>>

\* procsig.Signal ends early: the process is gone, its PID is another's, or the
\* kernel refuses.  After SIGKILL only the last two keep Stop from its grace.
Ends(s, why) ==
    \/ why = "gone" /\ sig[s] = "TERM" /\ Returns(s, "exited") /\ Goes(s, "settle")
    \/ why = "gone" /\ sig[s] = "KILL" /\ Goes(s, "wait") /\ UNCHANGED result
    \/ why # "gone" /\ Returns(s, why) /\ Goes(s, "settle")

\* StartEpoch(pid) compared with the epoch the caller holds.
Checks(s, next) ==
    LET there == at[tgt[s].pid] IN
    \/ there = 0 /\ Ends(s, "gone")
    \/ there \notin {0, tgt[s].epoch} /\ Ends(s, "stale")
    \/ there = tgt[s].epoch /\ there # 0 /\ Goes(s, next) /\ UNCHANGED result
    \/ SignalFails /\ Ends(s, "failed")

SignalChecks(s) ==
    /\ spc[s] = "check" /\ Checks(s, "pin")
    /\ UNCHANGED <<kernel, agent, watchers, restorer, tgt, sprev, sig, fd, dpid,
                   history>>

\* pidfd_open pins whatever process has the PID by now.
SignalPins(s) ==
    /\ spc[s] = "pin"
    /\ fd' = [fd EXCEPT ![s] = at[tgt[s].pid]]
    /\ \/ at[tgt[s].pid] = 0 /\ Ends(s, "gone")
       \/ at[tgt[s].pid] # 0 /\ Goes(s, "recheck") /\ UNCHANGED result
       \/ SignalFails /\ Ends(s, "failed")
    /\ UNCHANGED <<kernel, agent, watchers, restorer, tgt, sprev, sig, dpid,
                   history>>

\* Mutant of SignalRechecks: the pinned process is not checked again.
SignalNoRecheck(s) ==
    /\ spc[s] = "recheck" /\ Goes(s, "send")
    /\ UNCHANGED <<kernel, agent, watchers, restorer, tgt, sprev, sig, fd, result,
                   dpid, history>>

SignalRechecks(s) ==
    /\ spc[s] = "recheck" /\ Checks(s, "send")
    /\ UNCHANGED <<kernel, agent, watchers, restorer, tgt, sprev, sig, fd, dpid,
                   history>>

\* pidfd_send_signal: a process that was reaped meanwhile has no taker.
SignalSends(s) ==
    /\ spc[s] = "send"
    /\ \/ /\ pst[fd[s]] = "gone" /\ Ends(s, "gone")
          /\ UNCHANGED <<pending, signalled>>
       \/ /\ pst[fd[s]] # "gone"
          /\ pending' = [pending EXCEPT ![fd[s]] = @ \cup {sig[s]}]
          /\ signalled' = signalled \cup {fd[s]}
          /\ Goes(s, "wait") /\ UNCHANGED result
       \/ SignalFails /\ Ends(s, "failed") /\ UNCHANGED <<pending, signalled>>
    /\ UNCHANGED <<born, at, pst, agent, watchers, restorer, tgt, sprev, sig, fd,
                   dpid, recorded, ended, overlapped>>

\* waitAdoptedExit: until the exit is seen, or until the deadline, when it
\* looks once more.  The wait after SIGKILL ends either way.
StopWaits(s) ==
    /\ spc[s] = "wait"
    /\ \/ /\ sig[s] = "TERM" /\ HasExited(tgt[s])
          /\ Returns(s, "exited") /\ Goes(s, "settle") /\ UNCHANGED sig
       \/ /\ sig[s] = "TERM" /\ ~HasExited(tgt[s])
          /\ sig' = [sig EXCEPT ![s] = "KILL"] /\ Goes(s, "check") /\ UNCHANGED result
       \/ sig[s] = "KILL" /\ Returns(s, "killed") /\ Goes(s, "settle") /\ UNCHANGED sig
    /\ UNCHANGED <<kernel, agent, watchers, restorer, tgt, sprev, fd, dpid, history>>

\* adoptedStopStatus and the end of stopAdoptedLocked: STOPPED or, for a
\* recycled PID, FAILED; the claim that is there by now, whosever it is, is
\* dropped.
StopSettles(s) ==
    /\ spc[s] = "settle"
    /\ \/ result[s] = "failed" /\ stopping' = FALSE /\ UNCHANGED <<claim, ended>>
       \/ /\ result[s] # "failed"
          /\ claim' = NoClaim /\ UNCHANGED stopping
          /\ Publish(tgt[s].epoch)
    /\ Goes(s, "idle") /\ Returns(s, "none")
    /\ tgt' = [tgt EXCEPT ![s] = NoClaim]
    /\ sig' = [sig EXCEPT ![s] = "TERM"] /\ fd' = [fd EXCEPT ![s] = 0]
    /\ UNCHANGED <<kernel, watch, watchers, restorer, sprev, dpid, recorded,
                   signalled, overlapped>>

-----------------------------------------------------------------------------
(* Checkpoint: Pid, then a dump of whatever runs at that PID, which CRIU   *)
(* stops (LeaveRunning is false) and the reap loop collects.               *)

Checkpoint ==
    /\ dpid = 0 /\ claim.pid # 0
    /\ dpid' = claim.pid
    /\ UNCHANGED <<kernel, agent, watchers, restorer, stopper, history>>

Dump ==
    /\ dpid # 0 /\ dpid' = 0
    /\ \/ /\ at[dpid] # 0 /\ pst[at[dpid]] = "runs"
          /\ pst' = [pst EXCEPT ![at[dpid]] = "zombie"]
       \/ UNCHANGED pst
    /\ UNCHANGED <<born, at, pending, agent, watchers, restorer, stopper, history>>

-----------------------------------------------------------------------------
AdoptInit ==
    /\ born = 0 /\ at = [p \in Pids |-> 0]
    /\ pst = [i \in Procs |-> "none"] /\ pending = [i \in Procs |-> {}]
    /\ claim = NoClaim /\ stopping = FALSE /\ watch = 0
    /\ wpc = [i \in Procs |-> "none"] /\ wpid = [i \in Procs |-> 0]
    /\ cancelled = {}
    /\ rpc = "idle" /\ rpid = 0 /\ rprev = 0
    /\ spc = [s \in Stoppers |-> "idle"] /\ tgt = [s \in Stoppers |-> NoClaim]
    /\ sprev = [s \in Stoppers |-> 0] /\ sig = [s \in Stoppers |-> "TERM"]
    /\ fd = [s \in Stoppers |-> 0] /\ result = [s \in Stoppers |-> "none"]
    /\ dpid = 0 /\ recorded = {} /\ signalled = {}
    /\ ended = [e \in Epochs |-> 0] /\ overlapped = {}

WatchStep(w) == WatchSees(w) \/ WatchCancelled(w) \/ WatchReports(w)
SignalStep(s) ==
    SignalChecks(s) \/ SignalPins(s) \/ SignalRechecks(s) \/ SignalSends(s)
StopStep(s)  == StopJoins(s) \/ SignalStep(s) \/ StopWaits(s) \/ StopSettles(s)
AdoptStep    == AdoptRetires \/ AdoptRecords

AdoptNext ==
    \/ \E p \in Pids : Fork(p) \/ Reap(p) \/ Restore(p)
    \/ \E i \in Procs : Die(i) \/ WatchStep(i)
    \/ \E s \in Stoppers : StopAdopted(s) \/ ResetAdopted(s) \/ StopStep(s)
    \/ AdoptStep
    \/ Checkpoint \/ Dump

\* The reap loop, the watchers' tickers and the calls' deadlines go on; a
\* process must end only when SIGKILL is pending.
AdoptFairness ==
    /\ WF_adoptVars(AdoptStep) /\ \A s \in Stoppers : WF_adoptVars(StopStep(s))
    /\ \A i \in Procs : /\ WF_adoptVars(WatchStep(i))
                        /\ WF_adoptVars("KILL" \in pending[i] /\ Die(i))
    /\ \A p \in Pids : WF_adoptVars(Reap(p))

AdoptSpec == AdoptInit /\ [][AdoptNext]_adoptVars /\ AdoptFairness

-----------------------------------------------------------------------------
Claims == [pid : Pids \cup {0}, epoch : Epochs]

\* The state of the agent, of the calls and of the processes stays in range.
AdoptTypeOK ==
    /\ born \in Epochs /\ at \in [Pids -> Epochs]
    /\ pst \in [Procs -> {"none", "runs", "zombie", "gone"}]
    /\ pending \in [Procs -> SUBSET {"TERM", "KILL"}]
    /\ claim \in Claims /\ stopping \in BOOLEAN /\ watch \in Epochs
    /\ wpc \in [Procs -> {"none", "poll", "report", "done"}]
    /\ wpid \in [Procs -> Pids \cup {0}] /\ cancelled \subseteq Procs
    /\ rpc \in {"idle", "restored", "adopting"} /\ rpid \in Pids \cup {0}
    /\ rprev \in Epochs /\ dpid \in Pids \cup {0}
    /\ spc \in [Stoppers -> {"idle", "joining", "leaving", "check", "pin",
                             "recheck", "send", "wait", "settle"}]
    /\ tgt \in [Stoppers -> Claims] /\ sprev \in [Stoppers -> Epochs]
    /\ sig \in [Stoppers -> {"TERM", "KILL"}] /\ fd \in [Stoppers -> Epochs]
    /\ result \in [Stoppers -> {"none", "exited", "killed", "stale", "failed"}]
    /\ recorded \subseteq Procs /\ signalled \subseteq Procs
    /\ overlapped \subseteq Procs
    /\ ended \in [Epochs -> Nat]

\* procsig.Signal: however the PID is recycled between its steps, a signal
\* reaches only a process whose own epoch an adopt recorded.
SignalHitsRecorded == signalled \subseteq recorded

\* adoptedExited and stopAdoptedLocked: the end of an adopted process is
\* published once, by the watcher or by Stop, unless a Stop took its claim while
\* another Stop was under way; and a process whose end was published, however
\* often, is claimed no more.
EndedOnce ==
    \A e \in Procs : /\ ended[e] <= 1 \/ e \in overlapped
                     /\ ended[e] > 0 => claim.epoch # e

\* The claim on a PID expires of itself: once the claimed process has exited,
\* the agent gives that claim up although nobody stops it.  And a Stop, a Reset
\* and an adopt, which join the watcher, return without deadlock.
ClaimExpires ==
    /\ \A e \in Procs : (claim.epoch = e /\ pst[e] # "runs") ~> claim.epoch # e
    /\ \A s \in Stoppers : spc[s] # "idle" ~> spc[s] = "idle"
    /\ rpc # "idle" ~> rpc = "idle"
=============================================================================
