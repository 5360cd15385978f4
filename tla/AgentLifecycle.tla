--------------------------- MODULE AgentLifecycle ---------------------------
(***************************************************************************)
(* One supervised agent: its lifecycle Controller (core/lifecycle), the    *)
(* process runner behind it (core/agentmgr: GoAgent and PythonAgent are    *)
(* the same program here), the children the runner spawns (adk/go), and    *)
(* the goroutines that call Controller.Apply at the same time.             *)
(*                                                                         *)
(* A step is what one goroutine does between two points where another can  *)
(* interfere: a critical section of a mutex (the state machine's, the      *)
(* start marker's, the runner's a.mu) or one channel operation.            *)
(*                                                                         *)
(* Each call of Apply gets a fresh number.  If the call mints a run        *)
(* identity (ident.NewV7String) that number is the identity, and it also   *)
(* names the child the call spawns, since a call spawns at most one.       *)
(***************************************************************************)
EXTENDS Naturals, Sequences, FiniteSets

CONSTANTS
    Handlers,         \* delivery goroutines of the lifecycle.action topic
    LazyWatchers,     \* socket-activation watch loops (traffic handlers)
    Starters,         \* dependents' EnsureStarted, boot-time setupAgents
    Stoppers,         \* Manager.StopAll at shutdown
    HandlerActs,      \* the lifecycle verbs the handlers receive
    MaxCalls,         \* bound: calls of Apply in a behaviour
    ChanCap,          \* capacity of Controller.stateCh (64 in the code)
    QueueCap,         \* depth of a subscription's queue (256 in the code)
    BadFrameBudget,   \* maxBadControlFrames (32 in the code)
    MaxBadFrames,     \* bound: unreadable frames one child writes
    ReloadAnnounces   \* TRUE: PythonAgent.Reload; FALSE: GoAgent.Reload

Callers == Handlers \cup LazyWatchers \cup Starters \cup Stoppers
Actions == {"initialize", "start", "stop", "reload", "restart"}
Runs    == 1..MaxCalls
NoRun   == 0
RunIDs  == Runs \cup {NoRun}

ASSUME CallersAssumption == HandlerActs \subseteq Actions
ASSUME BoundsAssumption ==
    /\ MaxCalls \in Nat /\ ChanCap \in Nat \ {0} /\ QueueCap \in Nat \ {0}
    /\ BadFrameBudget \in Nat /\ MaxBadFrames \in Nat
ASSUME ReloadAssumption == ReloadAnnounces \in BOOLEAN

VARIABLES
    \* Controller
    sm,         \* the LifecycleStateMachine's current state
    starting,   \* the start-in-flight marker (beginStart / endStart)
    queue,      \* RUNNING statuses queued for the controller's subscription
    stateCh,    \* RUNNING statuses in Controller.stateCh
    \* callers of Apply
    pc, act, result,
    run,        \* the number of the caller's current call
    calls,      \* calls made so far
    stopRun,    \* the child a Stop waits for
    stopRid,    \* the run identity a Stop publishes STOPPED under
    \* runner
    cmd,        \* the child in the runner's slot, NoRun when there is none
    stopping, nextRunID, spoke, announced,
    armed,      \* a lazy-activation watch loop is armed (watchCancel # nil)
    \* children, indexed by run
    child,      \* phase of the child process
    termed,     \* it was sent SIGTERM
    pipe,       \* control frames it wrote that are not read yet
    reader,     \* the run's control reader
    bad,        \* unreadable frames the reader has refused
    watcher,    \* the run's exit watcher
    \* history
    ready,      \* runs whose child wrote a RUNNING frame
    ended,      \* runs whose child wrote a terminal frame
    exitBy      \* who reported the end of a run

locals    == <<act, run, calls, stopRun, stopRid>>
callVars  == <<pc, result, locals>>
slotVars  == <<cmd, stopping, nextRunID, spoke, announced, armed>>
childVars == <<child, termed, pipe, reader, bad, watcher>>
histVars  == <<ready, ended, exitBy>>
vars      == <<sm, starting, queue, stateCh, callVars, slotVars, childVars,
               histVars>>

-----------------------------------------------------------------------------
(* The state machine.                                                      *)

States == {"initializing", "initialized", "starting", "running", "stopping",
           "stopped", "reloading", "restarting", "error"}

Allowed(from, to) ==
    \/ from = "initializing" /\ to \in {"initialized", "starting", "error"}
    \/ from = "initialized"
         /\ to \in {"starting", "restarting", "stopped", "error"}
    \/ from = "starting"     /\ to \in {"running", "error"}
    \/ from = "running"
         /\ to \in {"stopping", "reloading", "restarting", "error"}
    \/ from = "stopping"     /\ to \in {"stopped", "error"}
    \/ from = "stopped"      /\ to \in {"starting", "restarting", "error"}
    \/ from = "reloading"    /\ to \in {"running", "error"}
    \/ from = "error"
         /\ to \in {"stopping", "stopped", "starting", "restarting"}

\* TransitionTo leaves the state alone when it returns an error.
TransitionTo(to) == sm' = IF Allowed(sm, to) THEN to ELSE sm

-----------------------------------------------------------------------------
(* Status events.  Both waits of the controller act on RUNNING only, so    *)
(* that is what the queues hold: the run identity a RUNNING status         *)
(* carries.  Other statuses take room, and can only cause the loss of a    *)
(* RUNNING one; a wait whose event was lost ends at its deadline, which is *)
(* always possible here.                                                   *)

\* The bus hands the event to the subscription without blocking: a full
\* queue drops it.
Publish(state, r) ==
    queue' = IF state = "running" /\ Len(queue) < QueueCap
               THEN Append(queue, r) ELSE queue

\* The subscription's handler: a full stateCh evicts its oldest event.
DeliverStatus ==
    /\ queue # <<>>
    /\ queue' = Tail(queue)
    /\ stateCh' = IF Len(stateCh) < ChanCap
                    THEN Append(stateCh, Head(queue))
                    ELSE Append(Tail(stateCh), Head(queue))
    /\ UNCHANGED <<sm, starting, callVars, slotVars, childVars, histVars>>

-----------------------------------------------------------------------------
(* Calls.                                                                  *)

Goto(c, label) == pc' = [pc EXCEPT ![c] = label] /\ UNCHANGED result
Return(c, res) == /\ pc' = [pc EXCEPT ![c] = "return"]
                  /\ result' = [result EXCEPT ![c] = res]

MayCall(c, a) ==
    \/ c \in Handlers     /\ a \in HandlerActs
    \/ c \in LazyWatchers /\ a = "start" /\ armed
    \/ c \in Starters     /\ a = "start"
    \/ c \in Stoppers     /\ a = "stop"

\* A handler acknowledges with PENDING; a watch loop disarms itself before
\* it runs the traffic handler.
Call(c, a) ==
    /\ pc[c] = "idle" /\ calls < MaxCalls /\ MayCall(c, a)
    /\ calls' = calls + 1
    /\ run' = [run EXCEPT ![c] = calls + 1]
    /\ act' = [act EXCEPT ![c] = a]
    /\ armed' = (armed /\ c \notin LazyWatchers)
    /\ UNCHANGED <<starting, queue, stateCh, stopRun, stopRid, cmd, stopping,
                   nextRunID, spoke, announced, childVars, histVars>>

\* The state a handler replies with once Apply has returned.
ReplyState(c) ==
    IF \/ result[c] = "ok"
       \/ act[c] = "start" /\ sm \in {"running", "starting"}
       \/ act[c] = "stop"  /\ sm \in {"stopped", "stopping"}
      THEN sm ELSE "error"

\* The call is over and its locals are gone.
Reply(c) ==
    /\ pc[c] = "return"
    /\ pc' = [pc EXCEPT ![c] = "idle"]
    /\ Publish(IF c \in Handlers THEN ReplyState(c) ELSE "", NoRun)
    /\ result' = [result EXCEPT ![c] = "ok"]
    /\ act' = [act EXCEPT ![c] = "start"]
    /\ run' = [run EXCEPT ![c] = NoRun]
    /\ stopRun' = [stopRun EXCEPT ![c] = NoRun]
    /\ stopRid' = [stopRid EXCEPT ![c] = NoRun]
    /\ UNCHANGED <<sm, starting, stateCh, calls, slotVars, childVars, histVars>>

\* A nested ApplyWithContext: the outer call put the agent on the context's
\* stack, so the cycle check at its head refuses the agent itself.
NestedApply(c) == Return(c, "err")

CallInitialize(c) ==
    /\ Call(c, "initialize")
    /\ TransitionTo("initializing")
    /\ Return(c, IF Allowed(sm, "initializing") THEN "ok" ELSE "err")

\* ActionRestart is a nested stop and, if that succeeds, a nested start.
CallRestart(c) ==
    /\ Call(c, "restart")
    /\ NestedApply(c)
    /\ UNCHANGED sm

-----------------------------------------------------------------------------
(* ActionStart.                                                            *)

CallStart(c) ==
    /\ Call(c, "start")
    /\ IF sm \in {"starting", "running", "reloading"} THEN Return(c, "ok")
                                                      ELSE Goto(c, "begin")
    /\ UNCHANGED sm

\* Mutant of MarkerTaken: the state check alone guards the start.
MarkerNeverTaken == FALSE

MarkerTaken == starting

BeginStart(c) ==
    /\ pc[c] = "begin"
    /\ IF MarkerTaken THEN Return(c, "ok") /\ UNCHANGED starting
                      ELSE Goto(c, "deps") /\ starting' = TRUE
    /\ UNCHANGED <<sm, queue, stateCh, locals, slotVars, childVars, histVars>>

\* The deferred endStart runs after the step that decides the result.
LeaveStart(c, res) == /\ pc' = [pc EXCEPT ![c] = "end"]
                      /\ result' = [result EXCEPT ![c] = res]

EndStart(c) ==
    /\ pc[c] = "end"
    /\ Goto(c, "return")
    /\ starting' = FALSE
    /\ UNCHANGED <<sm, queue, stateCh, locals, slotVars, childVars, histVars>>

\* EnsureStarted on the dependencies: a hard one may fail, soft ones only
\* warn.  (The dependency graph itself is outside this module.)
StartDependencies(c) ==
    /\ pc[c] = "deps"
    /\ Goto(c, "setRunID") \/ LeaveStart(c, "err")
    /\ UNCHANGED <<sm, starting, queue, stateCh, locals, slotVars, childVars,
                   histVars>>

SetRunID(c) ==
    /\ pc[c] = "setRunID"
    /\ nextRunID' = run[c]
    /\ Goto(c, "drain")
    /\ UNCHANGED <<sm, starting, queue, stateCh, locals, cmd, stopping, spoke,
                   announced, armed, childVars, histVars>>

Drain(c) ==
    /\ pc[c] = "drain"
    /\ stateCh' = <<>>
    /\ Goto(c, "spawn")
    /\ UNCHANGED <<sm, starting, queue, locals, slotVars, childVars, histVars>>

StoppingAtSpawn == FALSE

\* Runner.Start, one critical section of a.mu.  It disarms lazy activation,
\* and does nothing more when the slot holds a child.
RunnerStart(c) ==
    /\ pc[c] = "spawn"
    /\ armed' = FALSE
    /\ \/ /\ \/ cmd # NoRun /\ Goto(c, "markStarting")
             \/ cmd = NoRun /\ Goto(c, "spawnErr")  \* limits, listener, pipe
          /\ UNCHANGED <<queue, cmd, stopping, spoke, announced, child, reader,
                         watcher>>
       \/ /\ cmd = NoRun
          /\ stopping' = StoppingAtSpawn
          /\ spoke' = FALSE
          /\ announced' = <<"", NoRun>>
          /\ \/ /\ Goto(c, "spawnErr")       \* stdio pipes or the exec failed
                /\ UNCHANGED <<queue, cmd, child, reader, watcher>>
             \/ /\ Goto(c, "markStarting")
                /\ cmd' = nextRunID
                /\ child' = [child EXCEPT ![nextRunID] = "boot"]
                /\ reader' = [reader EXCEPT ![nextRunID] = "open"]
                /\ watcher' = [watcher EXCEPT ![nextRunID] = "waiting"]
                /\ Publish("starting", nextRunID)
    /\ UNCHANGED <<sm, starting, stateCh, locals, nextRunID, termed, pipe, bad,
                   histVars>>

SpawnFailed(c) ==
    /\ pc[c] = "spawnErr"
    /\ TransitionTo("error")
    /\ LeaveStart(c, "err")
    /\ UNCHANGED <<starting, queue, stateCh, locals, slotVars, childVars,
                   histVars>>

MarkStarting(c) ==
    /\ pc[c] = "markStarting"
    /\ TransitionTo("starting")
    /\ IF Allowed(sm, "starting") THEN Goto(c, "await") ELSE LeaveStart(c, "err")
    /\ UNCHANGED <<starting, queue, stateCh, locals, slotVars, childVars,
                   histVars>>

\* awaitRunningWithRunIDSince: in "await" the silence deadline is armed, in
\* "awaitSpoken" it is retired.
Awaiting(c) == pc[c] \in {"await", "awaitSpoken"}

\* Mutant of IsMyRunning: the wait before run identities existed.
IsAnyRunning(c, r) == TRUE

\* Only RUNNING under this start's run identity ends the wait.  (The cutover
\* time adds nothing: the identity is minted before the cutover, and no
\* event carries it until after.)
IsMyRunning(c, r) == r = run[c]

AwaitEvent(c) ==
    /\ Awaiting(c) /\ stateCh # <<>>
    /\ stateCh' = Tail(stateCh)
    /\ IF IsMyRunning(c, Head(stateCh)) THEN Goto(c, "ready")
                                        ELSE Goto(c, pc[c])
    /\ UNCHANGED <<sm, starting, queue, locals, slotVars, childVars, histVars>>

AwaitSilence(c) ==
    /\ pc[c] = "await"
    /\ Goto(c, IF spoke THEN "awaitSpoken" ELSE "timedOut")
    /\ UNCHANGED <<sm, starting, queue, stateCh, locals, slotVars, childVars,
                   histVars>>

\* Mutant of AwaitDeadline: no readiness timer.
AwaitForever(c) == FALSE /\ UNCHANGED vars

AwaitDeadline(c) ==
    /\ Awaiting(c)
    /\ Goto(c, "timedOut")
    /\ UNCHANGED <<sm, starting, queue, stateCh, locals, slotVars, childVars,
                   histVars>>

StartTimedOut(c) ==
    /\ pc[c] = "timedOut"
    /\ TransitionTo("error")
    /\ Goto(c, "publishFailed")
    /\ UNCHANGED <<starting, queue, stateCh, locals, slotVars, childVars,
                   histVars>>

PublishFailed(c) ==
    /\ pc[c] = "publishFailed"
    /\ Publish("failed", run[c])
    /\ LeaveStart(c, "err")
    /\ UNCHANGED <<sm, starting, stateCh, locals, slotVars, childVars, histVars>>

MarkRunning(c) ==
    /\ pc[c] = "ready"
    /\ TransitionTo("running")
    /\ LeaveStart(c, IF Allowed(sm, "running") THEN "ok" ELSE "err")
    /\ UNCHANGED <<starting, queue, stateCh, locals, slotVars, childVars,
                   histVars>>

-----------------------------------------------------------------------------
(* ActionStop.                                                             *)

CallStop(c) ==
    /\ Call(c, "stop")
    /\ IF sm = "stopped" THEN Return(c, "ok") ELSE Goto(c, "stopCheck")
    /\ UNCHANGED sm

StopCheck(c) ==
    /\ pc[c] = "stopCheck"
    /\ Goto(c, IF sm = "stopping" THEN "signal" ELSE "markStopping")
    /\ UNCHANGED <<sm, starting, queue, stateCh, locals, slotVars, childVars,
                   histVars>>

MarkStopping(c) ==
    /\ pc[c] = "markStopping"
    /\ TransitionTo("stopping")
    /\ IF Allowed(sm, "stopping") THEN Goto(c, "signal") ELSE Return(c, "err")
    /\ UNCHANGED <<starting, queue, stateCh, locals, slotVars, childVars,
                   histVars>>

\* Runner.Stop, first critical section.  (An adopted process is the matter
\* of another module.)
RunnerStopSignal(c) ==
    /\ pc[c] = "signal"
    /\ IF cmd = NoRun
         THEN /\ Goto(c, "reset")
              /\ UNCHANGED <<stopRun, stopRid, stopping, termed>>
         ELSE /\ Goto(c, "stopWait")
              /\ stopRun' = [stopRun EXCEPT ![c] = cmd]
              /\ stopRid' = [stopRid EXCEPT ![c] = nextRunID]
              /\ stopping' = TRUE
              /\ termed' = [termed EXCEPT ![cmd] = TRUE]
    /\ UNCHANGED <<sm, starting, queue, stateCh, act, run, calls, cmd,
                   nextRunID, spoke, announced, armed, child, pipe, reader,
                   bad, watcher, histVars>>

\* Mutant of AfterKill: the kill is not sent.
NoKill(phase) == phase

AfterKill(phase) == IF phase = "dead" THEN "dead" ELSE "killed"

\* The grace ran out: a.cmd is read without the lock, and is nil when
\* somebody else emptied the slot, which takes the daemon down.
KillAfterGrace(c) ==
    /\ pc[c] = "stopWait"
    /\ IF cmd = NoRun
         THEN Goto(c, "panicked") /\ UNCHANGED child
         ELSE /\ Goto(c, "killWait")
              /\ child' = [child EXCEPT ![cmd] = AfterKill(@)]
    /\ UNCHANGED <<sm, starting, queue, stateCh, locals, slotVars, termed,
                   pipe, reader, bad, watcher, histVars>>

\* Runner.Stop, last critical section: the child was waited for, or it was
\* killed and the short wait after that is over.  Lazy activation re-arms.
RunnerStopDone(c) ==
    /\ \/ pc[c] = "stopWait" /\ child[stopRun[c]] = "dead"
       \/ pc[c] = "killWait"
    /\ Publish("stopped", stopRid[c])
    /\ cmd' = NoRun
    /\ armed' = (LazyWatchers # {})
    /\ exitBy' = [exitBy EXCEPT ![stopRun[c]] = @ \cup {"stop"}]
    /\ Goto(c, "reset")
    /\ UNCHANGED <<sm, starting, stateCh, locals, stopping, nextRunID, spoke,
                   announced, childVars, ready, ended>>

RunnerReset(c) ==
    /\ pc[c] = "reset"
    /\ cmd' = NoRun
    /\ Goto(c, "markStopped")
    /\ UNCHANGED <<sm, starting, queue, stateCh, locals, stopping, nextRunID,
                   spoke, announced, armed, childVars, histVars>>

\* "process exited (supervisor-confirmed)", then the transition.
MarkStopped(c) ==
    /\ pc[c] = "markStopped"
    /\ Publish("stopped", NoRun)
    /\ TransitionTo("stopped")
    /\ Return(c, "ok")
    /\ UNCHANGED <<starting, stateCh, locals, slotVars, childVars, histVars>>

-----------------------------------------------------------------------------
(* ActionReload.                                                           *)

\* An agent that is not running is started by a nested call.
CallReload(c) ==
    /\ Call(c, "reload")
    /\ IF sm = "running" THEN Goto(c, "markReloading") ELSE NestedApply(c)
    /\ UNCHANGED sm

MarkReloading(c) ==
    /\ pc[c] = "markReloading"
    /\ TransitionTo("reloading")
    /\ IF Allowed(sm, "reloading") THEN Goto(c, "reloadRun") ELSE Return(c, "err")
    /\ UNCHANGED <<starting, queue, stateCh, locals, slotVars, childVars,
                   histVars>>

\* Runner.Reload of a Go agent: SIGHUP to the child in the slot.
GoReload(c) ==
    /\ pc[c] = "reloadRun" /\ ~ReloadAnnounces
    /\ Goto(c, IF cmd = NoRun THEN "reloadErr" ELSE "awaitReload")
    /\ UNCHANGED <<sm, starting, queue, stateCh, locals, slotVars, childVars,
                   histVars>>

\* Runner.Reload of a Python agent: a separate reload command, which may
\* fail; when it succeeds the runner itself announces RUNNING.
PythonReload(c) ==
    /\ pc[c] = "reloadRun" /\ ReloadAnnounces
    /\ \/ Goto(c, "reloadErr") /\ UNCHANGED queue
       \/ /\ cmd # NoRun
          /\ Goto(c, "awaitReload")
          /\ Publish("running", nextRunID)
    /\ UNCHANGED <<sm, starting, stateCh, locals, slotVars, childVars, histVars>>

\* awaitTarget takes RUNNING under any run identity, or under none.
AwaitReloadEvent(c) ==
    /\ pc[c] = "awaitReload" /\ stateCh # <<>>
    /\ stateCh' = Tail(stateCh)
    /\ Goto(c, "reloadOk")
    /\ UNCHANGED <<sm, starting, queue, locals, slotVars, childVars, histVars>>

AwaitReloadDeadline(c) ==
    /\ pc[c] = "awaitReload"
    /\ Goto(c, "reloadErr")
    /\ UNCHANGED <<sm, starting, queue, stateCh, locals, slotVars, childVars,
                   histVars>>

ReloadFailed(c) ==
    /\ pc[c] = "reloadErr"
    /\ TransitionTo("error")
    /\ Return(c, "err")
    /\ UNCHANGED <<starting, queue, stateCh, locals, slotVars, childVars,
                   histVars>>

MarkReloaded(c) ==
    /\ pc[c] = "reloadOk"
    /\ TransitionTo("running")
    /\ Return(c, IF Allowed(sm, "running") THEN "ok" ELSE "err")
    /\ UNCHANGED <<starting, queue, stateCh, locals, slotVars, childVars,
                   histVars>>

-----------------------------------------------------------------------------
(* The child (adk/go/agent, supervised) and the goroutines of its run.     *)

Phases == {"none", "boot", "init", "running", "stopping", "ended", "killed",
           "dead"}
Frames == {"pending", "running", "stopped", "failed"}
Written == Frames \cup {"bad"}

\* The child writes a status frame and enters its next phase.
WriteFrame(r, from, to, frame) ==
    /\ child[r] \in from
    /\ child' = [child EXCEPT ![r] = to]
    /\ pipe' = [pipe EXCEPT ![r] = Append(@, frame)]
    /\ UNCHANGED <<sm, starting, queue, stateCh, callVars, slotVars, termed,
                   reader, bad, watcher, exitBy>>

ChildPending(r) ==
    /\ WriteFrame(r, {"boot"}, "init", "pending")
    /\ UNCHANGED <<ready, ended>>

ChildReady(r) ==
    /\ WriteFrame(r, {"init"}, "running", "running")
    /\ ready' = ready \cup {r}
    /\ UNCHANGED ended

ChildStopping(r) ==
    /\ termed[r]
    /\ WriteFrame(r, {"running"}, "stopping", "pending")
    /\ UNCHANGED <<ready, ended>>

\* finish, or the end of the SIGTERM branch.
ChildFinish(r) ==
    /\ \E frame \in {"stopped", "failed"} :
          WriteFrame(r, {"init", "running", "stopping"}, "ended", frame)
    /\ ended' = ended \cup {r}
    /\ UNCHANGED ready

\* A child may die in any phase: a crash, a signal it does not handle.
ChildExit(r) ==
    /\ child[r] \notin {"none", "dead"}
    /\ child' = [child EXCEPT ![r] = "dead"]
    /\ UNCHANGED <<sm, starting, queue, stateCh, callVars, slotVars, termed,
                   pipe, reader, bad, watcher, histVars>>

\* A frame of another schema version, or without a state or an event.
ChildGarble(r) ==
    /\ child[r] \in {"boot", "init", "running"}
    /\ bad[r] < MaxBadFrames
    /\ \A i \in DOMAIN pipe[r] : pipe[r][i] # "bad"
    /\ pipe' = [pipe EXCEPT ![r] = Append(@, "bad")]
    /\ UNCHANGED <<sm, starting, queue, stateCh, callVars, slotVars, child,
                   termed, reader, bad, watcher, histVars>>

\* readControl, one frame: speech is recorded before the frame is judged,
\* and the announced state before it is published.
ReadFrame(r) ==
    /\ reader[r] = "open" /\ pipe[r] # <<>>
    /\ pipe' = [pipe EXCEPT ![r] = Tail(@)]
    /\ spoke' = TRUE
    /\ IF Head(pipe[r]) = "bad"
         THEN /\ bad' = [bad EXCEPT ![r] = @ + 1]
              /\ reader' = [reader EXCEPT ![r] =
                              IF bad[r] + 1 > BadFrameBudget THEN "closed" ELSE @]
              /\ UNCHANGED <<announced, queue>>
         ELSE /\ announced' = <<Head(pipe[r]), r>>
              /\ Publish(Head(pipe[r]), r)
              /\ UNCHANGED <<bad, reader>>
    /\ UNCHANGED <<sm, starting, stateCh, callVars, cmd, stopping, nextRunID,
                   armed, child, termed, watcher, histVars>>

\* EOF closes controlDone.
ReadEOF(r) ==
    /\ reader[r] = "open" /\ pipe[r] = <<>> /\ child[r] = "dead"
    /\ reader' = [reader EXCEPT ![r] = "closed"]
    /\ UNCHANGED <<sm, starting, queue, stateCh, callVars, slotVars, child,
                   termed, pipe, bad, watcher, histVars>>

\* Mutant of ControlDrained: the exit is classified as soon as Wait returns.
ControlNotDrained(r) == TRUE

\* awaitControlDrain is over: the reader ended, or the grace expired because
\* a grandchild still holds the descriptor.  The grace is far longer than
\* reading the frames that were written.
ControlDrained(r) == reader[r] = "closed" \/ pipe[r] = <<>>

Terminal == {"stopped", "failed", "completed"}
AnnouncedOwnExit(r) == announced[2] = r /\ announced[1] \in Terminal

\* Mutant of WatcherDefers: a Stop in progress is not asked about.
WatcherDefersToSlot(r) == cmd # r

\* Stop owns this exit, or a new run replaced the slot.
WatcherDefers(r) == stopping \/ cmd # r

\* The exit watcher, from the return of Wait to its end.
WatchExit(r) ==
    /\ watcher[r] = "waiting" /\ child[r] = "dead" /\ ControlDrained(r)
    /\ watcher' = [watcher EXCEPT ![r] = "done"]
    /\ IF WatcherDefers(r)
         THEN UNCHANGED <<cmd, queue, exitBy>>
         ELSE /\ cmd' = NoRun
              /\ Publish(IF AnnouncedOwnExit(r) THEN "" ELSE "failed", r)
              /\ exitBy' = [exitBy EXCEPT ![r] = @ \cup
                              {IF AnnouncedOwnExit(r) THEN "agent" ELSE "watcher"}]
    /\ UNCHANGED <<sm, starting, stateCh, callVars, stopping, nextRunID, spoke,
                   announced, armed, child, termed, pipe, reader, bad, ready,
                   ended>>

-----------------------------------------------------------------------------
(* The specification.                                                      *)

Init ==
    /\ sm = "stopped" /\ starting = FALSE /\ queue = <<>> /\ stateCh = <<>>
    /\ pc = [c \in Callers |-> "idle"]
    /\ act = [c \in Callers |-> "start"]
    /\ result = [c \in Callers |-> "ok"]
    /\ run = [c \in Callers |-> NoRun]
    /\ calls = 0
    /\ stopRun = [c \in Callers |-> NoRun]
    /\ stopRid = [c \in Callers |-> NoRun]
    /\ cmd = NoRun /\ stopping = FALSE /\ nextRunID = NoRun /\ spoke = FALSE
    /\ announced = <<"", NoRun>>
    /\ armed = (LazyWatchers # {})
    /\ child = [r \in Runs |-> "none"]
    /\ termed = [r \in Runs |-> FALSE]
    /\ pipe = [r \in Runs |-> <<>>]
    /\ reader = [r \in Runs |-> "none"]
    /\ bad = [r \in Runs |-> 0]
    /\ watcher = [r \in Runs |-> "none"]
    /\ ready = {} /\ ended = {}
    /\ exitBy = [r \in Runs |-> {}]

NewCall(c) == \/ CallInitialize(c) \/ CallStart(c) \/ CallStop(c)
              \/ CallReload(c) \/ CallRestart(c)

StartStep(c) ==
    \/ BeginStart(c) \/ StartDependencies(c) \/ SetRunID(c) \/ Drain(c)
    \/ RunnerStart(c) \/ SpawnFailed(c) \/ MarkStarting(c) \/ AwaitEvent(c)
    \/ AwaitSilence(c) \/ AwaitDeadline(c) \/ StartTimedOut(c)
    \/ PublishFailed(c) \/ MarkRunning(c) \/ EndStart(c)

StopStep(c) ==
    \/ StopCheck(c) \/ MarkStopping(c) \/ RunnerStopSignal(c)
    \/ KillAfterGrace(c) \/ RunnerStopDone(c) \/ RunnerReset(c)
    \/ MarkStopped(c)

ReloadStep(c) ==
    \/ MarkReloading(c) \/ GoReload(c) \/ PythonReload(c) \/ AwaitReloadEvent(c)
    \/ AwaitReloadDeadline(c) \/ ReloadFailed(c) \/ MarkReloaded(c)

CallerStep(c) == StartStep(c) \/ StopStep(c) \/ ReloadStep(c) \/ Reply(c)

ChildStep(r) ==
    \/ ChildPending(r) \/ ChildReady(r) \/ ChildStopping(r) \/ ChildFinish(r)
    \/ ChildExit(r) \/ ChildGarble(r)

RunStep(r) == ReadFrame(r) \/ ReadEOF(r) \/ WatchExit(r)

\* A nil dereference in one goroutine ends the daemon.
Panicked == \E c \in Callers : pc[c] = "panicked"

Next ==
    /\ ~Panicked
    /\ \/ \E c \in Callers : NewCall(c) \/ CallerStep(c)
       \/ \E r \in Runs : ChildStep(r) \/ RunStep(r)
       \/ DeliverStatus

Spec == Init /\ [][Next]_vars

\* Goroutines run, timers fire, a killed process dies.  Nothing is assumed
\* of callers (nobody has to call) or of a child's own progress.
Fairness ==
    /\ \A c \in Callers :
          /\ WF_vars(CallerStep(c) /\ ~Panicked)
          /\ WF_vars(AwaitDeadline(c) /\ ~Panicked)
          /\ WF_vars(AwaitReloadDeadline(c) /\ ~Panicked)
          /\ WF_vars(KillAfterGrace(c) /\ ~Panicked)
    /\ \A r \in Runs :
          /\ WF_vars(RunStep(r) /\ ~Panicked)
          /\ WF_vars(child[r] = "killed" /\ ChildExit(r) /\ ~Panicked)
    /\ WF_vars(DeliverStatus /\ ~Panicked)

FairSpec == Spec /\ Fairness

-----------------------------------------------------------------------------
(* Properties.                                                             *)

AwaitLabels == {"await", "awaitSpoken", "timedOut", "ready"}
StartSection == AwaitLabels \cup
                {"deps", "setRunID", "drain", "spawn", "spawnErr",
                 "markStarting", "publishFailed", "end"}
Labels == StartSection \cup
          {"idle", "return", "begin", "stopCheck", "markStopping", "signal",
           "stopWait", "killWait", "reset", "markStopped", "markReloading",
           "reloadRun", "awaitReload", "reloadErr", "reloadOk", "panicked"}

TypeController ==
    /\ sm \in States /\ starting \in BOOLEAN
    /\ queue \in Seq(RunIDs) /\ Len(queue) <= QueueCap
    /\ stateCh \in Seq(RunIDs) /\ Len(stateCh) <= ChanCap
TypeCallers ==
    /\ pc \in [Callers -> Labels] /\ act \in [Callers -> Actions]
    /\ result \in [Callers -> {"ok", "err"}]
    /\ calls \in 0..MaxCalls /\ run \in [Callers -> RunIDs]
    /\ stopRun \in [Callers -> RunIDs] /\ stopRid \in [Callers -> RunIDs]
TypeSlot ==
    /\ cmd \in RunIDs /\ stopping \in BOOLEAN
    /\ nextRunID \in RunIDs /\ spoke \in BOOLEAN
    /\ announced \in (Frames \cup {""}) \X RunIDs /\ armed \in BOOLEAN
TypeChildren ==
    /\ child \in [Runs -> Phases] /\ termed \in [Runs -> BOOLEAN]
    /\ pipe \in [Runs -> Seq(Written)]
    /\ reader \in [Runs -> {"none", "open", "closed"}]
    /\ bad \in [Runs -> Nat]
    /\ watcher \in [Runs -> {"none", "waiting", "done"}]
TypeHistory ==
    /\ ready \subseteq Runs /\ ended \subseteq Runs
    /\ exitBy \in [Runs -> SUBSET {"stop", "agent", "watcher"}]

\* The types of the variables; the two queues respect their capacities.
TypeOK == TypeController /\ TypeCallers /\ TypeSlot /\ TypeChildren /\ TypeHistory

Quiet == \A c \in Callers : pc[c] = "idle"
Gone(r) == child[r] \in {"none", "killed", "dead"}

\* At most one start is past beginStart, so only one walks the dependencies
\* and spawns: the start marker does the job the state used to do.
OneStartInFlight ==
    \A c, d \in Callers :
        pc[c] \in StartSection /\ pc[d] \in StartSection => c = d

\* A start that is about to report RUNNING was told so by the child it
\* spawned, never by an event of an earlier run or by a supervisor's reply
\* (awaitRunningWithRunIDSince).  It holds of Go agents; a Python agent's
\* Reload publishes RUNNING on the agent's behalf.
RunningWasAnnounced ==
    \A c \in Callers : pc[c] = "ready" => run[c] \in ready

\* One party reports the end of a run: Stop, the agent's own announcement or
\* the exit watcher; Stop and the watcher never both do.
ExitReportedOnce == \A r \in Runs : \A x, y \in exitBy[r] : x = y

\* A run whose exit was classified does not stay in the runner's slot once
\* the calls are over, so a later Start really spawns: either the exit
\* watcher emptied the slot or the Stop it deferred to did.  And with one
\* goroutine stopping, a Stop that reaches its kill still finds the command it
\* signalled.
SlotReaped ==
    /\ ~Panicked
    /\ Quiet => \A r \in Runs : watcher[r] = "done" => cmd # r

\* As long as nothing is spawned between a Stop's signal and the state it leaves
\* behind, which one caller cannot do, every child that was not killed is in the
\* runner's slot, where a later Stop finds it; and "process exited
\* (supervisor-confirmed)": when nothing is in progress and the agent is STOPPED,
\* no child is left.
NoOrphan ==
    /\ \A r \in Runs : Gone(r) \/ cmd = r
    /\ Quiet /\ sm = "stopped" => \A r \in Runs : Gone(r)

\* "A silently dead process must never keep a live state": when nothing is in
\* progress and every exit was classified, RUNNING implies a child.
NoDeadRunning ==
    (/\ Quiet /\ sm = "running"
     /\ \A r \in Runs : watcher[r] # "waiting")
    => cmd # NoRun

\* HasSpoken "answers about this run and not the agent's history": a child
\* that has written nothing has not spoken.
SpokeIsThisRun == cmd # NoRun /\ child[cmd] = "boot" => ~spoke

\* The supervisor "does not re-classify what the agent ANNOUNCED": the exit
\* watcher, which waits for the control channel to drain, reports no failure of
\* a run whose agent announced its own end, unless a late frame of another run
\* has overwritten that announcement.
AnnouncedExitKept ==
    [][\A r \in Runs :
         "watcher" \in exitBy'[r] \ exitBy[r] /\ r \in ended
         => announced[2] \in Runs \ {r}]_vars

\* The same without the exception: it fails once a stop, a start and a start by
\* traffic overlap, because noteAnnouncedState keeps the last frame of any run.
AnnouncedExitAlwaysKept ==
    \A r \in Runs : "watcher" \in exitBy[r] => r \notin ended

\* A restart that fails has failed to stop or to start the agent.
RestartTakesEffect ==
    \A c \in Callers :
        pc[c] = "return" /\ act[c] = "restart" /\ result[c] = "err"
        => sm = "error"

\* Apply "only returns once the agent has reached a terminal state".
ApplySettles ==
    \A c \in Callers :
        pc[c] = "return" /\ act[c] = "start" /\ result[c] = "ok"
        => sm \notin {"starting", "stopping", "reloading", "initializing"}

\* Every call of Apply returns: each wait inside it is bounded.
CallReturns ==
    \A c \in Callers : (pc[c] # "idle") ~> (pc[c] = "idle" \/ Panicked)
=============================================================================
