----------------------------- MODULE PythonAgent -----------------------------
(***************************************************************************)
(* The runner of Python agents (core/agentmgr python_agent.go; go_agent.go *)
(* is its twin) where AgentLifecycle leaves off: the supervisor holds the  *)
(* listening socket of a socket-activated agent and starts it on traffic,  *)
(* a one-shot is waited for inside Start, Reload runs a command under the  *)
(* read lock, and a start may fail.                                        *)
(*                                                                         *)
(* A step that takes the mutex for writing is atomic; Reload alone keeps   *)
(* it, for reading.  The controller's beginStart lets one Start run at a   *)
(* time.  Its stop is Stop and then Reset, which takes the mutex again: the *)
(* one goroutine that delivers actions makes one such pair at a time.      *)
(***************************************************************************)
EXTENDS Naturals, FiniteSets

CONSTANTS
    MaxRuns,    \* bound: processes the runner spawns
    MaxArms,    \* bound: watch loops it starts
    PyTypes     \* agent types: "service", "oneshot"

ASSUME PyAssumption == MaxRuns \in Nat /\ MaxArms \in Nat \ {0}

Runs == 1..MaxRuns
Arms == 1..MaxArms

VARIABLES
    typ, listens,   \* metadata: TYPE, and whether LISTEN_STREAM is declared
    cmd,            \* the run whose process cmd holds, 0 for none
    life,           \* that process: runs, or exited
    killed,         \* runs whose process was sent SIGKILL
    ownStop,        \* PythonAgent.stopping
    exitWatch,      \* the exit watcher of a run
    armed,          \* watchCancel: the loop it cancels, 0 for nil
    loop,           \* where a watch loop is
    disarmed,       \* loops whose context is cancelled
    backlog,        \* a connection waits at the listening socket
    starting,       \* the run whose exit a one-shot's Start waits for
    stopRun,        \* the run Stop waits for
    resetting,      \* Stop has returned, Reset has not been entered
    reloadRun,      \* the run a reload command is working for
    \* history
    ends,           \* how often the end of a run was published
    lateRunning,    \* runs reported RUNNING after their end
    between,        \* runs spawned while resetting
    lapsed          \* the agent went unarmed otherwise than by starting

resetVars == <<resetting, between>>

pyVars == <<typ, listens, cmd, life, killed, ownStop, exitWatch, armed, loop,
            disarmed, backlog, starting, stopRun, reloadRun, ends, lateRunning,
            lapsed, resetVars>>

\* Mutant of Lockable: Reload lets the lock go while its command runs.
LockableAlways == TRUE

Lockable == reloadRun = 0

-----------------------------------------------------------------------------
(* Socket activation.                                                      *)

\* armLocked: a second loop is never started beside a live one.
ArmLocked ==
    LET free == {l \in Arms : loop[l] = "none"}
    IN  \/ armed # 0 /\ UNCHANGED <<armed, loop>>
        \/ /\ armed = 0
           /\ \E l \in free : /\ \A m \in free : l <= m
                              /\ armed' = l /\ loop' = [loop EXCEPT ![l] = "poll"]

\* Mutant of Disarm: the loop is forgotten, not cancelled.
DisarmForgets == armed' = 0 /\ UNCHANGED disarmed

Disarm == armed' = 0 /\ disarmed' = disarmed \cup ({armed} \ {0})

Connect ==
    /\ listens /\ ~backlog /\ backlog' = TRUE
    /\ UNCHANGED <<typ, listens, cmd, life, killed, ownStop, exitWatch, armed, loop,
                   disarmed, starting, stopRun, reloadRun, ends, lateRunning, lapsed,
                   resetVars>>

\* The agent accepts what waits in the backlog.
Accept ==
    /\ backlog /\ \E r \in Runs : life[r] = "runs"
    /\ backlog' = FALSE
    /\ UNCHANGED <<typ, listens, cmd, life, killed, ownStop, exitWatch, armed, loop,
                   disarmed, starting, stopRun, reloadRun, ends, lateRunning, lapsed,
                   resetVars>>

\* watchLoop looks at its context, then polls for 250 ms: a loop cancelled
\* during the poll still acts on the traffic it sees.
LoopEnds(l) ==
    /\ loop[l] = "poll" /\ l \in disarmed
    /\ loop' = [loop EXCEPT ![l] = "done"]
    /\ UNCHANGED <<typ, listens, cmd, life, killed, ownStop, exitWatch, armed,
                   disarmed, backlog, starting, stopRun, reloadRun, ends, lateRunning,
                   lapsed, resetVars>>

LoopFires(l) ==
    /\ loop[l] = "poll" /\ backlog
    /\ loop' = [loop EXCEPT ![l] = "disarm"]
    /\ UNCHANGED <<typ, listens, cmd, life, killed, ownStop, exitWatch, armed,
                   disarmed, backlog, starting, stopRun, reloadRun, ends, lateRunning,
                   lapsed, resetVars>>

\* "Cancel self/others": whichever loop is armed by now.
LoopDisarms(l) ==
    /\ loop[l] = "disarm" /\ Lockable
    /\ Disarm
    /\ loop' = [loop EXCEPT ![l] = "handler"]
    /\ UNCHANGED <<typ, listens, cmd, life, killed, ownStop, exitWatch, backlog,
                   starting, stopRun, reloadRun, ends, lateRunning, lapsed,
                   resetVars>>

-----------------------------------------------------------------------------
(* Start.                                                                  *)

\* Mutant of PyStartable: the slot is not looked at.
PyStartableAlways == TRUE

PyStartable == cmd = 0

\* The process is spawned; a one-shot's Start goes on to wait for it.
Spawn ==
    \E r \in Runs :
        /\ life[r] = "none" /\ \A q \in Runs : q < r => life[q] # "none"
        /\ cmd' = r /\ life' = [life EXCEPT ![r] = "runs"]
        /\ ownStop' = FALSE
        /\ starting' = IF typ = "oneshot" THEN r ELSE 0
        /\ exitWatch' = [exitWatch EXCEPT ![r] =
                            IF typ = "oneshot" THEN "none" ELSE "wait"]
        /\ between' = IF resetting THEN between \cup {r} ELSE between

\* Start disarms first.  It then finds a process, fails (a limit, the socket,
\* the control pipe, cmd.Start), or spawns; a failure leaves the agent unarmed.
PyStart ==
    /\ Lockable /\ starting = 0 /\ Disarm
    /\ \/ /\ ~PyStartable
          /\ UNCHANGED <<cmd, life, ownStop, starting, exitWatch, lapsed, between>>
       \/ PyStartable /\ Spawn /\ UNCHANGED lapsed
       \/ /\ PyStartable /\ lapsed' = TRUE
          /\ UNCHANGED <<cmd, life, ownStop, starting, exitWatch, between>>
    /\ UNCHANGED <<typ, listens, killed, backlog, stopRun, resetting, reloadRun, ends,
                   lateRunning>>

OperatorStarts == PyStart /\ UNCHANGED loop

\* The traffic handler applies a start; one under way is not joined.
HandlerStarts(l) ==
    /\ loop[l] = "handler"
    /\ loop' = [loop EXCEPT ![l] = "done"]
    /\ \/ PyStart
       \/ starting # 0 /\ UNCHANGED <<typ, listens, cmd, life, killed, ownStop,
             exitWatch, armed, disarmed, backlog, starting, stopRun, reloadRun, ends,
             lateRunning, lapsed,
                   resetVars>>

EndPublished(r) == ends' = [ends EXCEPT ![r] = @ + 1]

\* The tail of a one-shot's Start: COMPLETED or FAILED, and the slot is cleared.
OneshotReturns ==
    /\ starting # 0 /\ life[starting] = "exited" /\ Lockable
    /\ EndPublished(starting)
    /\ starting' = 0 /\ cmd' = 0 /\ lapsed' = TRUE
    /\ UNCHANGED <<typ, listens, life, killed, ownStop, exitWatch, armed, loop,
                   disarmed, backlog, stopRun, reloadRun, lateRunning, resetVars>>

\* The exit watcher of a service: it defers to Stop and to a newer run, and
\* does not arm the socket again.
ExitWatcher(r) ==
    /\ exitWatch[r] = "wait" /\ life[r] = "exited" /\ Lockable
    /\ exitWatch' = [exitWatch EXCEPT ![r] = "done"]
    /\ \/ /\ ~ownStop /\ cmd = r
          /\ cmd' = 0 /\ EndPublished(r) /\ lapsed' = TRUE
       \/ (ownStop \/ cmd # r) /\ UNCHANGED <<cmd, ends, lapsed>>
    /\ UNCHANGED <<typ, listens, life, killed, ownStop, armed, loop, disarmed, backlog,
                   starting, stopRun, reloadRun, lateRunning, resetVars>>

-----------------------------------------------------------------------------
(* Stop and Reload.                                                        *)

\* A stop that finds no process is over, and arms nothing.
PyStop ==
    /\ stopRun = 0 /\ ~resetting /\ Lockable
    /\ \/ cmd # 0 /\ stopRun' = cmd /\ ownStop' = TRUE /\ UNCHANGED resetting
       \/ cmd = 0 /\ resetting' = TRUE /\ UNCHANGED <<stopRun, ownStop>>
    /\ UNCHANGED <<typ, listens, cmd, life, killed, exitWatch, armed, loop, disarmed,
                   backlog, starting, reloadRun, ends, lateRunning, lapsed, between>>

\* Mutant of Rearm: a stopped socket agent is not armed again.
RearmNever == UNCHANGED <<armed, loop>>

Rearm == IF listens THEN ArmLocked ELSE UNCHANGED <<armed, loop>>

\* The process has exited, or the grace after SIGKILL, which goes to whatever
\* process cmd holds by then, is over: STOPPED, the slot is cleared, the socket
\* armed and the mutex let go.
PyStopEnds ==
    /\ stopRun # 0 /\ Lockable
    /\ \/ life[stopRun] = "exited" /\ UNCHANGED killed
       \/ cmd # 0 /\ killed' = killed \cup {cmd}
    /\ EndPublished(stopRun)
    /\ stopRun' = 0 /\ resetting' = TRUE /\ cmd' = 0 /\ Rearm /\ lapsed' = FALSE
    /\ UNCHANGED <<typ, listens, life, ownStop, exitWatch, disarmed, backlog, starting,
                   reloadRun, lateRunning, between>>

\* The controller's Reset, whatever Stop returned: it clears the slot again, and
\* with it a process started since, which goes on with nobody to stop it.
PyReset ==
    /\ resetting /\ Lockable
    /\ resetting' = FALSE /\ cmd' = 0 /\ lapsed' = (lapsed \/ cmd # 0)
    /\ UNCHANGED <<typ, listens, life, killed, ownStop, exitWatch, armed, loop, disarmed,
                   backlog, starting, stopRun, reloadRun, ends, lateRunning, between>>

\* The reload command runs with the read lock held; RUNNING is published before
\* it is released.
PyReload ==
    /\ reloadRun = 0 /\ cmd # 0
    /\ reloadRun' = cmd
    /\ UNCHANGED <<typ, listens, cmd, life, killed, ownStop, exitWatch, armed, loop,
                   disarmed, backlog, starting, stopRun, ends, lateRunning, lapsed,
                   resetVars>>

PyReloadEnds ==
    /\ reloadRun # 0
    /\ lateRunning' = lateRunning \cup {r \in {reloadRun} : ends[r] > 0}
    /\ reloadRun' = 0
    /\ UNCHANGED <<typ, listens, cmd, life, killed, ownStop, exitWatch, armed, loop,
                   disarmed, backlog, starting, stopRun, ends, lapsed, resetVars>>

ProcessExits(r) ==
    /\ life[r] = "runs"
    /\ life' = [life EXCEPT ![r] = "exited"]
    /\ UNCHANGED <<typ, listens, cmd, killed, ownStop, exitWatch, armed, loop, disarmed,
                   backlog, starting, stopRun, reloadRun, ends, lateRunning, lapsed,
                   resetVars>>

-----------------------------------------------------------------------------
\* The supervisor arms a socket agent instead of starting it.
PyInit ==
    /\ typ \in PyTypes /\ listens \in BOOLEAN
    /\ cmd = 0 /\ life = [r \in Runs |-> "none"] /\ killed = {}
    /\ ownStop = FALSE /\ exitWatch = [r \in Runs |-> "none"]
    /\ armed = (IF listens THEN 1 ELSE 0) /\ disarmed = {}
    /\ loop = [l \in Arms |-> IF listens /\ l = 1 THEN "poll" ELSE "none"]
    /\ backlog = FALSE /\ starting = 0 /\ stopRun = 0 /\ reloadRun = 0
    /\ resetting = FALSE /\ between = {}
    /\ ends = [r \in Runs |-> 0] /\ lateRunning = {} /\ lapsed = FALSE

LoopWork(l) == LoopEnds(l) \/ LoopFires(l) \/ LoopDisarms(l) \/ HandlerStarts(l)

PyNext ==
    \/ Connect \/ Accept \/ OperatorStarts \/ OneshotReturns
    \/ PyStop \/ PyStopEnds \/ PyReset \/ PyReload \/ PyReloadEnds
    \/ \E l \in Arms : LoopWork(l)
    \/ \E r \in Runs : ExitWatcher(r) \/ ProcessExits(r)

\* The goroutines go on, the reload command has a deadline, and an agent that
\* runs accepts its connections.  A writer that waits for the RWMutex keeps new
\* readers out, so repeated reloads do not starve it: strong fairness.
PyFairness ==
    /\ WF_pyVars(Accept) /\ WF_pyVars(PyReloadEnds) /\ SF_pyVars(PyStopEnds \/ PyReset)
    /\ SF_pyVars(OneshotReturns)
    /\ \A r \in Runs : SF_pyVars(ExitWatcher(r))
    /\ \A l \in Arms : SF_pyVars(LoopWork(l))

PySpec == PyInit /\ [][PyNext]_pyVars /\ PyFairness

-----------------------------------------------------------------------------
PyTypeOK ==
    /\ typ \in PyTypes /\ listens \in BOOLEAN
    /\ {cmd, starting, stopRun, reloadRun} \subseteq 0..MaxRuns
    /\ life \in [Runs -> {"none", "runs", "exited"}] /\ killed \subseteq Runs
    /\ exitWatch \in [Runs -> {"none", "wait", "done"}] /\ ownStop \in BOOLEAN
    /\ armed \in 0..MaxArms /\ disarmed \subseteq Arms
    /\ loop \in [Arms -> {"none", "poll", "disarm", "handler", "done"}]
    /\ backlog \in BOOLEAN /\ lapsed \in BOOLEAN
    /\ ends \in [Runs -> Nat] /\ lateRunning \subseteq Runs
    /\ resetting \in BOOLEAN /\ between \subseteq Runs

\* A traffic start meets an operator's start, a stop or a restart: a second
\* process is beside a live one only when Stop has killed the first and stopped
\* waiting, or the first was started between a Stop and its Reset, which let it
\* go (no stronger form holds of the code); one
\* loop polls the socket on the agent's behalf, every other loop still polling
\* has been cancelled; and Reload, which publishes RUNNING under the lock it
\* checked the process with, never reports after the end of that run.
OneRunOneWatch ==
    /\ \A q, r \in Runs : q < r /\ life[q] = "runs" /\ life[r] = "runs"
                      => q \in killed \cup between
    /\ \A l \in Arms : loop[l] = "poll" /\ l \notin disarmed => l = armed
    /\ lateRunning = {}

\* A connection is accepted, whatever starts, stops and reloads go on, unless a
\* failed start, an exit of its own or a process that Reset let go has left the
\* agent unarmed, or a bound is hit.
TrafficServed ==
    backlog ~> \/ ~backlog \/ lapsed
               \/ stopRun # 0 /\ \A l \in Arms : loop[l] # "none"
               \/ \A r \in Runs : life[r] # "none"
=============================================================================
