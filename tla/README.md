# gapi: specification and verification

gapi is a supervisor for agents: the daemon `gapid` discovers agents, starts
them as child processes, follows what they announce on a control descriptor,
stops, reloads and restarts them, and talks to `gapictl` over QUIC. It can run
as PID 1. This directory holds TLA+ models of the daemon, of the kits an agent
is built on and of the client, TLC configurations that check them on small
instances, and TLAPS proofs of the main safety properties.

## Inventory

| Part | State | Operations | Talks to |
|---|---|---|---|
| Lifecycle controller (`core/lifecycle`) | state machine, start-in-flight marker, `stateCh` | `Apply`: initialize, start, stop, reload, restart | runner (calls), bus (statuses, subscription), other controllers (`EnsureStarted`) |
| Agent runners (`core/agentmgr/go_agent.go`, `python_agent.go`, `control_channel.go`) | the command slot, `stopping`, run id, what was announced, listener and watch loop | `Start`, `Stop`, `Reload`, `Reset`, control reader, exit watcher, socket activation | child process (pipe, signals), bus |
| Timer agents (`core/agentmgr/timer_agent.go`, `schedule.go`) | a cancellable loop, its schedule | start, stop, reload, fire | controller, child process |
| Adopted processes, signals, reaper (`core/agentmgr/adopted.go`, `checkpoint.go`, `core/procsig`, `core/subreaper`) | PID and epoch claim, watcher | adopt, signal, poll, stop, reap | kernel, CRIU |
| Agent kits (`adk/go`, `adk/python`) | the agent's phase, start thread, signal queue | announce PENDING, RUNNING, STOPPED or FAILED; handle SIGTERM; inherit listeners | control descriptor |
| Event bus (`core/eventbus`) | subscriptions, one bounded queue and goroutine each | publish, five ways to subscribe, their removal, `Close` | transport, every other part |
| QUIC transport (`core/transport`) | peer set, listener | accept, publish with confirmation window, receive, `Close` | network, bus |
| Supervisor (`core/supervisor`) | which handlers are subscribed, the set of agents | `Run`, `setupAgents`, `handleLifecycleAction`, status reads | manager, bus |
| Manager, graph, toposort (`core/agentmgr/manager.go`, `graph.go`, `discovery.go`, `internal/toposort`) | agents, dependency edges | discovery, `EnsureStarted`, `StopAll`, start order | controllers, registry |
| Registry and databases (`internal/agentreg`, `internal/db`) | records and an edge graph | `Register`, `GetDependencies`, `TopologicalSort`, `ShortestPath` | embedded store |
| PID 1, shutdown, watchdog, mounts (`cmd/gapid`, `core/pid1`, `core/shutdown`, `core/watchdog`, `core/mounts`) | the requested action, mounts, context | phase 0, request, teardown, reboot | manager, kernel |
| Control address (`core/config/control_addr.go`) | one file per daemon in a runtime directory | publish, unpublish, resolve | file system, process table |
| Control client (`core/client`, `internal/statewatch`, `pkg/cli/lifecycle.go`) | a pending request, its timers | ping, status, lifecycle verbs, verdict | bus, daemon |
| Terminal UI (`core/tui`) | view, list, selection, filter, log streams | keys, periodic fetch, tail, lifecycle keys | client |
| Configuration, schema, crypto, cgroups, metrics, logging, other CLI commands | files and kernel interfaces | | |

What is hard about it, and what correctness means:

* **Controller and runner.** Apply is called by the delivery goroutine of the
  action topic, by socket-activation loops, by dependents and at shutdown, at
  the same time. The controller decides on a state it read earlier; the runner
  has one slot for the child; the exit watcher and a stop both see a child end;
  frames of an old child may be read after a new one was started. Correct
  means: one start at a time, no child without an owner, an exit reported once
  and as what the agent said it was, STOPPED only when the process is gone, and
  every call returns.
* **Socket activation and oneshots.** The supervisor polls the agent's socket
  while the agent is down and hands it over. Correct means: one process and one
  watch loop, and traffic that arrives after a stop is served.
* **Timers and adopted processes.** A loop is cancelled but not joined; a PID
  may name a stranger. Correct means: one loop fires, and when it is due; a
  signal reaches only the process that was adopted, its end is reported once,
  and the claim on its PID does not outlive it.
* **Kits.** A signal, the author's functions and the readiness wait meet in any
  order. Correct means: the frames tell the truth in an order the supervisor
  understands, and a signalled agent ends.
* **Bus.** Dispatch sends under a read lock to queues that removers close;
  handlers remove themselves from inside a delivery. Correct means: no send on
  a closed queue, per-publisher order, a one-shot fires once and removes only
  itself, what was accepted is handled.
* **Transport.** Connections come and go during a publish, sends outlive the
  window their publisher waits. Correct means: nil is never an overclaim, a
  fresh client finds its daemon, a publisher is never held by a dead peer.
* **Boot, registry and shutdown.** setupAgents walks a start order, each start
  starts its own dependencies first, and verbs, traffic and dependents start
  the same agents at the same time; reload does it all again over live agents.
  Correct means: the order respects the declarations, nothing that could start
  is skipped, nothing runs without what it requires, dependents stop first,
  StopAll's success is honest, crossing starts never wait for each other; a
  shutdown request is neither lost nor replaced, and the machine goes down in
  order.
* **Client.** Requests may be dropped during bring-up, frames arrive in any
  order, statuses carry no correlation, daemons die without a word. Correct
  means: the address dialled belongs to a live daemon, reads are answered, and
  completely; mutating verbs are executed at most once; a failure is reported
  as one; the log viewer follows the stream it shows.

## Modules

| Module | Models | Proofs |
|---|---|---|
| `AgentLifecycle` | controller, runner, children of one agent and all its callers | `AgentLifecycleProofs` |
| `EventBus` | the bus inside one process | `EventBusProofs` |
| `Transport` | one end of the QUIC transport | `TransportProofs` |
| `StartOrder` | the topological sort, with a reference definition | `SupervisorProofs` |
| `Boot` | discovery, setupAgents, EnsureStarted, reload and StopAll over many agents | `SupervisorProofs` |
| `Registry` | records, edge graph and path search under concurrent registration | `SupervisorProofs` |
| `PythonAgent` | a runner's lock, socket activation, oneshots, reload | `DaemonProofs` |
| `TimerAgent` | schedules and the loop that fires them | `RunnerProofs` |
| `AdoptedProcess` | claim, watcher, stop, pinned signal and reaper over recycled PIDs | `RunnerProofs` |
| `GapidMain` | gapid's main, PID 1 mode, shutdown requests and teardown | `DaemonProofs` |
| `Announcement` | what the supervisor expects to hear from an agent | `KitProofs` |
| `GoAgentKit` | the Go kit inside an agent's process; implements `Announcement` | `KitProofs` |
| `PyAgentKit` | the Python kit inside an agent's process | `KitProofs` |
| `ControlAddr` | how gapictl finds its daemon | `GapictlProofs` |
| `ControlClient` | gapictl's commands against the daemon's handlers | `GapictlProofs` |
| `Tui` | the terminal UI | `GapictlProofs` |
| `MC*` | constants for TLC, and which components one run brings together | |

The modules meet at named seams: `AgentLifecycle` takes from the bus only that
a bounded queue delivers in order and may drop, and from the kits the frames
`Announcement` allows; `ControlClient` takes from `Transport` that events of
one connection arrive in any order and from `AgentLifecycle` the set of
outcomes of Apply; `Boot` keeps of one controller its state, the start marker
and whether there is a process, and uses `StartOrder` for both orders;
`GapidMain` keeps of StopAll that it stops one agent after the other and may
give up, as `Boot` shows it to. Four MC modules put components that share no
state side by side (`MCBoot`, `MCGapictl`, `MCRunners`, `MCDaemon`): the first
state picks the one a behaviour exercises, in the variable `exercised` or
`part`, and the others are idle.

### AgentLifecycle

A step is what one goroutine does between two points where another can
interfere: a critical section or one channel operation. `pc[c]` walks a caller
through `ApplyWithContext`; the start path is CallStart, BeginStart,
StartDependencies, SetRunID, Drain, RunnerStart, MarkStarting, AwaitEvent /
AwaitSilence / AwaitDeadline, MarkRunning or StartTimedOut, and EndStart (the
deferred `endStart`). A child writes frames into `pipe`, ReadFrame is the
control reader, WatchExit the goroutine that waits for the process. The number
of a call doubles as run identity and as the name of the child it spawns.
`cmd` is the runner's slot, `exitBy` a history of who reported a run's end.
Only RUNNING statuses are kept in the two queues, because both waits act on
nothing else. `ReloadAnnounces` chooses the Python runner, whose Reload
publishes RUNNING itself, or the Go runner, which leaves it to the agent.

Left out here: what `PythonAgent` has (oneshots, sockets), the unlocked read of
`a.cmd` in the goroutine that waits on behalf of Stop, and the split of one
frame's handling into three critical sections, which is one step here.

### PythonAgent

The runner's mutex makes a step; only Reload holds it, for reading, while its
command runs, and `Lockable` keeps everybody else out. ArmLocked, LoopFires,
LoopDisarms and LoopEnds are the watch loop, Connect and Accept the socket
(external), PyStart / Spawn the start, OneshotReturns, ExitWatcher and
PyStopEnds the three places that notice an end. PyReset is the Reset that the
controller calls after Stop, whatever Stop returned: a lock section of its own,
so that a start may come between the two; `between` remembers the runs that did.
`go_agent.go` has the same socket code; its control channel is in
`AgentLifecycle`. Left out: a second Stop while one is under way, and the
process slot that Stop's kill branch would find empty.

### TimerAgent

One schedule per behaviour, of every form and every duration in `Durations`,
zero and negative ones included. Each started loop has its own counter, clock
readings and process; a fire is bounded by `FireTimeout`. Time is a counter
that `Tick` advances. A cron expression may name any later
instant; its fields are data, and one that names no further instant is left out.

### AdoptedProcess

Processes are numbered in the order they start and a number is its start
epoch; `at` maps a PID to the process there. A signal is sent in the code's
steps: read the epoch, open the pidfd, read it again, send. Adopt cancels and
joins the watcher it replaces; the watcher polls, and reports under the lock
if it still owns the claim; Stop asks, waits, kills and settles; the reaper
collects zombies and tells the agents. Each member of `Stoppers` is a goroutine
that may call Stop or Reset at any moment, also while another is inside it, as
neither the controller nor the runner keeps a second Stop out; `overlapped`
remembers the processes whose claim a Stop took with another Stop under way.
`SignalFails` allows a delivery that fails for a reason of its own.

### GapidMain

`mpc` walks main through New, phase 0, the early mounts one by one, the
watchdog, Run, its end, and the teardown in PID 1 mode. `chan` is the request
channel of one place, `waiter` the goroutine that reads it; signals and the bus
topic put requests in. The reap loop and the watchdog end with the context.
System calls succeed or fail.

### GoAgentKit, PyAgentKit, Announcement

`GoAgentKit` is `Run`: the verb, the optional functions and the inherited
environment are chosen in the first state; Start's goroutine answers on
`startDone` or never; SIGTERM may come at any moment, before `signal.Notify`
with the default action. The exits before the first frame (a bad flag, a spec
that does not validate) are left out, and the environments that Listener may
inherit are three: none, one meant for this process, one that a socket-activated
supervisor left behind for its own PID; one left behind with LISTEN_PID unset or
`self`, which the code takes as its own, is left out. `Announcement` is the protocol: PENDING first, RUNNING
at most once and only then, PENDING again while stopping, STOPPED or FAILED
last, and an exit code that agrees. `AnnouncesInOrder` is the refinement, with
the last frame and the exit code of a service as its mapping.

`PyAgentKit` has one more difficulty: a Python signal handler runs on the main
thread between any two steps. `calls` is the stack of stop() activations above
whatever it interrupted, `flight` the exception or SystemExit that is
unwinding, through the finally block of each. It does not implement
`Announcement`; how is listed below.

### EventBus

`Publish` takes the snapshot a dispatch iterates over while it holds the read
lock; `Send`, `DropRead`, `DropWrite` are `delivery.send`; every remover is
guarded by `WriteLock`. `Deliver` is one iteration of a delivery goroutine,
`RemoveSelf` a one-shot's removal after its handler. `drops` is incremented in
two steps, as `d.drops++` under a shared lock is.

### Transport

`link` follows a connection through the listener's queue, `acceptLoop` and
`handleConn`; `asked`, `waiting`, `failed` are the locals of `PublishRemote`;
a frame `<<p, k, c>>` is the send of publisher p's k-th event to c, which
outlives the publish. One module serves both roles: `Dialed` is empty in a
daemon and the one connection in a client.

### StartOrder, Boot and Registry

`StartOrder` is `internal/toposort`: an agent is a number, so that `<` is the
order of the id strings. `Kahn` and the rounds of `Sort` are recursive
functions of the round number, whose rounds are the operators `KahnStep` and
`DropSoft`; the reference (`IsStartOrder`) knows neither
rounds nor queues, only sets each of whose members depends on another member.

In `Boot` the things that run are objects, an agent with the number of its
construction, because discovery builds a new controller and runner every time
and the manager's map (`cur`) keeps the latest. A goroutine's `stack` holds the
starts it is nested in; its agent ids are the context's dependency path.
EnterStart is the part of ActionStart up to the dependencies, EnsureStarted and
DependencyReturned the dependency loop, Spawn / SpawnFailed / BecameRunning /
StartTimedOut the rest; EnterStop and FinishStop are ActionStop. Discover,
SortAgents, SkipAgent, ArmAgent, StartAgent, AgentStarted and SetupDone are
setupAgents, run by `Main` at boot and by the reload topic's goroutine later.
A `scene` is what is installed (the four relations and each agent's kind) with
the number of verbs, reloads and crashes that may happen. Two histories,
`overlap` and `failed`, let a property say "when nothing else was at work" and
"when nothing failed". Left out: timer and oneshot agents (started like
services), a database that fails, agents removed from disk between two
discoveries, and every reload or verb that is queued behind another one.

`Registry` has Register write by write under its mutex, the readers without
it, and the path search with its queue of stale distances, checked against all
simple paths. Store failures are left out.

### ControlAddr, ControlClient and Tui

`ControlAddr`: a daemon binds, writes its file in the first tier it can, may
crash or stop and remove its own entry; the client reads the tiers one entry at
a time and probes PIDs. WriteFile is two steps, so a reader may find the file
empty. A daemon that has exited is a zombie, which keeps its PID and answers the
probe, until its parent has waited for it (Reaped). `target` is what the client
dials, `ambiguity` the error it holds for its message: after an error of
ReadControlAddr the configured default stays, and is dialled (DefaultStays).

In `ControlClient` each request is a process of its own. `toDaemon` and
`toClient` are sets: every event has its own stream. `setup` walks setupAgents:
Discover puts a fresh object into the manager for each agent it finds,
RegisterAgent writes its record (or refuses it and leaves what the registry has),
Sorted and StartAgent are the start loop, SetupDone its end. Run calls it before
Register, the subscription of the handlers; Reload, the handler of agent.reload,
runs it again beside them. A verb's handler keeps the object it took, so `old`
is that object's state once a reload has replaced it. `owed` is what a read must
show: everything the registry had when the boot's setup ended, and when the last
reload ended before the read was first sent; `shown` is what its reply listed. Left out: a full subscription queue, the
channel of eight statuses in statewatch, in-flight statuses other than PENDING
(they change nothing the client does), and a registry database that fails to
list.

`Tui` is the model's Update: one action per group of keys, one per message. A
log stream has its channel and its waiters (`waitForLog` commands under way);
what is rendered is reduced to the highlighted row. One lifecycle verb of the UI
is under way at a time.

## Runs

| Run | Bounds | Shows |
|---|---|---|
| `lifecycle_calls` | one caller, two calls of any verb, Python runner, one unreadable frame | NoOrphan; CallReturns under fairness |
| `lifecycle_races` | a handler (start, stop), socket activation and a dependent at work on one agent, two calls, one unreadable frame | RunningWasAnnounced, ExitReportedOnce, SlotReaped, OneStartInFlight, AnnouncedExitKept |
| `lifecycle_restart_refused` | one start, one restart | refutes RestartTakesEffect |
| `lifecycle_dead_running` | one start, a child that dies | refutes NoDeadRunning |
| `boot` | three agents; every graph of up to three requires/wants and of up to two of the four relations; every kind of one agent; an agent that names itself; two agents in every relation with a verb against traffic; one crash; one reload. Registry: two registrars, two registrations out of three descriptions, searches over four nodes, six arcs and two weights | OrderSound, BootStartsAll, HardDepsRun, DependentsStopFirst, PathIsShortest, DependenciesComplete; CallsReturn under fairness |
| `bus` | two publishers of two events with an exact and a context subscription, or one publisher with two correlated one-shots; queues of two | NoSendOnClosed, OrderKept, LeavesForItself; AcceptedIsHandled under fairness |
| `transport` | one dialled and one accepted connection, two publishes | NilMeansWritten, DialedIsPeer; PublishReturns under fairness |
| `runners` | two PIDs and two processes, with one caller of Stop and Reset or with two callers of Stop (then without unrelated processes and checkpoints); timers: two callers, two loops, instants 0 to 3, durations from -1 to 2, a timeout of 1 | SignalHitsRecorded, EndedOnce, OneLiveLoop, FiresAreDue; ClaimExpires, LoopsEnd under fairness |
| `daemon` | two agents, two shutdown requests; two runs and two watch loops of a service or a oneshot; two SIGTERMs to either kit | ShutdownInOrder, OneRunOneWatch, ControlHeard, AnnouncesInOrder; ShutdownCompletes, TrafficServed, TermEnds under fairness |
| `gapictl` | two daemons and two PIDs, one of them with XDG_RUNTIME_DIR; a read, a reload and a stop of an unknown agent, one retry, all at once during the boot, or one of them beside any number of agent.reloads; listings of a few rows, one fetch, two log streams of two lines, channels of one | AddressDefensible, VerbServedOnce, ReadIsComplete, TailFollows; ReadAnswered, ClientReturns under fairness |
| `client_refused_ok` | one restart | refutes RefusedIsFailure |
| `tui_selection` | the same listings | refutes ActsOnHighlighted |

Some properties have several parts, one per conjunct: NoOrphan includes that a
stopped agent's process is gone, SlotReaped that a kill finds its command,
AcceptedIsHandled that a one-shot's handler runs once, PublishReturns that a
dead peer leaves the set, VerbServedOnce that an unknown agent is a failure,
DependentsStopFirst that StopAll's success is honest. Each module states one
type invariant (`TypeOK`, or with the component's prefix), which no run spends
time on: the types are proved with the theorems below, as a theorem of their own
or as a conjunct of the component's inductive invariant.

Why the bounds are enough: a race in the controller needs two overlapping
calls, and a stale event or frame needs one earlier run, so two calls and three
goroutines reach every case the code distinguishes; queue capacities of one or
two make overflow, eviction and reordering happen at once, where the code's 64,
100 and 256 only delay them; two peers are the least for a partial publish and
two publishes the least for a late answer; one retry suffices for a read whose
first send found no subscriber. Three agents hold every shape of a cycle and a
node that waits for one, and two goroutines are enough for starts that cross; a
second reload only adds a third construction. A recycled PID takes two
processes; a loop that outlives its Reload takes two loops; re-arming takes two
watch loops and two runs; a nested stop takes two signals; a log line of a
stream that was left takes two streams. Deadlock is not checked: a daemon
nobody calls any more, with its bounded counters used up, is at rest.

### Fairness

* Goroutines that can run do, and timers fire; that is all `lifecycle_calls`
  assumes, with a killed process dying. Nobody is assumed to call, no child to
  make progress.
* In the bus a mutex that keeps being released is obtained (Go's writers go
  before readers that arrive later), hence strong fairness of RemoveSelf; the
  same for the steps of `PythonAgent` that wait for the runner's RWMutex.
* In the transport nothing is assumed of the network. A client's read is
  answered only if frames on a live connection are handled, which is assumed of
  `Arrive`; that `setupAgents` returns is not.
* In `Boot` some of the work under way is always taken on: one weak fairness
  condition over all the steps of setupAgents, StopAll and the calls. Every
  wait in them has a deadline, so CallsReturn says that no cycle of waiting
  goroutines exists; verbs, traffic and shutdown need not happen.
* `TimerAgent` adds that time passes and a process that was sent SIGKILL dies;
  `AdoptedProcess` the latter and that the reaper runs.
* In the kits the author's Initialize and Stop functions return; Start need
  not, which is what TermEnds is about.

## What the code does not keep

Refuted by a run, with the quoted text in `PROJECT.json`:

* a restart is always refused by the controller's own cycle check, as is a
  reload of an agent that is not running (`RestartTakesEffect`);
* an agent that dies on its own leaves the controller at running
  (`NoDeadRunning`), so a later start does nothing;
* a verb the daemon refused is printed as [OK] (`RefusedIsFailure`);
* with a filter on, or on the Global tab, the terminal UI's keys start, stop
  and reload another agent than the highlighted one
  (`ActsOnHighlighted`).

Stated in the modules, and refuted when added to a configuration:

* `NoOrphan` with a second caller: a child spawned between a Stop's signal and
  the state that Stop leaves behind (a stop from state error overlapping a
  start) loses its slot, and is left alive behind a STOPPED agent;
* `EndedOnce` without its `overlapped` exception: a second Stop of an adopted
  process passes the controller in state stopping (`controller.go:353`) and the
  runner, and neither looks at the claim again after its wait
  (`adopted.go:354`), so both publish the end;
* `OneRunOneWatch` without its `between` exception: a process started by traffic
  between a Stop, which arms the socket again, and the controller's Reset loses
  its slot to Reset, lives on with nobody to stop it, and the next start spawns a
  second one beside it;
* `ApplySettles`: a start that finds another start in flight returns nil;
* `SpokeIsThisRun` and `AnnouncedExitAlwaysKept`: a late frame of the previous
  child overwrites what the runner remembers of the new one
  (`control_channel.go:243`);
* `DropsCounted`: two publishers overflowing one queue lose a count;
* `ClosedHasNoPeer`: a connection accepted during Close enters the peer set
  after it was emptied;
* `RemoteOrderKept`: order is kept within a bus, not across the transport;
* `QueryTellsState`: `gapictl lifecycle status` is answered error whatever the
  state, because the unspecified action means initialize;
* `OwnOutcome`: a verb can be reported done on another caller's status;
* `OneProcess`: agent.reload builds and starts a second object for an agent
  whose first one has a live process, which nothing can stop any more;
* `NothingLeft`: StopAll stops nobody when any hard cycle is declared, returns
  at the first agent that is still starting, and a socket agent it stopped is
  armed again, so traffic restarts it during shutdown;
* `SoftOrderKept`: the sort drops every soft edge between nodes that wait for a
  cycle, also those on no cycle, where its package comment says soft edges are
  dropped "when they would form a cycle" (`internal/toposort/toposort.go:11`);
* `HardDepsRun` without its `overlap` condition: a dependency another goroutine
  is starting answers nil, and the dependent is spawned before it runs. Also, a
  disabled agent that another one wants is started by EnsureStarted;
* `GraphMatchesRecords`: an agent registered again keeps the edges it no longer
  declares, and the sort's `syncGraph`, whose comment says it "rebuilds the
  graph", does nothing, because the hybrid store has no `ClearGraph`;
* `CgroupsAfterMounts`: `supervisor.New` sets up control groups, and publishes
  the control address, before phase 0 mounts what they rest on; the comment in
  `core/mounts/mounts.go:10` says mounts come "before cgroups or the event bus
  exist";
* `OneWaiter`: a stop of a oneshot and its Start both call `cmd.Wait`, where
  `go_agent.go:54` says `waitOnce` serializes them; the end is reported twice;
* `ClaimExpires` with `SignalFails`: a Stop whose signal failed for a reason of
  its own leaves a claim that nobody watches.

Seen while modelling, and visible in the models as behaviours they allow:

* Adopted processes: the epoch is read after Restore returned, so the claim may
  be on a stranger; a Stop that settles clears the claim of an adoption made
  meanwhile; Checkpoint may dump a recycled PID; Start on an agent that has an
  adopted process spawns a second one; Restore does not move the controller.
* Timers: the process of a cancelled loop may overlap that of its successor.
* Reload: a read answered while agent.reload is adding agents may miss those,
  and a verb that is being served then acts on the object that was replaced.
* Sockets: after a failed start, a crash or a oneshot's end nothing arms the
  socket again; a poll error leaves `watchCancel` set with no loop; a cancelled
  loop that had seen traffic may still disarm its successor and start the
  agent. Reload keeps every writer waiting for up to ten seconds.
* PID 1: mounts that were there before are unmounted too; Run's own StopAll,
  which precedes the bounded one, has no bound; the watchdog is closed before
  the teardown it would guard; a failure of EnablePid1 or Run exits without a
  teardown.
* Go kit: Listener closes the descriptor it duplicated; a second call finds
  whatever has its number by then.
* Python kit: an exception in initialize exits 1 with no frame; a failed start
  announces FAILED and the process runs on, and RUNNING may follow; a second
  SIGTERM nests a second stop, so STOPPED may be repeated or followed by
  PENDING; FAILED follows STOPPED when the join times out; an exception of the
  stop function is STOPPED with exit code 1, or is swallowed by the port probe
  it interrupted, and the agent runs on; worker threads that are not daemons
  keep the process alive.
* Terminal UI: overlapping fetches are applied in the order they arrive; a late
  line of the stream that was left is shown in the new viewer, and leaves a
  second waiter on it.
* Control address: a recycled PID makes a dead daemon's entry look alive, and in
  a higher tier hides a live daemon with that PID; so does a zombie nobody has
  waited for; with two published daemons, or an entry that cannot be read, the
  default address is dialled, and the reason is only told if that fails.

## Proofs

The theorems hold for every value of the constants that the modules'
assumptions allow: any number of callers, publishers, connections, agents,
processes, PIDs, streams and signals, any capacity, any declarations. The
assumptions give the constants their types and ask for finite sets where the
code has a finite list (agents, PIDs, the dependencies of a description). No
invariant of interest is inductive by itself; what each needs is named here.

**AgentLifecycleProofs** (`AgentLifecycle`).
*TypeCorrect*: one lemma per group of actions. *StartIsExclusive*: `MarkerInv`,
the marker is set exactly while some caller is in the start section; beginStart's
test-and-set preserves it. *RunningIsAnnounced*, for the Go runner
(`~ReloadAnnounces`; the Python runner's Reload publishes RUNNING itself):
`ReadinessInv`, every RUNNING in a pipe, a queue or `stateCh` with a run's
identity was written by that run's child, so the identity test in
`awaitRunningWithRunIDSince` suffices. *ExitHasOneReporter*: `FreshInv` (a call's
number is new, so is its child) and `ReportInv` (while a stop waits for a child
the `stopping` flag is up and the watcher has not reported). *SlotIsReaped*, when
one goroutine stops (`OneStopper`): `SlotInv`, a stop that waits still has its
child in the slot, and a slot is being stopped only while somebody waits; with
two stoppers the code's own slot is emptied under the second. *NoChildIsOrphaned*,
for any number of callers, is about the behaviours in which nothing is spawned
while a Stop is between its signal and the state it leaves behind
(`SpawnsApart`, a condition on steps; a spawn in there is what the code does not
survive, see above): `OrphanInv`, a child that is not gone is the one in the slot,
whoever waits for a child finds that one or nothing there, and whoever is about
to enter STOPPED finds it empty. *AnnouncedExitIsKept*, for children within the
budget of unreadable frames (`WithinBudget`): `PipeInv` and `AnnounceInv` follow a
last word from the end of the pipe to the announced state.

**EventBusProofs** (`EventBus`).
*BusTypeCorrect* with `MidDispatch` (a publisher that is sending has an event).
*SendsAreSafe*: `LockInv`, no remover runs while a dispatch has something left to
send. *OrderIsKept*: `OrderInv` relates a queue, what its handler has seen and the
event being dispatched. *OneShotsLeaveAlone*: removal is by identity.

**TransportProofs** (`Transport`).
*TransportTypeCorrect*; *NilIsHonest* through `PublishInv` (a send belongs to a
publish that was made; whoever is asked and no longer awaited or failed was
written); *ClientFindsDaemon* through `DialInv`.

**KitProofs** (`GoAgentKit`, `PyAgentKit`, `Announcement`).
*KitAnnouncesInOrder* is the refinement of `Announcement`, for any number of
signals: `SaidInv` says which word was the last one at each place of `Run`, and
with it every step of the kit is a step of the protocol or says nothing.
*KitControlKept*: `FdsInv`, Listener never closes the control descriptor.
*PyKitStopAnnounced*: a Python service that exits 0 has said STOPPED, however stops
nest; `ExitAfterStopped` carries the word through the stack of activations and the
SystemExit in flight, `MainOver` says that main says nothing once an exit unwinds.

**DaemonProofs** (`GapidMain`, `PythonAgent`, the kits together).
*GapidShutdownInOrder*: `FirstKept` follows the first request from the channel to
the action, `TeardownSoFar` says what a teardown has already synced and detached.
*PyOneRunOneWatch*: `SlotInv` (what the slot holds for a service and for a
oneshot), `LiveRuns` (a live process is in the slot or about to be, or was killed,
or was started before the Reset that let it go) and
`EndsInv` (what is in the slot has not been reported). *DaemonControlHeard*
combines the two kits.

**RunnerProofs** (`TimerAgent`, `AdoptedProcess`).
*TimerOneLiveLoop*, *TimerFiresAreDue*: `OneShotLoop` and `RepeatLoop` relate a
loop's last fire to the clock at each of its places. *AdoptSignalHitsRecorded*:
`KernelInv` (a PID has one process), `ClaimInv` (what is claimed was recorded) and
`PinInv` (the pinned process is the claimed one, or that one is gone and the
second check sees it), for each of any number of Stops. *AdoptEndedOnce*:
`EndInv`, no claim names a process whose end was published, two Stops hold one
process only when one of them took it with the other under way, and a Stop that
alone holds the claimed one keeps the watcher from reporting it.

**GapictlProofs** (`ControlClient`, `Tui`, `ControlAddr`).
*ClientVerbServedOnce*: `OneSend`, a verb is under way, queued or served, and only
one of these; `UnknownFails`. *ClientReadIsComplete*: `ReadInv`, what a
read is owed is in the registry and in every reply that is under way to it; the
registry only grows, whatever a reload is doing, and before the handlers are
there, or the read is sent, nothing can have answered it (`ReadUnsent`).
*TuiTailFollows*: the property with the types is inductive.
*ControlAddressDefensible*: `OwnerInv` and `FileInv` say whose PID and whose
address a file holds, `ReadInvs` what a scan has seen so far, and `PastInv` that
a scan still comes to every daemon that was published when it began and has stayed.

**SupervisorProofs** (`Registry`, `Boot`, `StartOrder`).
*RegistryDependenciesComplete*: `EdgesKept`, an edge of a description is stored or
still in its registrar's list, and `RequiresRead`, a query that has read the
requires of an agent has those of every registration that was complete before.
*BootHardDepsRun*: while one goroutine works (`OneBusy`), `NestInv` says that each
nested start is of what the one below waits for and that everything a start has
ticked off runs; `GenInv`, `PlaceInv` and `StackInv` say who may be where.
*BootOrderSound* is about the sort itself, for every finite graph. `KahnInv`
holds of every round of Kahn's algorithm: the list and the ready queue name
different nodes, together exactly those whose dependencies are all listed, and
what is listed comes after what it depends on; so what is left unlisted is
the largest set each of whose members depends on another, which is the reference
definition (`StuckWait`). `RoundInv` holds of every round of the second phase:
only edges to nodes that wait for a cycle were dropped, and each round so far
dropped one, unless one of them listed every node. Hence with an acyclic hard
graph a round ends the loop: the error that `toposort.go:76` returns to "guard
against an infinite loop anyway" is never returned. The induction over rounds is over a set
of numbers (`SetInduction`), since the library's induction rules take an operator.
*StopAllInOrder* (DependentsStopFirst): `ChildInv`, a process belongs to an object
that was built and whose controller is not at stopped, so that an Apply(stop) that
returned nil left none; and `DownInv`, while StopAll works alone whoever has a
process is on its list, before everything it depends on hard.
*BootStartsWhatCanStart* (BootStartsAll): four invariants, checked with TLC before
they were proved. `KnownInv`: discovery has passed every agent it does not still
have on its list. `HaltInv`: what is in state stopping is being stopped by
somebody. `AwaitInv`: what a lone goroutine awaits is in state starting, so that
its announcement is accepted. `StartsInv` is about a round of setupAgents that
works alone and in which nothing failed: what it has started or armed is enabled,
recorded and closed under Requires (`StartedOK`); every agent that can start is in
that set or still on the list, and the list is in the order of the hard edges, so
that what the next agent requires was passed before it (`TodoOK`); and of the
nested starts (`ChainOK`), those reached through hard dependencies only are of
agents that can start, and an error is under way only below an optional one. That
is what makes the argument go through: an error can come only from an agent
that is unknown, from one that is already on the stack, or from a failure, and a
chain of hard dependencies that begins at an agent that can start meets neither
of the first two (`ChainGoesOn`, `NoRing`).
*RegistryPathIsShortest*: `SearchInv`. Every item in the heap is a path from the
start with its cost (`ItemOK`), and there are distances of the settled nodes that no
edge among them beats, whose outgoing edges are all in the heap, and that nothing
in the heap is below (`Distances`). Popping a stale item keeps this; settling a node
extends the distances with its cost. When the node looked for is popped, the
distances, with that cost for every other node, are an estimate that no edge
beats, and such an estimate is at most the cost of any path (`EstimateIsLeast`, an
induction along the path through `SetInduction`). An edge put meanwhile ends the
claim about cost, not the one that the answer is a path.
*BootTypeCorrect*: `FlightInv`, whatever is on a goroutine's stack is marked in
flight and is on nobody else's, which is what beginStart's test is for; `RestInv`,
StopAll's list has registered agents, and what is being stopped is one.

Only model-checked: liveness (CallReturns, CallsReturn, AcceptedIsHandled,
PublishReturns, ReadAnswered, ClientReturns, ClaimExpires, LoopsEnd,
ShutdownCompletes, TrafficServed, TermEnds), since fairness and ENABLED are outside
the prover's reach. Every other property of a passing run is also a theorem, under the
conditions named above where there are some.

## Not modelled

See `components` in `PROJECT.json` for every part and the reason. In short:
parts without a state of their own that reads and writes files or kernel
interfaces (control groups, configuration and schema, crypto, metrics and
logging), sequential file generation (the other gapictl commands, scaffolding
and packaging of agents, the documentation generator, the build targets), and
generated code. Inside modelled parts: CRIU, store failures, TLS, agents
removed from disk, `Instantiate` and `Deregister`, and liveness probes.

## Extensions

Worth modelling next, in this order: `Instantiate` and `Deregister` with agents
removed from disk, store failures inside Register, and liveness probes. A
refinement of `AgentLifecycle` by the two runners would connect the theorems about
the controller with those about the processes.
