-------------------------------- MODULE Boot --------------------------------
(***************************************************************************)
(* The supervisor over many agents: discovery, the boot order and its      *)
(* gate (core/supervisor setupAgents), a start that first starts the       *)
(* agent's dependencies (core/lifecycle, core/agentmgr depView), StopAll,  *)
(* and agent.reload, which runs setupAgents again over live agents.        *)
(*                                                                         *)
(* Discovery builds a new Agent (controller and runner) each time it finds *)
(* an agent, so the things that run are OBJECTS, an agent with the number  *)
(* of its construction; the manager's map holds the latest one.  What one  *)
(* controller and its process do inside a start or a stop is the subject   *)
(* of AgentLifecycle; here a start is entry, dependencies, spawn, outcome, *)
(* and a stop is entry and completion.                                     *)
(***************************************************************************)
EXTENDS StartOrder

CONSTANTS
    Agents,       \* agent ids, numbers in the order of the id strings
    Scenes,       \* what is installed, and what happens to it (see Scene)
    Main,         \* the goroutine of Supervisor.Run
    Reloader,     \* the delivery goroutine of agent.reload
    Handler,      \* the delivery goroutine of the lifecycle verbs
    MaxGen        \* bound: constructions of one agent (1 + reloads)

Relations == {"requires", "wants", "requiredBy", "wantedBy"}

\* A lazy agent listens and is started by traffic; a disabled one is not
\* started at boot; a broken one does not describe itself; an unsigned one is
\* refused by the registry.
Kinds == {"service", "lazy", "disabled", "broken", "unsigned"}

\* The declarations <<agent, relation, agent>>, the kinds, and the bounds on the
\* verbs, reloads and crashes of a behaviour.
Scene == [graph   : SUBSET (Agents \X Relations \X Agents),
          kind    : [Agents -> Kinds],
          verbs   : Nat, reloads : 0..(MaxGen - 1), crashes : Nat]

Gens       == 1..MaxGen
Objects    == Agents \X Gens
NoObject   == <<0, 0>>
Goroutines == {Main, Reloader, Handler} \cup Objects

ASSUME AgentsAssumption == Agents \subseteq Nat \ {0} /\ IsFiniteSet(Agents)
ASSUME ScenesAssumption == Scenes \subseteq Scene
ASSUME GoroutinesAssumption ==
    /\ Main # Reloader /\ Main # Handler /\ Reloader # Handler
    /\ {Main, Reloader, Handler} \cap Objects = {}
ASSUME BoundsAssumption == MaxGen \in Nat \ {0}

VARIABLES
    scene,         \* what the installed agents declare; what may yet happen
    cur,           \* the manager's map: latest construction, 0 for none
    sm,            \* each controller's state
    starting,      \* objects with a start in flight (beginStart)
    children,      \* objects with a live process
    hooked,        \* objects with a traffic handler
    armed,         \* objects with a watch loop
    stack,         \* each goroutine's nested starts
    ret,           \* what the last nested Apply returned
    halting,       \* the object a goroutine is stopping
    setup,         \* locals of setupAgents
    down,          \* locals of StopAll
    phase,         \* of Run: setup, serving, stopping, exited
    overlap,       \* history: work began while other work was under way
    failed         \* history: something failed to start or to arm

objVars  == <<cur, sm, starting, children, hooked, armed>>
callVars == <<stack, ret, halting>>
histVars == <<overlap, failed>>
runVars  == <<setup, down, phase>>
vars     == <<scene, objVars, callVars, runVars, histVars>>

-----------------------------------------------------------------------------
(* Declarations.                                                           *)

Named(a, rel) == {d[3] : d \in {x \in scene.graph : x[1] = a /\ x[2] = rel}}
Requires(a)   == Named(a, "requires")
Wants(a)      == Named(a, "wants")
Known         == {a \in Agents : cur[a] # 0}
Latest(a)     == <<a, cur[a]>>

\* The edges that the agents in known declare: "x is wanted by y" is y's edge.
Edges(graph, known, forward, reverse) ==
    {<<d[1], d[3]>> : d \in {x \in graph : x[2] = forward /\ x[1] \in known}}
      \cup
    {<<d[3], d[1]>> : d \in {x \in graph : x[2] = reverse /\ x[1] \in known}}

Hard(graph, known) == Edges(graph, known, "requires", "requiredBy")
Soft(graph, known) == Edges(graph, known, "wants", "wantedBy")

\* agentmgr's TopologicalSort, tabulated over everything it may be asked (the
\* comparison makes TLC compute the table once).
OrderOf ==
    LET table == [q \in {sc.graph : sc \in Scenes} \X SUBSET Agents |->
                    Sort(q[2], Hard(q[1], q[2]), Soft(q[1], q[2]))]
    IN  CHOOSE t \in {table} : t = table

TopologicalSort == OrderOf[<<scene.graph, Known>>]

-----------------------------------------------------------------------------
(* A start.  A goroutine's stack holds the starts it is inside of; the     *)
(* context of the nested calls carries their ids.                          *)

States == {"stopped", "starting", "running", "stopping", "error"}

\* The state machine's table, on the states met here.
Allowed(from, to) ==
    \/ from = "stopped"  /\ to \in {"starting", "error"}
    \/ from = "starting" /\ to \in {"running", "error"}
    \/ from = "running"  /\ to \in {"stopping", "error"}
    \/ from = "stopping" /\ to \in {"stopped", "error"}
    \/ from = "error"    /\ to \in {"stopping", "stopped", "starting"}

\* TransitionTo leaves the state alone when it returns an error.
TransitionTo(o, to) ==
    sm' = [sm EXCEPT ![o] = IF Allowed(@, to) THEN to ELSE @]

Frame(o) == [obj |-> o, hard |-> Requires(o[1]), soft |-> Wants(o[1]),
             dep |-> 0, pc |-> "deps"]

\* The cycle check of ApplyWithContext.
Visited(frames, o) == \E i \in DOMAIN frames : frames[i].obj[1] = o[1]

\* A start in flight, or done, answers nil at once.
AnsweredAtOnce(o) == sm[o] \in {"starting", "running"} \/ o \in starting

\* ActionStart on o by g, whose enclosing starts are frames.
EnterStart(g, frames, o) ==
    \/ /\ Visited(frames, o) \/ AnsweredAtOnce(o)
       /\ ret' = [ret EXCEPT ![g] = IF Visited(frames, o) THEN "err" ELSE "ok"]
       /\ stack' = [stack EXCEPT ![g] = frames]
       /\ UNCHANGED starting
    \/ /\ ~Visited(frames, o) /\ ~AnsweredAtOnce(o)
       /\ stack' = [stack EXCEPT ![g] = Append(frames, Frame(o))]
       /\ starting' = starting \cup {o}
       /\ UNCHANGED ret

Inside(g) == stack[g] # <<>>
Top(g)    == Last(stack[g])
SetTop(g, f) == stack' = [stack EXCEPT ![g] = Append(Front(@), f)]

\* The innermost start returns.
LeaveStart(g, res) ==
    /\ stack' = [stack EXCEPT ![g] = Front(@)]
    /\ starting' = starting \ {Top(g).obj}
    /\ ret' = [ret EXCEPT ![g] = res]

\* EnsureStarted, hard dependencies before soft ones.
EnsureStarted(g) ==
    /\ Inside(g) /\ ret[g] = "none" /\ Top(g).pc = "deps" /\ Top(g).dep = 0
    /\ \E d \in IF Top(g).hard # {} THEN Top(g).hard ELSE Top(g).soft :
         LET f == [Top(g) EXCEPT !.dep = d]
         IN  IF d \in Known
               THEN EnterStart(g, Append(Front(stack[g]), f), Latest(d))
               ELSE /\ SetTop(g, f)
                    /\ ret' = [ret EXCEPT ![g] = "err"]
                    /\ UNCHANGED starting
    /\ UNCHANGED <<scene, cur, sm, children, hooked, armed, halting,
                   runVars, histVars>>

\* Mutant of Blocks: a hard dependency's failure is only logged.
NothingBlocks(f, res) == FALSE

\* The failure of a hard dependency fails the start.
Blocks(f, res) == res = "err" /\ f.dep \in f.hard

DependencyReturned(g) ==
    /\ Inside(g) /\ ret[g] # "none" /\ Top(g).dep # 0
    /\ LET f == Top(g)
       IN  \/ Blocks(f, ret[g]) /\ LeaveStart(g, "err")
           \/ /\ ~Blocks(f, ret[g])
              /\ SetTop(g, IF f.dep \in f.hard
                             THEN [f EXCEPT !.hard = @ \ {f.dep}, !.dep = 0]
                             ELSE [f EXCEPT !.soft = @ \ {f.dep}, !.dep = 0])
              /\ ret' = [ret EXCEPT ![g] = "none"]
              /\ UNCHANGED starting
    /\ UNCHANGED <<scene, cur, sm, children, hooked, armed, halting,
                   runVars, histVars>>

AtSpawn(g) == /\ Inside(g) /\ ret[g] = "none" /\ Top(g).pc = "deps"
              /\ Top(g).hard = {} /\ Top(g).soft = {} /\ Top(g).dep = 0

\* runner.Start keeps a process it already has; that one announced itself
\* under an earlier run identity and cannot complete this start.
Spawn(g) ==
    LET o == Top(g).obj
    IN  /\ AtSpawn(g)
        /\ children' = children \cup {o}
        /\ armed' = armed \ {o}
        /\ TransitionTo(o, "starting")
        /\ IF Allowed(sm[o], "starting")
             THEN /\ SetTop(g, [Top(g) EXCEPT !.pc = IF o \in children
                                                 THEN "stale" ELSE "await"])
                  /\ UNCHANGED <<starting, ret>>
             ELSE LeaveStart(g, "err")
        /\ UNCHANGED <<scene, cur, hooked, halting, runVars, histVars>>

SpawnFailed(g) ==
    LET o == Top(g).obj
    IN  /\ AtSpawn(g) /\ o \notin children
        /\ armed' = armed \ {o}
        /\ TransitionTo(o, "error")
        /\ LeaveStart(g, "err")
        /\ failed' = TRUE
        /\ UNCHANGED <<scene, cur, children, hooked, halting, runVars, overlap>>

BecameRunning(g) ==
    LET o == Top(g).obj
    IN  /\ Inside(g) /\ Top(g).pc = "await" /\ o \in children
        /\ TransitionTo(o, "running")
        /\ LeaveStart(g, IF Allowed(sm[o], "running") THEN "ok" ELSE "err")
        /\ UNCHANGED <<scene, cur, children, hooked, armed, halting,
                       runVars, histVars>>

\* Mutant of StartTimedOut: no readiness deadline.
AwaitForever(g) == FALSE /\ UNCHANGED vars

StartTimedOut(g) ==
    /\ Inside(g) /\ Top(g).pc \in {"await", "stale"}
    /\ TransitionTo(Top(g).obj, "error")
    /\ LeaveStart(g, "err")
    /\ failed' = TRUE
    /\ UNCHANGED <<scene, cur, children, hooked, armed, halting, runVars, overlap>>

\* A process ends by itself; the controller is not told.
Crash(o) ==
    /\ scene.crashes > 0 /\ scene' = [scene EXCEPT !.crashes = @ - 1]
    /\ o \in children
    /\ children' = children \ {o}
    /\ UNCHANGED <<cur, sm, starting, hooked, armed, callVars,
                   runVars, histVars>>

-----------------------------------------------------------------------------
(* A stop.                                                                 *)

\* Mutant of NothingToStop: a failed start is taken to have left no process.
NotRunning(o) == sm[o] \in {"stopped", "error"}

NothingToStop(o) == sm[o] = "stopped"

CanStop(o) == sm[o] = "stopping" \/ Allowed(sm[o], "stopping")

EnterStop(g, o) ==
    \/ /\ ~NothingToStop(o) /\ CanStop(o)
       /\ sm' = [sm EXCEPT ![o] = "stopping"]
       /\ halting' = [halting EXCEPT ![g] = o]
       /\ UNCHANGED ret
    \/ /\ NothingToStop(o) \/ ~CanStop(o)
       /\ ret' = [ret EXCEPT ![g] = IF NothingToStop(o) THEN "ok" ELSE "err"]
       /\ UNCHANGED <<sm, halting>>

\* Signal, grace, kill and Reset; a socket agent's listener is armed again.
FinishStop(g) ==
    LET o == halting[g]
    IN  /\ o # NoObject
        /\ children' = children \ {o}
        /\ armed' = IF o \in children \cap hooked THEN armed \cup {o} ELSE armed
        /\ TransitionTo(o, "stopped")
        /\ halting' = [halting EXCEPT ![g] = NoObject]
        /\ ret' = [ret EXCEPT ![g] = "ok"]
        /\ UNCHANGED <<scene, cur, starting, hooked, stack, runVars, histVars>>

Idle(g) == ~Inside(g) /\ ret[g] = "none" /\ halting[g] = NoObject
Returned(g) == ~Inside(g) /\ ret[g] # "none"

\* A goroutine is at work, and work begins.
Busy(g) ==
    \/ ~Idle(g)
    \/ g = Main /\ phase \in {"setup", "stopping"}
    \/ g = Reloader /\ setup.pc # "idle" /\ phase # "setup"

Began == overlap' = (overlap \/ \E g \in Goroutines : Busy(g))

-----------------------------------------------------------------------------
(* setupAgents, on Run's goroutine at boot and on the reload topic's after. *)

SetupBy == IF phase = "setup" THEN Main ELSE Reloader
AtAgent(pc) == setup.pc = pc /\ setup.todo # <<>>
SetupNext(started) ==
    setup' = [setup EXCEPT !.pc = "loop", !.todo = Tail(@), !.started = started]

\* A file on the search path describes itself as a valid agent.
Found(a) == scene.kind[a] # "broken"

\* One agent found: a new object takes its place in the manager's map.
Discover ==
    /\ AtAgent("discover")
    /\ LET a == Head(setup.todo)
       IN  cur' = [cur EXCEPT ![a] = IF Found(a) THEN @ + 1 ELSE @]
    /\ setup' = [setup EXCEPT !.todo = Tail(@)]
    /\ UNCHANGED <<scene, sm, starting, children, hooked, armed, callVars,
                   down, phase, histVars>>

\* A hard cycle leaves the order of the ids.
SortAgents ==
    /\ setup.pc = "discover" /\ setup.todo = <<>>
    /\ setup' = [pc |-> "loop", started |-> {},
                 todo |-> IF TopologicalSort.err THEN Sorted(Known)
                                                 ELSE TopologicalSort.order]
    /\ UNCHANGED <<scene, objVars, callVars, down, phase, histVars>>

\* Mutant of MissingReq: Wants gate the start as well.
MissingReqOrWant(a) == ~(Requires(a) \cup Wants(a) \subseteq setup.started)

MissingReq(a) == ~(Requires(a) \subseteq setup.started)

\* The registry verified the agent's signature and has its record.
Recorded(a) == scene.kind[a] # "unsigned"

Enabled(a) == scene.kind[a] # "disabled"

Startable(a) == Recorded(a) /\ a \in Known /\ ~MissingReq(a) /\ Enabled(a)

SkipAgent ==
    /\ AtAgent("loop") /\ ~Startable(Head(setup.todo))
    /\ SetupNext(setup.started)
    /\ UNCHANGED <<scene, objVars, callVars, down, phase, histVars>>

\* EnsureListener and Arm; arming an armed object changes nothing.
Arm(o) == armed' = armed \cup {o}

\* A socket agent is not started but watched for traffic.
ArmAgent ==
    /\ AtAgent("loop")
    /\ LET a == Head(setup.todo)
           o == Latest(a)
       IN  /\ scene.kind[a] = "lazy" /\ Startable(a)
           /\ hooked' = hooked \cup {o}
           /\ \/ /\ Arm(o)
                 /\ SetupNext(setup.started \cup {a})
                 /\ UNCHANGED failed
              \/ /\ o \notin armed
                 /\ SetupNext(setup.started)
                 /\ failed' = TRUE
                 /\ UNCHANGED armed
    /\ UNCHANGED <<scene, cur, sm, starting, children, callVars, down, phase, overlap>>

StartAgent ==
    /\ AtAgent("loop")
    /\ LET a == Head(setup.todo)
       IN  scene.kind[a] = "service" /\ Startable(a)
             /\ EnterStart(SetupBy, <<>>, Latest(a))
    /\ setup' = [setup EXCEPT !.pc = "called"]
    /\ UNCHANGED <<scene, cur, sm, children, hooked, armed, halting, down,
                   phase, histVars>>

AgentStarted ==
    /\ setup.pc = "called" /\ Returned(SetupBy)
    /\ SetupNext(IF ret[SetupBy] = "ok"
                   THEN setup.started \cup {Head(setup.todo)} ELSE setup.started)
    /\ ret' = [ret EXCEPT ![SetupBy] = "none"]
    /\ UNCHANGED <<scene, objVars, stack, halting, down, phase,
                   histVars>>

\* At boot the handlers are registered now.
SetupDone ==
    /\ setup.pc = "loop" /\ setup.todo = <<>>
    /\ setup' = [setup EXCEPT !.pc = "idle"]
    /\ phase' = IF phase = "setup" THEN "serving" ELSE phase
    /\ UNCHANGED <<scene, objVars, callVars, down, histVars>>

Reload ==
    /\ phase \in {"serving", "stopping"} /\ setup.pc = "idle"
    /\ scene.reloads > 0 /\ scene' = [scene EXCEPT !.reloads = @ - 1]
    /\ setup' = [setup EXCEPT !.pc = "discover", !.todo = Sorted(Agents)]
    /\ Began
    /\ UNCHANGED <<objVars, callVars, down, phase, failed>>

-----------------------------------------------------------------------------
(* Verbs, traffic and shutdown.                                            *)

\* The next verb of the topic's queue is for a registered agent.
Handle(a) == /\ phase \in {"serving", "stopping"} /\ Idle(Handler)
             /\ a \in Known
             /\ scene.verbs > 0 /\ scene' = [scene EXCEPT !.verbs = @ - 1]

VerbStart(a) ==
    /\ Handle(a)
    /\ EnterStart(Handler, <<>>, Latest(a))
    /\ Began
    /\ UNCHANGED <<cur, sm, children, hooked, armed, halting, setup,
                   down, phase, failed>>

VerbStop(a) ==
    /\ Handle(a)
    /\ EnterStop(Handler, Latest(a))
    /\ Began
    /\ UNCHANGED <<cur, starting, children, hooked, armed, stack,
                   setup, down, phase, failed>>

\* The watch loop disarms itself and calls the traffic handler.
Traffic(o) ==
    /\ o \in armed /\ Idle(o)
    /\ armed' = armed \ {o}
    /\ EnterStart(o, <<>>, o)
    /\ Began
    /\ UNCHANGED <<scene, cur, sm, children, hooked, halting, runVars,
                   failed>>

\* The reply to a verb, the end of a traffic handler.
CallDone(g) ==
    /\ g \notin {Main, Reloader} /\ Returned(g)
    /\ ret' = [ret EXCEPT ![g] = "none"]
    /\ UNCHANGED <<scene, objVars, stack, halting, runVars, histVars>>

\* Mutant of StopOrder: the order of the starts.
StopInStartOrder(order) == order

\* StopAll walks the order of the starts from its end.
StopOrder(order) == Reverse(order)

\* Run's context is cancelled; StopAll sorts, or returns the sort's error.
Shutdown ==
    /\ phase = "serving"
    /\ down' = [todo |-> StopOrder(TopologicalSort.order), err |-> TopologicalSort.err]
    /\ phase' = "stopping"
    /\ Began
    /\ UNCHANGED <<scene, objVars, callVars, setup, failed>>

StopAgent ==
    /\ phase = "stopping" /\ down.todo # <<>> /\ Idle(Main)
    /\ EnterStop(Main, Latest(Head(down.todo)))
    /\ UNCHANGED <<scene, cur, starting, children, hooked, armed, stack,
                   runVars, histVars>>

\* The first error ends StopAll.
AgentStopped ==
    /\ phase = "stopping" /\ Returned(Main)
    /\ down' = IF ret[Main] = "ok"
                 THEN [down EXCEPT !.todo = Tail(@)]
                 ELSE [todo |-> <<>>, err |-> TRUE]
    /\ ret' = [ret EXCEPT ![Main] = "none"]
    /\ UNCHANGED <<scene, objVars, stack, halting, setup, phase,
                   histVars>>

Exit ==
    /\ phase = "stopping" /\ down.todo = <<>> /\ Idle(Main)
    /\ phase' = "exited"
    /\ UNCHANGED <<scene, objVars, callVars, setup, down, histVars>>

-----------------------------------------------------------------------------

BootAt(p) ==
    /\ scene \in Scenes
    /\ cur = [a \in Agents |-> 0]
    /\ sm = [o \in Objects |-> "stopped"]
    /\ starting = {} /\ children = {} /\ hooked = {} /\ armed = {}
    /\ stack = [g \in Goroutines |-> <<>>]
    /\ ret = [g \in Goroutines |-> "none"]
    /\ halting = [g \in Goroutines |-> NoObject]
    /\ setup = [pc |-> "discover", started |-> {}, todo |-> Sorted(Agents)]
    /\ down = [todo |-> <<>>, err |-> FALSE]
    /\ phase = p
    /\ overlap = FALSE /\ failed = FALSE

Init == BootAt("setup")

SetupStep == Discover \/ SortAgents \/ SkipAgent \/ ArmAgent \/ StartAgent
               \/ AgentStarted \/ SetupDone
StopAllStep == StopAgent \/ AgentStopped \/ Exit
StartStep(g) == \/ EnsureStarted(g) \/ DependencyReturned(g) \/ Spawn(g)
                \/ SpawnFailed(g) \/ BecameRunning(g) \/ StartTimedOut(g)
CallStep(g) == StartStep(g) \/ FinishStop(g) \/ CallDone(g)

Step == \/ SetupStep \/ StopAllStep \/ Reload \/ Shutdown
        \/ \E g \in Goroutines : CallStep(g)
        \/ \E a \in Agents : VerbStart(a) \/ VerbStop(a)
        \/ \E o \in Objects : Traffic(o) \/ Crash(o)

Next == phase # "exited" /\ Step

Spec == Init /\ [][Next]_vars

\* A goroutine with something to do gets to run and every wait inside a start
\* or a stop has a deadline: of the work under way some is always taken on.
\* Verbs, traffic, reloads, crashes and shutdown need not happen.
Work == /\ phase # "exited"
        /\ SetupStep \/ StopAllStep \/ \E g \in Goroutines : CallStep(g)

Fairness == WF_vars(Work)

FairSpec == Spec /\ Fairness

-----------------------------------------------------------------------------
(* Properties.                                                             *)

TypeFrame(f) ==
    /\ f.obj \in Objects /\ f.hard \subseteq Agents /\ f.soft \subseteq Agents
    /\ f.dep \in Agents \cup {0} /\ f.pc \in {"deps", "await", "stale"}

\* The types of the variables; each nested start is of another agent, so a
\* goroutine's stack is no deeper than there are agents, and what it is inside
\* of is marked in flight.
TypeOK ==
    /\ scene \in Scene
    /\ cur \in [Agents -> 0..MaxGen] /\ sm \in [Objects -> States]
    /\ starting \subseteq Objects /\ children \subseteq Objects
    /\ armed \subseteq hooked /\ hooked \subseteq Objects
    /\ \A g \in Goroutines :
         /\ \A i \in DOMAIN stack[g] : TypeFrame(stack[g][i])
         /\ Len(stack[g]) <= Cardinality(Agents)
         /\ ret[g] \in {"none", "ok", "err"}
         /\ halting[g] \in Objects \cup {NoObject}
         /\ \A i \in DOMAIN stack[g] : stack[g][i].obj \in starting
    /\ phase \in {"setup", "serving", "stopping", "exited"}
    /\ overlap \in BOOLEAN /\ failed \in BOOLEAN

\* The order both setupAgents and StopAll use is a start order for whatever is
\* registered (toposort.Sort against its reference definition).
OrderSound == IsStartOrder(TopologicalSort, Known, Hard(scene.graph, Known),
                           Soft(scene.graph, Known))

\* While one goroutine works at a time, no process is spawned before every
\* agent its own agent requires is registered and running, whoever asked for
\* the start and however the dependencies refer to each other.
HardDepsRun ==
    [][\A o \in children' \ children : ~overlap' =>
         \A d \in Requires(o[1]) : d \in Known /\ sm[Latest(d)] = "running"]_vars

\* An agent that boot can start: it is enabled, known and recorded, and so is
\* everything it requires, directly or not; nothing waits for itself.
CanStart(a) ==
    \E S \in SUBSET Agents :
        a \in S /\ \A x \in S : /\ scene.kind[x] \in {"service", "lazy"}
                                /\ Requires(x) \subseteq S \ {x}

\* Boot, and a reload, starts (or arms) exactly the agents that can start, when nothing fails
\* and no hard cycle was declared: the order never makes the gate skip one.
BootStartsAll ==
    phase = "serving" /\ setup.pc = "idle" /\ ~overlap /\ ~failed
      /\ ~TopologicalSort.err
        => setup.started = {a \in Agents : CanStart(a)}

\* StopAll takes no process away while an agent that depends hard on it still
\* has one, when nothing else is at work and no reload replaced the objects; and
\* if it then reports success, no process is left.
DependentsStopFirst ==
    /\ [][\A o \in children \ children' :
            phase = "stopping" /\ halting[Main] = o /\ ~overlap /\ cur[o[1]] = 1
              => \A e \in Hard(scene.graph, Known) :
                   e[2] = o[1] /\ e[1] # o[1] => Latest(e[1]) \notin children]_vars
    /\ [](phase = "exited" /\ ~down.err /\ ~overlap /\ (\A a \in Agents : cur[a] <= 1)
            => children = {})

\* No goroutine waits for another for ever: boot completes, and every start,
\* verb, traffic handler and reload returns, whatever starts cross; a shutdown
\* runs to its end.
CallsReturn ==
    (\E g \in Goroutines : Busy(g))
        ~> (phase = "exited" \/ \A g \in Goroutines : ~Busy(g))

-----------------------------------------------------------------------------
(* What the code does not keep (README).                                   *)

\* An agent has at most one process: a reload builds a new object over a live
\* one and starts it.
OneProcess == \A o, p \in children : o[1] = p[1] => o = p

\* No process outlives the supervisor: a hard cycle among any of the agents
\* makes StopAll return before it stops the first one, an agent that is
\* starting makes it return there, and traffic restarts what it stopped.
NothingLeft == phase = "exited" => children = {}

\* A soft edge on no cycle is kept: Sort drops every soft edge between nodes
\* that wait for a cycle.
SoftOrderKept ==
    LET hard == EdgeSet(Known, Hard(scene.graph, Known))
        soft == EdgeSet(Known, Soft(scene.graph, Known))
        Reaches(S) == \A e \in hard \cup soft : e[1] \in S => e[2] \in S
    IN  ~TopologicalSort.err =>
          \A e \in soft :
            \/ Before(TopologicalSort.order, e[2], e[1])
            \/ \A S \in SUBSET Known : e[2] \in S /\ Reaches(S) => e[1] \in S
=============================================================================
