--------------------------- MODULE ControlClient ----------------------------
(***************************************************************************)
(* gapictl against the daemon: core/client's idempotent reads, which       *)
(* republish until their correlated reply arrives, and its lifecycle       *)
(* verbs, which publish once and then watch the status topic               *)
(* (internal/statewatch); the daemon's handlers for both                   *)
(* (core/supervisor); and the verdict gapictl prints (pkg/cli).            *)
(*                                                                         *)
(* Each event is a stream of its own (see Transport), so what is under way *)
(* is a set.  An agent's Controller is reduced to the outcomes of Apply    *)
(* that AgentLifecycle describes step by step.                             *)
(***************************************************************************)
EXTENDS Naturals, Sequences, FiniteSets

CONSTANTS
    Requests,       \* calls, each by a client process of its own
    Verb,           \* what each asks for
    Target,         \* the agent a verb names
    Agents,         \* the agents there may be on the search paths
    MaxAttempts     \* requestRetryAttempts (8 in the code)

Verbs == {"start", "stop", "reload", "restart", "query"}

NoRequest == "none"

ASSUME ClientAssumption ==
    /\ Verb \in [Requests -> Verbs \cup {"read"}] /\ MaxAttempts \in Nat
    /\ NoRequest \notin Requests

Reads == {r \in Requests : Verb[r] = "read"}

VARIABLES
    setup,        \* where setupAgents is; "idle" between two runs of it
    reloading,    \* that run is an agent.reload's, not the boot's
    batch,        \* the agents its current loop is about
    managed,      \* the agents the manager has an object for
    listed,       \* the agents in the registry
    registered,   \* registerHandlers has run
    agent,        \* Controller.State() of each agent's object
    old,          \* the state of the object the verb's handler holds, once a
                  \* reload has put another in its place
    verbQ, readQ, \* the queues of the two subscriptions
    serving,      \* the verb its handler is applying
    replying,     \* the state it is about to reply
    toDaemon,     \* requests under way: caller and identity
    toClient,     \* events under way to each client that are about its call
    cpc,          \* a client's program counter
    attempts,     \* republications of a read
    answer,       \* the state a verb's caller took for its result
    verdict,      \* what the client reports
    \* history
    served,       \* how often each request reached its handler
    replied,      \* verbs whose handler has replied
    owed,         \* the agents each read must show
    shown         \* the agents each read has shown

setupVars  == <<setup, reloading, batch, managed, listed>>
serveVars  == <<verbQ, readQ, serving, replying, old>>
daemonVars == <<setupVars, serveVars, registered, agent>>
clientVars == <<cpc, attempts, answer, verdict>>
histVars   == <<served, replied, owed, shown>>
vars       == <<daemonVars, clientVars, histVars, toDaemon, toClient>>

-----------------------------------------------------------------------------
(* Status strings.                                                         *)

\* The states a status can carry; the wire has several spellings.
InFlight == {"PENDING", "starting", "STARTING", "stopping", "reloading"}

\* Mutant of FailedStates: only the enum's spelling.
FailedStatesEnum == {"AGENT_STATE_FAILED"}

\* isFailedState.
FailedStates == {"FAILED", "AGENT_STATE_FAILED"}

\* What a waiting client looks at: the statuses of its agent, the reply to its
\* own read.  Its handlers drop everything else.
Concerns(m, r) ==
    IF r \in Reads THEN m.re = r ELSE m.re = NoRequest /\ m.agent = Target[r]

\* The daemon sends an event to every client that is still there.
Events(msgs) ==
    toClient' = [r \in Requests |->
                   IF cpc[r] = "done" THEN {}
                   ELSE toClient[r] \cup {m \in msgs : Concerns(m, r)}]

\* The statuses of agent a that are published while verb r is served, or by
\* setupAgents (r is NoRequest); r only tells two events with the same content
\* apart, no status carries it.
Publishes(a, r, states) ==
    Events({[agent |-> a, state |-> s, re |-> NoRequest, by |-> r, lists |-> {}] :
            s \in states})

\* What Apply may do: the state it leaves, whether it returns an error, and
\* the final statuses that runner and controller publish on the way.
Outcomes(verb, s) ==
    CASE verb = "start" /\ s = "running" -> {<<s, FALSE, {}>>}
      [] verb = "start" -> {<<"running", FALSE, {"RUNNING"}>>,
                            <<"error", TRUE, {"FAILED"}>>,
                            <<"error", TRUE, {}>>, <<s, TRUE, {}>>}
      [] verb = "stop" /\ s = "stopped" -> {<<s, FALSE, {}>>}
      [] verb = "stop" -> {<<"stopped", FALSE, {"STOPPED", "AGENT_STATE_STOPPED"}>>,
                           <<"stopped", FALSE, {"AGENT_STATE_STOPPED"}>>}
      [] verb = "reload" /\ s = "running" -> {<<"running", FALSE, {"RUNNING"}>>,
                                              <<"error", TRUE, {}>>}
      [] OTHER -> {<<s, TRUE, {}>>}   \* refused: the nested Apply, and the
                                      \* transition to initializing

-----------------------------------------------------------------------------
(* setupAgents: Run calls it once before the handlers, and every           *)
(* agent.reload calls it again, in the goroutine of that subscription.     *)

\* Discovery finds a on a search path: the manager gets a new object for it,
\* and a handler that is at work keeps the one it has.
Discover(a) ==
    /\ setup = "discovering" /\ a \notin batch
    /\ batch' = batch \cup {a} /\ managed' = managed \cup {a}
    /\ agent' = [agent EXCEPT ![a] = "stopped"]
    /\ old' = IF serving # NoRequest /\ Target[serving] = a /\ old = ""
                THEN agent[a] ELSE old
    /\ UNCHANGED <<setup, reloading, listed, registered, verbQ, readQ, serving, replying,
                   clientVars, histVars, toDaemon, toClient>>

\* Discovery leaves the registry as it is.
Discovered ==
    /\ setup = "discovering"
    /\ setup' = "registering"
    /\ UNCHANGED <<reloading, batch, managed, listed, serveVars, registered, agent,
                   clientVars, histVars, toDaemon, toClient>>

\* Mutant of AfterRegister: the record of an agent that is refused is dropped.
AfterRegisterDropped(a) == {listed \ {a}, listed \cup {a}}

\* agentreg.Register may refuse an agent, by its signature, before it writes.
AfterRegister(a) == {listed, listed \cup {a}}

RegisterAgent(a) ==
    /\ setup = "registering" /\ a \in batch
    /\ batch' = batch \ {a} /\ listed' \in AfterRegister(a)
    /\ UNCHANGED <<setup, reloading, managed, serveVars, registered, agent, clientVars,
                   histVars, toDaemon, toClient>>

\* The start loop skips what is not in the registry.
Sorted ==
    /\ setup = "registering" /\ batch = {}
    /\ setup' = "starting" /\ batch' = managed \cap listed
    /\ UNCHANGED <<reloading, managed, listed, serveVars, registered, agent, clientVars,
                   histVars, toDaemon, toClient>>

\* An agent is started, or passed over: disabled, waiting for traffic, or
\* without what it requires (Boot has the rule).
StartAgent(a) ==
    /\ setup = "starting" /\ a \in batch
    /\ batch' = batch \ {a}
    /\ \/ UNCHANGED <<agent, toClient>>
       \/ \E o \in Outcomes("start", agent[a]) :
             agent' = [agent EXCEPT ![a] = o[1]] /\ Publishes(a, NoRequest, o[3])
    /\ UNCHANGED <<setup, reloading, managed, listed, serveVars, registered, clientVars,
                   histVars, toDaemon>>

\* setupAgents returns.  From here on every read that has yet to be sent must
\* show what the registry has; after the boot, also those that were sent early.
SetupDone ==
    /\ setup = "starting" /\ batch = {}
    /\ setup' = "idle"
    /\ owed' = [r \in Reads |-> IF ~reloading \/ cpc[r] = "idle" THEN listed ELSE owed[r]]
    /\ UNCHANGED <<reloading, batch, managed, listed, serveVars, registered, agent, clientVars,
                   served, replied, shown, toDaemon, toClient>>

\* The handler of agent.reload; the request is some other client's.
Reload ==
    /\ registered /\ setup = "idle"
    /\ setup' = "discovering" /\ reloading' = TRUE
    /\ UNCHANGED <<batch, managed, listed, serveVars, registered, agent, clientVars,
                   histVars, toDaemon, toClient>>

-----------------------------------------------------------------------------
(* The other handlers.                                                     *)

\* Mutant of MayRegister: every handler is subscribed with the ping.
MayRegisterEarly == TRUE

\* Run registers what depends on the agents after setupAgents.
MayRegister == setup = "idle"

Register ==
    /\ ~registered /\ MayRegister
    /\ registered' = TRUE
    /\ UNCHANGED <<setupVars, serveVars, agent, clientVars, histVars, toDaemon, toClient>>

\* A request's stream is handled; without a subscriber it is dropped.
Arrive(f) ==
    /\ f \in toDaemon
    /\ toDaemon' = toDaemon \ {f}
    /\ verbQ' = IF registered /\ f.from \notin Reads THEN Append(verbQ, f.from)
                                                     ELSE verbQ
    /\ readQ' = IF registered /\ f.from \in Reads THEN Append(readQ, f.id)
                                                  ELSE readQ
    /\ UNCHANGED <<setupVars, registered, agent, serving, replying, old, clientVars,
                   histVars, toClient>>

\* The status request: the reply carries the request's identity and lists the
\* registry.  That the database itself fails to list is left out.
HandleRead ==
    /\ readQ # <<>>
    /\ readQ' = Tail(readQ)
    /\ Events({[agent |-> "", state |-> "list", re |-> Head(readQ), by |-> NoRequest,
                lists |-> listed]})
    /\ UNCHANGED <<setupVars, registered, agent, verbQ, serving, replying, old,
                   clientVars, histVars, toDaemon>>

\* getAgentCI finds the agent.
Known(r) == Target[r] \in managed

\* handleLifecycleAction: an unknown agent is refused at once, another is
\* acknowledged with PENDING.
HandleVerb ==
    /\ verbQ # <<>> /\ serving = NoRequest
    /\ verbQ' = Tail(verbQ)
    /\ LET r == Head(verbQ) IN
       /\ served' = [served EXCEPT ![r] = @ + 1]
       /\ IF Known(r)
            THEN /\ Publishes(Target[r], r, {"PENDING"})
                 /\ serving' = r /\ UNCHANGED replied
            ELSE /\ Publishes(Target[r], r, {"FAILED"})
                 /\ replied' = replied \cup {r} /\ UNCHANGED serving
    /\ UNCHANGED <<setupVars, registered, agent, readQ, replying, old, owed, shown,
                   clientVars, toDaemon>>

\* The state the handler replies: an error becomes the state "error" unless
\* the agent is where the verb wanted it.
ReplyState(verb, s, err) ==
    IF err /\ ~(verb = "start" /\ s = "running") /\ ~(verb = "stop" /\ s = "stopped")
      THEN "error" ELSE s

\* Apply runs on the object the handler took, in the manager or no longer.
Apply ==
    /\ serving # NoRequest /\ replying = ""
    /\ LET a == Target[serving]
           s == IF old = "" THEN agent[a] ELSE old
       IN \E o \in Outcomes(Verb[serving], s) :
             /\ IF old = "" THEN agent' = [agent EXCEPT ![a] = o[1]] /\ UNCHANGED old
                            ELSE old' = o[1] /\ UNCHANGED agent
             /\ replying' = ReplyState(Verb[serving], o[1], o[2])
             /\ Publishes(a, serving, o[3])
    /\ UNCHANGED <<setupVars, registered, verbQ, readQ, serving, clientVars,
                   histVars, toDaemon>>

Reply ==
    /\ replying # ""
    /\ Publishes(Target[serving], serving, {replying})
    /\ replied' = replied \cup {serving}
    /\ serving' = NoRequest /\ replying' = "" /\ old' = ""
    /\ UNCHANGED <<setupVars, registered, agent, verbQ, readQ, served, owed, shown,
                   clientVars, toDaemon>>

-----------------------------------------------------------------------------
(* A lifecycle verb: PublishRequest, then WaitForPendingThenTerminal.      *)

\* Copies of one request under way are one member: they are alike.
Request(r, id) == [from |-> r, id |-> id]

\* The call returns and its process ends.
Finish(r, v) ==
    /\ toClient' = [toClient EXCEPT ![r] = {}]
    /\ cpc' = [cpc EXCEPT ![r] = "done"]
    /\ verdict' = [verdict EXCEPT ![r] = v]

\* The send is confirmed.
PublishVerb(r) ==
    /\ cpc[r] = "idle" /\ r \notin Reads
    /\ toDaemon' = toDaemon \cup {Request(r, r)}
    /\ cpc' = [cpc EXCEPT ![r] = "published"]
    /\ UNCHANGED <<attempts, answer, verdict, daemonVars, histVars, toClient>>

\* It is not confirmed in time: the call fails, the frame may yet arrive.
PublishVerbFails(r) ==
    /\ cpc[r] = "idle" /\ r \notin Reads
    /\ toDaemon' \in {toDaemon, toDaemon \cup {Request(r, r)}}
    /\ Finish(r, "fail")
    /\ UNCHANGED <<attempts, answer, daemonVars, histVars>>

\* Only now does the caller subscribe to the status topic.
WatchStatus(r) ==
    /\ cpc[r] = "published"
    /\ cpc' = [cpc EXCEPT ![r] = "pending"]
    /\ UNCHANGED <<attempts, answer, verdict, daemonVars, histVars, toDaemon, toClient>>

Watching(r) == cpc[r] \in {"pending", "settling"}

\* An event reaches a client that has no use for it: nothing is subscribed
\* yet, or the acknowledgement is the second one.
Ignored(r, m) ==
    \/ cpc[r] \in {"idle", "published"}
    \/ cpc[r] = "settling" /\ m.state \in InFlight

Ignore(r) ==
    /\ \E m \in toClient[r] :
          Ignored(r, m) /\ toClient' = [toClient EXCEPT ![r] = @ \ {m}]
    /\ UNCHANGED <<clientVars, daemonVars, histVars, toDaemon>>

\* PENDING: the second timer replaces the first.
SeePending(r) ==
    /\ cpc[r] = "pending"
    /\ \E m \in toClient[r] :
          /\ m.state = "PENDING"
          /\ toClient' = [toClient EXCEPT ![r] = @ \ {m}]
    /\ cpc' = [cpc EXCEPT ![r] = "settling"]
    /\ UNCHANGED <<attempts, answer, verdict, daemonVars, histVars, toDaemon>>

\* The first final state of the agent is the result, PENDING seen or not.
SeeTerminal(r) ==
    /\ Watching(r)
    /\ \E m \in toClient[r] :
          /\ m.state \notin InFlight
          /\ answer' = [answer EXCEPT ![r] = m.state]
          /\ Finish(r, IF Verb[r] # "query" /\ m.state \in FailedStates
                         THEN "fail" ELSE "ok")
    /\ UNCHANGED <<attempts, daemonVars, histVars, toDaemon>>

\* Mutant of WatchTimesOut: the timer is stopped when PENDING is seen.
WatchTimesOutOnce(r) ==
    /\ cpc[r] = "pending"
    /\ Finish(r, "fail")
    /\ UNCHANGED <<attempts, answer, daemonVars, histVars, toDaemon>>

\* The active timer fires.
WatchTimesOut(r) ==
    /\ Watching(r)
    /\ Finish(r, "fail")
    /\ UNCHANGED <<attempts, answer, daemonVars, histVars, toDaemon>>

-----------------------------------------------------------------------------
(* A read: SubscribeCorrelated, publish, republish every 250 ms.           *)

PublishRead(r) ==
    /\ cpc[r] = "idle" /\ r \in Reads
    /\ toDaemon' = toDaemon \cup {Request(r, r)}
    /\ cpc' = [cpc EXCEPT ![r] = "awaiting"]
    /\ UNCHANGED <<attempts, answer, verdict, daemonVars, histVars, toClient>>

\* Mutant of RetryID: a fresh event per attempt.
RetryIDFresh(r) == NoRequest

RetryID(r) == r

\* Mutant of Republishes: a verb that sees no PENDING is sent again.
RepublishesAny(r) == cpc[r] \in {"awaiting", "pending"}

Republishes(r) == cpc[r] = "awaiting"

Retry(r) ==
    /\ Republishes(r) /\ attempts[r] < MaxAttempts
    /\ attempts' = [attempts EXCEPT ![r] = @ + 1]
    /\ toDaemon' = toDaemon \cup {Request(r, RetryID(r))}
    /\ UNCHANGED <<cpc, answer, verdict, daemonVars, histVars, toClient>>

SeeReply(r) ==
    /\ cpc[r] = "awaiting"
    /\ \E m \in toClient[r] : shown' = [shown EXCEPT ![r] = m.lists]
    /\ Finish(r, "ok")
    /\ UNCHANGED <<attempts, answer, daemonVars, served, replied, owed, toDaemon>>

\* The 30 s context outlasts the retries and whatever they set off.
ReadTimesOut(r) ==
    /\ cpc[r] = "awaiting" /\ attempts[r] = MaxAttempts
    /\ \A f \in toDaemon : f.from # r
    /\ \A i \in DOMAIN readQ : readQ[i] # r
    /\ toClient[r] = {}
    /\ Finish(r, "fail")
    /\ UNCHANGED <<attempts, answer, daemonVars, histVars, toDaemon>>

-----------------------------------------------------------------------------
Init ==
    /\ setup = "discovering" /\ reloading = FALSE /\ batch = {} /\ managed = {}
    /\ listed \in SUBSET Agents   \* what the store has from earlier runs
    /\ registered = FALSE /\ agent = [a \in Agents |-> "stopped"]
    /\ verbQ = <<>> /\ readQ = <<>> /\ serving = NoRequest /\ replying = ""
    /\ old = ""
    /\ toDaemon = {} /\ toClient = [r \in Requests |-> {}]
    /\ cpc = [r \in Requests |-> "idle"] /\ attempts = [r \in Requests |-> 0]
    /\ answer = [r \in Requests |-> ""] /\ verdict = [r \in Requests |-> ""]
    /\ served = [r \in Requests |-> 0] /\ replied = {}
    /\ owed = [r \in Reads |-> {}] /\ shown = [r \in Reads |-> {}]

SetupAgents ==
    \/ Discovered \/ Sorted \/ SetupDone
    \/ \E a \in Agents : Discover(a) \/ RegisterAgent(a) \/ StartAgent(a)
Daemon ==
    \/ SetupAgents \/ Reload \/ Register \/ HandleRead \/ HandleVerb \/ Apply \/ Reply
    \/ \E f \in toDaemon : Arrive(f)
Watch(r) ==
    WatchStatus(r) \/ Ignore(r) \/ SeePending(r) \/ SeeTerminal(r) \/ WatchTimesOut(r)
Await(r) == Retry(r) \/ SeeReply(r) \/ ReadTimesOut(r)

Next ==
    \/ Daemon
    \/ \E r \in Requests : \/ PublishVerb(r) \/ PublishVerbFails(r) \/ Watch(r)
                           \/ PublishRead(r) \/ Await(r)

Spec == Init /\ [][Next]_vars

\* Goroutines run, timers fire, and a stream on a live connection is handled.
\* That setupAgents returns is not assumed.
Fairness ==
    /\ WF_vars(HandleRead) /\ WF_vars(\E f \in toDaemon : Arrive(f))
    /\ \A r \in Requests : /\ WF_vars(WatchStatus(r)) /\ WF_vars(WatchTimesOut(r))
                           /\ WF_vars(SeeReply(r)) /\ WF_vars(Retry(r))
                           /\ WF_vars(ReadTimesOut(r))

FairSpec == Spec /\ Fairness

-----------------------------------------------------------------------------
(* Properties.                                                             *)

\* The types; a verb that is being served is one the daemon knows the agent
\* of, and its handler serves one at a time.
TypeOK ==
    /\ setup \in {"discovering", "registering", "starting", "idle"}
    /\ batch \subseteq managed /\ managed \subseteq Agents /\ listed \subseteq Agents
    /\ registered \in BOOLEAN /\ reloading \in BOOLEAN /\ old \in {"", "stopped", "running", "error"}
    /\ agent \in [Agents -> {"stopped", "running", "error"}]
    /\ verbQ \in Seq(Requests \ Reads) /\ readQ \in Seq(Reads \cup {NoRequest})
    /\ serving \in {r \in Requests \ Reads : Target[r] \in managed} \cup {NoRequest}
    /\ replying \in {"", "stopped", "running", "error"}
    /\ cpc \in [Requests -> {"idle", "published", "pending", "settling",
                             "awaiting", "done"}]
    /\ attempts \in [Requests -> 0..MaxAttempts]
    /\ verdict \in [Requests -> {"", "ok", "fail"}]
    /\ \A r \in Requests : verdict[r] # "" <=> cpc[r] = "done"

\* A mutating verb reaches its handler at most once, also when its caller
\* gives up or is told that the send failed; and a verb for an agent nobody
\* knows never yields a success, whichever other verbs are under way.
VerbServedOnce ==
    \A r \in Requests \ Reads :
        /\ served[r] <= 1
        /\ Target[r] \notin Agents /\ Verb[r] # "query" => verdict[r] # "ok"

\* No status read is answered with "a confidently partial reply": it shows
\* every agent the boot has registered, however early it was first sent, and
\* every agent any reload before its first send has registered, whichever
\* reload is under way while it is answered.
ReadIsComplete ==
    \A r \in Reads : verdict[r] = "ok" => owed[r] \subseteq shown[r]

\* A read that can still be republished once the handlers are there is
\* answered, though its first sends found no subscriber.
ReadAnswered ==
    \A r \in Reads :
        registered /\ cpc[r] = "awaiting" /\ attempts[r] < MaxAttempts
        ~> verdict[r] = "ok"

\* Every call returns, answered or not.
ClientReturns ==
    \A r \in Requests : cpc[r] \notin {"idle", "done"} ~> cpc[r] = "done"

\* "A DELIVERED REQUEST THE DAEMON REFUSED IS NOT A SUCCESS": what the daemon
\* answered with its error state is not reported as done.
RefusedIsFailure ==
    \A r \in Requests \ Reads :
        Verb[r] # "query" /\ answer[r] = "error" => verdict[r] # "ok"

\* "Query lifecycle state": the answer to a query is a state of the agent.
QueryTellsState ==
    [][\A r \in Requests :
         Verb[r] = "query" /\ answer[r] = "" /\ answer'[r] # ""
         => answer'[r] = agent[Target[r]]]_vars

\* The client "sends a lifecycle action ... and waits for their transition":
\* success is reported once the daemon has dealt with the request.
OwnOutcome ==
    \A r \in Requests \ Reads : verdict[r] = "ok" => r \in replied
=============================================================================
