------------------------------- MODULE MCDaemon -------------------------------
(* gapid's main, the socket-activated runner, and the two kits an agent's    *)
(* process is built on: they share no state, and one behaviour exercises one *)
(* of them.                                                                  *)
EXTENDS GapidMain, PythonAgent, GoAgentKit, PyAgentKit

VARIABLE part

\* A component that a behaviour does not exercise has ended before it began.
MCDaemonInit ==
    /\ part \in {"main", "python", "gokit", "pykit"} /\ PyInit
    /\ \/ part = "main" /\ GapidInit
       \/ part # "main" /\ GapidAt("failed") /\ pid1 = FALSE /\ skip = FALSE /\ mounted = {}
    /\ \/ part = "gokit" /\ KitInit
       \/ part # "gokit" /\ KitAt("gone", "ok") /\ verb = "none" /\ has = {} /\ env.fds = 0
    /\ \/ part = "pykit" /\ PyKitInit
       \/ part # "pykit" /\ PyKitAt("gone", "0") /\ agent.verb = "describe" /\ agent.fns = {}
    /\ part # "python" => typ = "service" /\ ~listens

MCDaemonNext ==
    /\ UNCHANGED part
    /\ \/ part = "main" /\ GapidNext /\ UNCHANGED <<pyVars, kitVars, pyKitVars>>
       \/ part = "python" /\ PyNext /\ UNCHANGED <<gapidVars, kitVars, pyKitVars>>
       \/ part = "gokit" /\ KitNext /\ UNCHANGED <<gapidVars, pyVars, pyKitVars>>
       \/ part = "pykit" /\ PyKitNext /\ UNCHANGED <<gapidVars, pyVars, kitVars>>

MCDaemonSpec ==
    /\ MCDaemonInit
    /\ [][MCDaemonNext]_<<part, gapidVars, pyVars, kitVars, pyKitVars>>
    /\ GapidFairness /\ PyFairness /\ KitFairness /\ PyKitFairness

\* Whichever kit an agent is built on, a SIGTERM it caught ends its process,
\* although its start function may never return (supervised's stopGrace; the
\* bounded join of AgentWrapper.stop).
TermEnds == SignalEnds /\ PySignalEnds

\* Whichever kit, the supervisor can hear the end: Listener never closes the
\* control descriptor, and a Python service that exits 0 has said STOPPED and
\* does not say RUNNING after it.
ControlHeard == ControlKept /\ PyStopAnnounced
=============================================================================
