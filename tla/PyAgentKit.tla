----------------------------- MODULE PyAgentKit -----------------------------
(***************************************************************************)
(* A Python agent's process (adk/python/agent/runner.py over the binding   *)
(* adk/go/core.go): main with its verbs, AgentWrapper, the thread start()  *)
(* runs in, and the SIGTERM handler.                                       *)
(*                                                                         *)
(* A Python handler runs on the main thread between two of its steps, and  *)
(* a second signal runs a second handler inside the first: `calls` is the  *)
(* stack of stop() activations above main.  sys.exit and an exception      *)
(* leave an activation as Python unwinds them, through its finally block.  *)
(* Frames keep the event's name; runs of start_pending count as one.       *)
(***************************************************************************)
EXTENDS Naturals, Sequences, SequencesExt

CONSTANT MaxTerms       \* bound: SIGTERMs caught

ASSUME PyKitAssumption == MaxTerms \in Nat

VARIABLES
    agent,      \* the verb, one-shot or not, the functions found, ports, stub
    at,         \* where main is, or where a handler has interrupted it
    calls,      \* stop() activations, the innermost last
    flight,     \* what is unwinding: nothing, SystemExit or an exception
    thread,     \* the start thread
    failed,     \* err_holder["err"] is set
    workers,    \* start() left non-daemon threads behind
    sent,       \* the events written to the control descriptor
    beating,    \* StartHeartbeat was called
    caught,     \* the handlers installed; SIGTERMs so far
    swallowed, \* the port probe swallowed a stop function's exception
    ended       \* the exit code, or none

pyKitVars == <<agent, at, calls, flight, thread, failed, workers, sent, beating, caught,
               swallowed, ended>>

On == ended = "none"

\* The binding writes a frame before it returns; the stub discards it.
SendEvent(e) ==
    IF agent.stub \/ (e = "start_pending" /\ sent # <<>> /\ Last(sent) = e)
    THEN sent ELSE Append(sent, e)

StartHeartbeat == beating' = TRUE

\* The events that have a state (_EVENT_STATES); _notify sends no other.
Published == {"starting", "start_pending", "ready", "stopping", "stopped", "reloaded",
              "error"}

Notify(e) == sent' = IF e \in Published THEN SendEvent(e) ELSE sent

\* Main takes a step only while no handler runs and nothing unwinds.
Main(l) == On /\ calls = <<>> /\ flight = "none" /\ at = l

-----------------------------------------------------------------------------
(* main.                                                                   *)

\* The refused stub, the module that does not load, and --describe end here,
\* before any handler is installed.
Load ==
    /\ Main("load")
    /\ \/ ended' = "2" /\ UNCHANGED <<at, caught>>
       \/ agent.stub /\ ended' = "1" /\ UNCHANGED <<at, caught>>
       \/ agent.verb = "describe" /\ ended' \in {"0", "3"} /\ UNCHANGED <<at, caught>>
       \/ /\ agent.verb # "describe" /\ at' = agent.verb
          /\ caught' = [caught EXCEPT !.handler = TRUE] /\ UNCHANGED ended
    /\ UNCHANGED <<agent, calls, flight, thread, failed, workers, sent, beating,
                   swallowed>>

\* initialize: an exception ends main with no frame at all.
InitializePy ==
    /\ Main("start")
    /\ \/ at' = "starting" /\ UNCHANGED flight
       \/ "init" \in agent.fns /\ flight' = "error" /\ UNCHANGED at
    /\ UNCHANGED <<agent, calls, thread, failed, workers, sent, beating, caught,
                   swallowed, ended>>

StartPy ==
    /\ Main("starting") /\ Notify("starting")
    /\ at' = IF agent.oneshot THEN "body" ELSE "await"
    /\ thread' = IF ~agent.oneshot /\ "start" \in agent.fns THEN "runs" ELSE thread
    /\ UNCHANGED <<agent, calls, flight, failed, workers, beating, caught, swallowed,
                   ended>>

\* A one-shot's start() runs to completion on the main thread.
OneshotBody ==
    /\ Main("body")
    /\ \/ /\ at' = "return" /\ Notify("completed") /\ UNCHANGED flight
       \/ /\ "start" \in agent.fns /\ flight' = "error" /\ Notify("error")
          /\ at' = "return"
    /\ UNCHANGED <<agent, calls, thread, failed, workers, beating, caught, swallowed,
                   ended>>

\* The start thread: its exception is held first and announced after.
ThreadEnds ==
    /\ On /\ thread = "runs"
    /\ \/ thread' = "returned" /\ workers' \in BOOLEAN /\ UNCHANGED failed
       \/ thread' = "raised" /\ failed' = TRUE /\ UNCHANGED workers
    /\ UNCHANGED <<agent, at, calls, flight, sent, beating, caught, swallowed, ended>>

ThreadSaysError ==
    /\ On /\ thread = "raised" /\ thread' = "returned" /\ Notify("error")
    /\ UNCHANGED <<agent, at, calls, flight, failed, workers, beating, caught,
                   swallowed, ended>>

ThreadAlive == thread \in {"runs", "raised"}

\* One turn of _await_ready: ready, or one more start_pending, or the deadline.
AwaitReady ==
    /\ Main("await")
    /\ \/ /\ \/ ThreadAlive \/ "start" \notin agent.fns
             \/ workers \/ agent.ports
          /\ at' = "check" /\ UNCHANGED sent
       \/ /\ ~ThreadAlive /\ "start" \in agent.fns /\ ~workers
          /\ at' = "await" /\ Notify("start_pending")
       \/ "start" \in agent.fns /\ at' = "serve" /\ UNCHANGED sent
    /\ UNCHANGED <<agent, calls, flight, thread, failed, workers, beating, caught,
                   swallowed, ended>>

CheckError ==
    /\ Main("check") /\ at' = IF failed THEN "serve" ELSE "ready"
    /\ UNCHANGED <<agent, calls, flight, thread, failed, workers, sent, beating, caught,
                   swallowed, ended>>

SayReady ==
    /\ Main("ready") /\ Notify("ready") /\ StartHeartbeat /\ at' = "serve"
    /\ UNCHANGED <<agent, calls, flight, thread, failed, workers, caught, swallowed,
                   ended>>

\* --reload and --restart run the hook if the module has one.
Hook ==
    /\ \E v \in {"reload", "restart"} :
         /\ Main(v)
         /\ \/ /\ at' = "return" /\ UNCHANGED flight
               /\ IF v = "reload" /\ v \in agent.fns
                  THEN Notify("reloaded") ELSE UNCHANGED sent
            \/ v \in agent.fns /\ flight' = "error" /\ UNCHANGED <<at, sent>>
    /\ UNCHANGED <<agent, calls, thread, failed, workers, beating, caught, swallowed,
                   ended>>

StopVerb ==
    /\ Main("stop") /\ calls' = <<"begin">> /\ at' = "stopping"
    /\ UNCHANGED <<agent, flight, thread, failed, workers, sent, beating, caught,
                   swallowed, ended>>

-----------------------------------------------------------------------------
(* stop, called by the handler or by --stop.                               *)

\* The stop called by the verb returns into main; a handler's goes on to sys.exit.
IsHandler == ~(at = "stopping" /\ Len(calls) = 1)

Top(l)      == On /\ flight = "none" /\ calls # <<>> /\ Last(calls) = l
Becomes(l)  == calls' = Append(Front(calls), l)

\* Mutant of BeginStop: a module without a stop function skips the finally block.
BeginStopBare ==
    /\ Top("begin")
    /\ \/ "stop" \in agent.fns /\ Becomes("fn") /\ Notify("stopping")
       \/ "stop" \notin agent.fns /\ Becomes("exit") /\ UNCHANGED sent
    /\ UNCHANGED <<agent, at, flight, thread, failed, workers, beating, caught,
                   swallowed, ended>>

BeginStop ==
    /\ Top("begin")
    /\ \/ "stop" \in agent.fns /\ Becomes("fn") /\ Notify("stopping")
       \/ "stop" \notin agent.fns /\ Becomes("finally") /\ UNCHANGED sent
    /\ UNCHANGED <<agent, at, flight, thread, failed, workers, beating, caught,
                   swallowed, ended>>

\* If the author's stop function raises, the finally block runs on the way out.
StopFn ==
    /\ Top("fn")
    /\ Becomes("finally") \/ Becomes("finallyRaise")
    /\ UNCHANGED <<agent, at, flight, thread, failed, workers, sent, beating, caught,
                   swallowed, ended>>

Leaving == {"finally", "finallyExit", "finallyRaise"}

\* Mutant of Finally: the start thread is joined without a timeout.
FinallyJoins ==
    /\ On /\ flight = "none" /\ calls # <<>> /\ Last(calls) \in Leaving /\ ~ThreadAlive
    /\ Notify("stopped")
    /\ \/ Last(calls) = "finally" /\ Becomes("exit") /\ UNCHANGED flight
       \/ Last(calls) = "finallyExit" /\ calls' = Front(calls) /\ flight' = "exit"
       \/ Last(calls) = "finallyRaise" /\ calls' = Front(calls) /\ flight' = "error"
    /\ UNCHANGED <<agent, at, thread, failed, workers, beating, caught, swallowed, ended>>

\* The finally block: the join gives up after a second, then STOPPED.
Finally ==
    /\ On /\ flight = "none" /\ calls # <<>> /\ Last(calls) \in Leaving
    /\ Notify("stopped")
    /\ \/ Last(calls) = "finally" /\ Becomes("exit") /\ UNCHANGED flight
       \/ Last(calls) = "finallyExit" /\ calls' = Front(calls) /\ flight' = "exit"
       \/ Last(calls) = "finallyRaise" /\ calls' = Front(calls) /\ flight' = "error"
    /\ UNCHANGED <<agent, at, thread, failed, workers, beating, caught, swallowed, ended>>

\* sys.exit(0), or back to main from --stop.
StopReturns ==
    /\ Top("exit") /\ calls' = Front(calls)
    /\ \/ IsHandler /\ flight' = "exit" /\ UNCHANGED at
       \/ ~IsHandler /\ at' = "return" /\ UNCHANGED flight
    /\ UNCHANGED <<agent, thread, failed, workers, sent, beating, caught,
                   swallowed, ended>>

\* Unwinding through an activation of stop: from its try block into its finally,
\* out of its finally, or, for an exception met at the join, not at all.
UnwindCall ==
    /\ On /\ flight # "none" /\ calls # <<>>
    /\ \/ /\ Last(calls) \in {"begin", "fn"} /\ flight' = "none"
          /\ Becomes(IF flight = "exit" THEN "finallyExit" ELSE "finallyRaise")
       \/ /\ Last(calls) \in Leaving \cup {"exit"}
          /\ calls' = Front(calls) /\ UNCHANGED flight
       \/ /\ Last(calls) \in Leaving /\ flight = "error"
          /\ flight' = "none" /\ UNCHANGED calls
    /\ UNCHANGED <<agent, at, thread, failed, workers, sent, beating, caught,
                   swallowed, ended>>

\* Unwinding through main.  A one-shot's body turns an exception into FAILED
\* on the way; the probe of a port swallows one.
UnwindMain ==
    /\ On /\ flight # "none" /\ calls = <<>>
    /\ \/ /\ ended' = IF flight = "exit" THEN "0" ELSE "1"
          /\ at' = "gone" /\ ~workers /\ UNCHANGED <<flight, swallowed>>
          /\ IF flight = "error" /\ at = "body" THEN Notify("error") ELSE UNCHANGED sent
       \/ /\ flight = "error" /\ at = "await" /\ agent.ports
          /\ flight' = "none" /\ swallowed' = TRUE /\ UNCHANGED <<at, sent, ended>>
    /\ UNCHANGED <<agent, calls, thread, failed, workers, beating, caught>>

\* main returns 0, and the interpreter waits for non-daemon threads.
Return ==
    /\ Main("return") /\ ~workers /\ ended' = "0" /\ at' = "gone"
    /\ UNCHANGED <<agent, calls, flight, thread, failed, workers, sent, beating, caught,
                   swallowed>>

WorkersEnd ==
    /\ On /\ workers /\ workers' = FALSE
    /\ UNCHANGED <<agent, at, calls, flight, thread, failed, sent, beating, caught,
                   swallowed, ended>>

-----------------------------------------------------------------------------
\* SIGTERM before the handler is installed kills; after, a new activation of
\* stop begins on top of whatever the main thread is doing.
SigtermPy ==
    /\ On /\ flight = "none" /\ caught.n < MaxTerms
    /\ caught' = [caught EXCEPT !.n = @ + 1]
    /\ \/ caught.handler /\ calls' = Append(calls, "begin") /\ UNCHANGED ended
       \/ ~caught.handler /\ ended' = "killed" /\ UNCHANGED calls
    /\ UNCHANGED <<agent, at, flight, thread, failed, workers, sent, beating, swallowed>>

\* The supervisor loses patience.
SigkillPy ==
    /\ On /\ caught.n > 0 /\ ended' = "killed"
    /\ UNCHANGED <<agent, at, calls, flight, thread, failed, workers, sent, beating,
                   caught, swallowed>>

\* ports: the module declares ports, or loose mode takes it for ready.
PyKitAt(l, c) ==
    /\ agent \in [verb : {"start", "stop", "reload", "restart", "describe"},
                  oneshot : BOOLEAN, ports : BOOLEAN, stub : BOOLEAN,
                  fns : SUBSET {"init", "start", "stop", "reload", "restart"}]
    /\ agent.verb # "start" =>
         ~agent.oneshot /\ ~agent.ports /\ agent.fns \subseteq {agent.verb}
    /\ agent.verb = "start" => agent.fns \subseteq {"init", "start", "stop"}
    /\ agent.stub => agent.verb = "start" /\ agent.fns = {"start"}
    /\ agent.oneshot \/ "start" \notin agent.fns => ~agent.ports
    /\ at = l /\ calls = <<>> /\ flight = "none" /\ thread = "none"
    /\ failed = FALSE /\ workers = FALSE /\ sent = <<>> /\ beating = FALSE
    /\ caught = [handler |-> FALSE, n |-> 0] /\ swallowed = FALSE /\ ended = c

PyKitInit == PyKitAt("load", "none")

PyKitStep ==
    \/ Load \/ InitializePy \/ StartPy \/ OneshotBody \/ AwaitReady \/ CheckError
    \/ SayReady \/ Hook \/ StopVerb \/ BeginStop \/ StopFn \/ Finally \/ StopReturns
    \/ UnwindCall \/ UnwindMain \/ Return

PyKitNext == PyKitStep \/ ThreadEnds \/ ThreadSaysError \/ WorkersEnd \/ SigtermPy \/ SigkillPy

\* The main thread runs, the author's init and stop functions return; start()
\* and the author's threads may go on for ever.
PyKitFairness == WF_pyKitVars(PyKitStep) /\ WF_pyKitVars(ThreadSaysError)

PyKitSpec == PyKitInit /\ [][PyKitNext]_pyKitVars /\ PyKitFairness

-----------------------------------------------------------------------------
PyKitTypeOK ==
    /\ at \in {"load", "start", "stop", "reload", "restart", "starting", "stopping", "body",
               "await", "check", "ready", "serve", "return", "gone"}
    /\ calls \in Seq({"begin", "fn", "exit"} \cup Leaving)
    /\ sent \in Seq(Published) /\ flight \in {"none", "exit", "error"}
    /\ thread \in {"none", "runs", "raised", "returned"}
    /\ ended \in {"none", "0", "1", "2", "3", "killed"}

ServicePy == agent.verb = "start" /\ ~agent.oneshot

Says(e) == \E i \in 1..Len(sent) : sent[i] = e

\* A service process that exits 0 has said STOPPED, whichever step the signal
\* met; and the agent is not announced as running again after it (_await_ready,
\* the error check and the ready event all lie behind the handler), unless the
\* port probe swallowed what the stop function raised.
PyStopAnnounced ==
    /\ ServicePy /\ ended = "0" /\ ~agent.stub => Says("stopped")
    /\ ServicePy /\ ~swallowed =>
         \A i, j \in 1..Len(sent) : i < j /\ sent[i] = "stopped" => sent[j] # "ready"

\* A process that caught a SIGTERM ends, although start() may never return,
\* unless its author's own threads keep the interpreter or the stop function's
\* exception was swallowed.
PySignalEnds == caught.handler /\ caught.n > 0 ~> ~On \/ workers \/ swallowed
=============================================================================
