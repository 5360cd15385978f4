----------------------------- MODULE GoAgentKit -----------------------------
(***************************************************************************)
(* A Go agent's process (adk/go/agent): Run, the supervised life of a      *)
(* service with its signals and its control frames, the other verbs, one   *)
(* timer fire, and the listeners it inherits.                              *)
(*                                                                         *)
(* The author's functions return, fail or take their time.  A frame counts *)
(* as announced once it is written.                                        *)
(***************************************************************************)
EXTENDS Naturals, Sequences, FiniteSets

CONSTANT MaxSignals     \* bound: SIGTERMs sent to the process

ASSUME KitAssumption == MaxSignals \in Nat

Verbs    == {"start", "stop", "reload", "restart", "describe", "none"}
Outcomes == {"ok", "error"}

\* listenFDsBase: listeners start at descriptor 3, the control pipe follows them.
Base == 3

VARIABLES
    verb,           \* the flag run was invoked with
    has,            \* the optional functions the author declared
    env,            \* LISTEN_FDS, LISTEN_PID and the listeners really passed
    kpc,            \* where run is
    startDone,      \* the channel Start's goroutine answers on
    sigs,           \* the signal channel, of one place
    notify,         \* signal.Notify is in force
    cancelledK,     \* the context of Start is cancelled
    frames,         \* the states written to the control descriptor
    code,           \* how the process ended
    signalsK,       \* SIGTERMs sent so far
    fds             \* what each descriptor from Base on is by now

kitVars == <<verb, has, env, kpc, startDone, sigs, notify, cancelledK, frames, code,
             signalsK, fds>>

Alive == code = "none"

KGoto(l)     == kpc' = l /\ UNCHANGED <<frames, code>>
Status(s, l) == frames' = Append(frames, s) /\ kpc' = l /\ UNCHANGED code
Exit(c)      == code' = c /\ kpc' = "gone" /\ UNCHANGED frames
\* The last status, then the exit.
Report(s, c) == frames' = Append(frames, s) /\ code' = c /\ kpc' = "gone"

-----------------------------------------------------------------------------
(* run: the verb decides.                                                  *)

\* An absent function is no error.
Invoke(f) == IF f \in has THEN \E o \in Outcomes : Exit(o) ELSE Exit("ok")

Dispatch ==
    /\ Alive /\ kpc = "run"
    /\ \/ verb = "start" /\ Status("starting", "init")
       \/ verb = "start" /\ Exit("error")    \* no control descriptor
       \/ verb = "describe" /\ Exit("ok")
       \/ verb = "none" /\ KGoto("fire")
       \/ verb \in {"stop", "reload", "restart"} /\ Invoke(verb)
    /\ UNCHANGED <<verb, has, env, startDone, sigs, notify, cancelledK, signalsK, fds>>

\* One timer fire: Initialize, then Start, in the foreground.
Fire ==
    /\ Alive /\ kpc = "fire"
    /\ \E o \in Outcomes : Exit(o)
    /\ UNCHANGED <<verb, has, env, startDone, sigs, notify, cancelledK, signalsK, fds>>

-----------------------------------------------------------------------------
(* supervised.                                                             *)

\* Initialize runs before the signals are caught; then Start's goroutine begins.
Initialize ==
    /\ Alive /\ kpc = "init"
    /\ \/ /\ KGoto("grace") /\ notify' = TRUE /\ startDone' = "runs"
       \/ /\ "initialize" \in has /\ Report("FAILED", "error")
          /\ UNCHANGED <<notify, startDone>>
    /\ UNCHANGED <<verb, has, env, sigs, cancelledK, signalsK, fds>>

StartReturns ==
    /\ Alive /\ startDone = "runs"
    /\ \E o \in Outcomes : startDone' = o
    /\ UNCHANGED <<verb, has, env, kpc, sigs, notify, cancelledK, frames, code,
                   signalsK, fds>>

Returned == startDone \in Outcomes

\* finish: a failed Start is FAILED, a clean return calls Stop.
Finish ==
    /\ Alive /\ Returned /\ kpc \in {"grace", "serve"}
    /\ \/ startDone = "error" /\ Report("FAILED", "error")
       \/ startDone = "ok" /\ "stop" \in has /\ KGoto("finishStop")
       \/ startDone = "ok" /\ "stop" \notin has /\ Report("STOPPED", "ok")
    /\ UNCHANGED <<verb, has, env, startDone, sigs, notify, cancelledK, signalsK, fds>>

FinishStop ==
    /\ Alive /\ kpc = "finishStop"
    /\ Report("STOPPED", "ok") \/ Report("FAILED", "error")
    /\ UNCHANGED <<verb, has, env, startDone, sigs, notify, cancelledK, signalsK, fds>>

\* The grace is over: the select may find it so although Start has returned.
Ready ==
    /\ Alive /\ kpc = "grace" /\ Status("RUNNING", "serve")
    /\ UNCHANGED <<verb, has, env, startDone, sigs, notify, cancelledK, signalsK, fds>>

\* Mutant of Serving: a signal is served before the agent has reported ready.
ServingEarly == kpc \in {"grace", "serve"}

Serving == kpc = "serve"

Stopping ==
    /\ Alive /\ Serving /\ sigs
    /\ sigs' = FALSE /\ cancelledK' = TRUE
    /\ Status("stopping", IF "stop" \in has THEN "stop" ELSE "unwind")
    /\ UNCHANGED <<verb, has, env, startDone, notify, signalsK, fds>>

StopFunction ==
    /\ Alive /\ kpc = "stop"
    /\ KGoto("unwind") \/ Report("FAILED", "error")
    /\ UNCHANGED <<verb, has, env, startDone, sigs, notify, cancelledK, signalsK, fds>>

\* Mutant of Unwind: Start is waited for however long it takes.
UnwindForever ==
    /\ Alive /\ kpc = "unwind" /\ Returned /\ Report("STOPPED", "ok")
    /\ UNCHANGED <<verb, has, env, startDone, sigs, notify, cancelledK, signalsK, fds>>

\* Start unwinds or stopGrace is over.
Unwind ==
    /\ Alive /\ kpc = "unwind" /\ Report("STOPPED", "ok")
    /\ UNCHANGED <<verb, has, env, startDone, sigs, notify, cancelledK, signalsK, fds>>

\* SIGTERM ends a process that does not catch it; a caught one waits in the
\* channel, and a second is dropped.
Sigterm ==
    /\ Alive /\ signalsK < MaxSignals /\ signalsK' = signalsK + 1
    /\ \/ notify /\ sigs' = TRUE /\ UNCHANGED <<kpc, frames, code>>
       \/ ~notify /\ Exit("killed") /\ UNCHANGED sigs
    /\ UNCHANGED <<verb, has, env, startDone, notify, cancelledK, fds>>

Sigkill ==
    /\ Alive /\ signalsK > 0 /\ Exit("killed")
    /\ UNCHANGED <<verb, has, env, startDone, sigs, notify, cancelledK, signalsK, fds>>

-----------------------------------------------------------------------------
(* Listener.                                                               *)

\* Mutant of MinePid: whoever the descriptors were meant for.
MinePidAny == TRUE

\* LISTEN_PID names this process, or is the supervisor's literal "self".
MinePid == env.pid # "other"

\* listenFDs: the count, once the variables are found to be meant for us.
ListenFDs == IF env.fds > 0 /\ MinePid THEN env.fds ELSE 0

\* listenerAt(0) duplicates the descriptor and closes the original, whatever
\* it is; only a listening socket yields a listener.
TakeListener ==
    /\ Alive /\ startDone = "runs" /\ ListenFDs > 0 /\ fds[Base] # "free"
    /\ fds' = [fds EXCEPT ![Base] = "free"]
    /\ UNCHANGED <<verb, has, env, kpc, startDone, sigs, notify, cancelledK, frames, code,
                   signalsK>>

-----------------------------------------------------------------------------
\* The descriptors the supervisor passes: listeners, then the control pipe.  A
\* supervisor that was itself socket-activated leaves its own variables in the
\* environment of an agent that has no listener.
Environments ==
    {[n |-> 0, fds |-> 0, pid |-> "unset"], [n |-> 0, fds |-> 1, pid |-> "other"],
     [n |-> 1, fds |-> 1, pid |-> "self"]}

KitAt(l, c) ==
    /\ verb \in Verbs /\ has \in SUBSET {"initialize", "stop", "reload", "restart"}
    /\ env \in Environments
    /\ kpc = l /\ startDone = "none" /\ sigs = FALSE /\ notify = FALSE
    /\ cancelledK = FALSE /\ frames = <<>> /\ code = c /\ signalsK = 0
    /\ fds = [d \in {Base, Base + 1} |->
                IF d < Base + env.n THEN "listener"
                ELSE IF d = Base + env.n THEN "control" ELSE "free"]

KitInit == KitAt("run", "none")

KitStep == Dispatch \/ Fire \/ Initialize \/ Finish \/ FinishStop \/ Ready \/ Stopping
             \/ StopFunction \/ Unwind

KitNext == KitStep \/ StartReturns \/ Sigterm \/ Sigkill \/ TakeListener

\* The process runs, and Initialize and Stop return; Start may hang for ever.
KitFairness == WF_kitVars(KitStep)

KitSpec == KitInit /\ [][KitNext]_kitVars /\ KitFairness

-----------------------------------------------------------------------------
KitTypeOK ==
    /\ verb \in Verbs /\ code \in {"none", "ok", "error", "killed"}
    /\ kpc \in {"run", "fire", "init", "grace", "serve", "finishStop", "stop", "unwind",
                "gone"}
    /\ startDone \in {"none", "runs"} \cup Outcomes
    /\ frames \in Seq({"starting", "RUNNING", "stopping", "STOPPED", "FAILED"})

Service == verb = "start"

\* What the supervisor hears of a service agent: its last frame, and how it ended.
Announced ==
    INSTANCE Announcement WITH
        said <- IF ~Service \/ frames = <<>> THEN "silent" ELSE frames[Len(frames)],
        exit <- IF Service THEN code ELSE "none"

\* What a service agent announces (supervised, finish) is an announcement as the
\* supervisor expects one: PENDING, then RUNNING, then one last word, and the
\* exit code that goes with it, whatever the order in which Start's return, the
\* ready timer and SIGTERM arrive.
AnnouncesInOrder == Announced!AnnSpec

\* A service that is told to stop ends with a last word however long Start takes
\* to unwind, and a signal that comes while it is getting ready is not lost.
SignalEnds == signalsK > 0 /\ Service ~> ~Alive

\* The control descriptor is never taken for a listener: nothing in Listener
\* closes it.
ControlKept == fds[Base + env.n] = "control"
=============================================================================
