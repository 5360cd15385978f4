----------------------------- MODULE TimerAgent -----------------------------
(***************************************************************************)
(* The timer runner (core/agentmgr timer_agent.go, schedule.go): a loop    *)
(* that waits for the schedule's next instant and runs the agent to        *)
(* completion, and the calls that start, stop and reload it.  Stop does    *)
(* not join the loop, so the loop that Reload replaces may still be        *)
(* running when its successor starts.                                      *)
(*                                                                         *)
(* The machine booted at time 0.                                           *)
(***************************************************************************)
EXTENDS Integers, Sequences

CONSTANTS
    TimerCallers,   \* threads that call the runner
    MaxLoops,       \* bound: loops ever started
    MaxTime,        \* bound: the last instant
    Durations,      \* durations a schedule may name, zero and negative too
    FireTimeout     \* TimerFireTimeout (30 s in the code)

ASSUME TimerAssumption ==
    /\ MaxLoops \in Nat \ {0} /\ MaxTime \in Nat /\ FireTimeout \in Nat \ {0}
    /\ Durations \subseteq Int

Loops     == 1..MaxLoops
Forms     == {"OnUnitActiveSec", "OnStartupSec", "OnBootSec", "duration", "cron",
              "malformed"}
Repeating == {"OnUnitActiveSec", "duration"}
OneShot   == {"OnStartupSec", "OnBootSec"}
Never     == -100   \* the zero time.Time: no further fire
Min(x, y) == IF x < y THEN x ELSE y

VARIABLES
    now,          \* the clock
    config,       \* TimerAgent.schedule: its form and its duration
    cancel,       \* TimerAgent.cancel: the loop it cancels, 0 for nil
    tpc,          \* where a caller is: only Reload has two steps
    cancelledL,   \* loops whose context is cancelled
    lpc,          \* where a loop is
    once, fired,  \* its OnceSchedule: at and fired
    due,          \* the instant its select waits for
    proc,         \* the process of its fire
    \* history
    fires         \* the instants at which a loop fired, oldest first (2 kept)

loopVars  == <<lpc, once, fired, due, proc, fires>>
timerVars == <<now, config, cancel, tpc, cancelledL, loopVars>>

-----------------------------------------------------------------------------
(* ParseScheduleAt and Next.                                               *)

\* Mutant of UsableInterval: only a negative interval is refused.
UsableIntervalZero(d) == d >= 0

UsableInterval(d) == d > 0

\* ParseScheduleAt refuses what has no form it knows and a repeating interval
\* that cannot advance; a one-shot may lie in the past.
Parses(c) ==
    /\ c.form # "malformed"
    /\ c.form \in Repeating => UsableInterval(c.d)

\* The anchor of systemdPrefixes: the instant of a one-shot form.
OnceAt(c) == CASE c.form = "OnStartupSec" -> now + c.d
               [] c.form = "OnBootSec"    -> c.d
               [] OTHER                   -> Never

\* Mutant of NextFire: a one-shot does not remember that it has fired.
NextFireForgets(l) ==
    IF config.form \in OneShot THEN {once[l]}
    ELSE IF config.form \in Repeating THEN {now + config.d} ELSE now + 1 .. MaxTime + 1

\* The Next of the three schedules; a cron expression may name any later
\* instant.
NextFire(l) ==
    CASE config.form \in OneShot   -> {IF fired[l] THEN Never ELSE once[l]}
      [] config.form \in Repeating -> {now + config.d}
      [] OTHER                     -> now + 1 .. MaxTime + 1

-----------------------------------------------------------------------------
(* The loop.                                                               *)

\* run asks for the next instant and ends when there is none.
LoopNext(l) ==
    /\ lpc[l] = "next"
    /\ \E t \in NextFire(l) :
          /\ due' = [due EXCEPT ![l] = t]
          /\ lpc' = [lpc EXCEPT ![l] = IF t = Never THEN "done" ELSE "select"]
    /\ fired' = [fired EXCEPT ![l] = TRUE]
    /\ UNCHANGED <<now, config, cancel, tpc, cancelledL, once, proc, fires>>

\* Mutant of LoopCancelled: the loop waits for its timer alone.
LoopCancelledNever(l) == FALSE /\ UNCHANGED timerVars

\* The select of run: with both ready, either case is taken.
LoopCancelled(l) ==
    /\ lpc[l] = "select" /\ l \in cancelledL
    /\ lpc' = [lpc EXCEPT ![l] = "done"]
    /\ UNCHANGED <<now, config, cancel, tpc, cancelledL, once, fired, due, proc,
                   fires>>

LoopElapses(l) ==
    /\ lpc[l] = "select" /\ due[l] <= now
    /\ lpc' = [lpc EXCEPT ![l] = "execute"]
    /\ UNCHANGED <<now, config, cancel, tpc, cancelledL, once, fired, due, proc,
                   fires>>

\* execute: cmd.Run starts nothing when the context has ended, and fails when
\* the command cannot be started.
Execute(l) ==
    /\ lpc[l] = "execute"
    /\ \/ /\ l \notin cancelledL
          /\ lpc' = [lpc EXCEPT ![l] = "wait"]
          /\ proc' = [proc EXCEPT ![l] = "runs"]
          /\ due' = [due EXCEPT ![l] = Min(now + FireTimeout, MaxTime)]
          /\ fires' = [fires EXCEPT ![l] =
                          Append(IF Len(@) = 2 THEN Tail(@) ELSE @, now)]
       \/ /\ lpc' = [lpc EXCEPT ![l] = "next"]
          /\ UNCHANGED <<proc, due, fires>>
    /\ UNCHANGED <<now, config, cancel, tpc, cancelledL, once, fired>>

\* The process ends, or its context kills it: the loop's, or the fire's own
\* timeout.
ProcExits(l) ==
    /\ proc[l] = "runs"
    /\ proc' = [proc EXCEPT ![l] = "none"]
    /\ lpc' = [lpc EXCEPT ![l] = "next"]
    /\ UNCHANGED <<now, config, cancel, tpc, cancelledL, once, fired, due, fires>>

ProcKilled(l) == (l \in cancelledL \/ due[l] <= now) /\ ProcExits(l)

-----------------------------------------------------------------------------
(* The runner's calls.                                                     *)

LoopLeft == \E l \in Loops : lpc[l] = "none"

\* Start of a stopped timer whose schedule parses: a new loop, RUNNING.
StartLoop ==
    \E l \in Loops :
        /\ lpc[l] = "none" /\ \A m \in Loops : m < l => lpc[m] # "none"
        /\ cancel' = l
        /\ lpc' = [lpc EXCEPT ![l] = "next"]
        /\ once' = [once EXCEPT ![l] = OnceAt(config)]
        /\ UNCHANGED <<fired, due, proc, fires>>

\* Mutant of Startable: a second loop starts beside the first.
StartableAlways == Parses(config)

Startable == cancel = 0 /\ Parses(config)

\* "timer already running" and an invalid schedule are errors.
TimerStart(c) ==
    /\ tpc[c] # "idle" \/ LoopLeft
    /\ \/ LoopLeft /\ Startable /\ StartLoop
       \/ ~Startable /\ UNCHANGED <<cancel, loopVars>>
    /\ tpc' = [tpc EXCEPT ![c] = "idle"]
    /\ UNCHANGED <<now, config, cancelledL>>

\* Stop and Reset cancel the loop they find and do not wait for it; Reload and
\* Restart go on to Start, with the mutex released in between.
TimerStop(c, next) ==
    /\ tpc[c] = "idle" /\ (next = "reload" => LoopLeft)
    /\ cancelledL' = cancelledL \cup ({cancel} \ {0})
    /\ cancel' = 0
    /\ tpc' = [tpc EXCEPT ![c] = next]
    /\ UNCHANGED <<now, config, loopVars>>

Tick ==
    /\ now < MaxTime /\ now' = now + 1
    /\ UNCHANGED <<config, cancel, tpc, cancelledL, loopVars>>

-----------------------------------------------------------------------------
TimerInit ==
    /\ now = 1
    /\ config \in [form : Forms, d : Durations]
    /\ cancel = 0 /\ cancelledL = {}
    /\ tpc = [c \in TimerCallers |-> "idle"]
    /\ lpc = [l \in Loops |-> "none"] /\ proc = [l \in Loops |-> "none"]
    /\ once = [l \in Loops |-> Never] /\ due = [l \in Loops |-> Never]
    /\ fired = [l \in Loops |-> FALSE] /\ fires = [l \in Loops |-> <<>>]

LoopStep(l) == LoopNext(l) \/ LoopCancelled(l) \/ LoopElapses(l) \/ Execute(l)

TimerNext ==
    \/ Tick
    \/ \E l \in Loops : LoopStep(l) \/ ProcExits(l)
    \/ \E c \in TimerCallers : TimerStart(c) \/ \E next \in {"idle", "reload"} : TimerStop(c, next)

\* The loop goroutine and the clock go on; a fire need not end of itself.
TimerFairness ==
    /\ WF_timerVars(Tick)
    /\ \A l \in Loops : /\ WF_timerVars(LoopStep(l))
                        /\ WF_timerVars(ProcKilled(l))

TimerSpec == TimerInit /\ [][TimerNext]_timerVars /\ TimerFairness

-----------------------------------------------------------------------------
TimerTypeOK ==
    /\ now \in 1..MaxTime /\ config \in [form : Forms, d : Durations]
    /\ cancel \in 0..MaxLoops /\ cancelledL \subseteq Loops
    /\ tpc \in [TimerCallers -> {"idle", "reload"}]
    /\ lpc \in [Loops -> {"none", "next", "select", "execute", "wait", "done"}]
    /\ \A l \in Loops : {once[l], due[l]} \subseteq Int /\ fired[l] \in BOOLEAN
    /\ \A l \in Loops : (proc[l] = "runs") = (lpc[l] = "wait")

\* However Start, Stop and Reload of several callers meet, at most one loop is
\* not cancelled, and it is the one the next Stop will cancel.
OneLiveLoop ==
    \A l \in Loops : lpc[l] \notin {"none", "done"} /\ l \notin cancelledL => l = cancel

\* No fire comes before its time: a one-shot fires once and never early, also
\* when its instant has passed; repeated fires are an interval apart.
FiresAreDue ==
    \A l \in Loops :
        /\ config.form \in OneShot =>
              Len(fires[l]) <= 1 /\ \A k \in 1..Len(fires[l]) : fires[l][k] >= once[l]
        /\ config.form \in Repeating /\ Len(fires[l]) = 2 =>
              fires[l][2] - fires[l][1] >= config.d /\ config.d > 0

\* A loop that Stop or Reload gave up ends, with its process, although nobody
\* waits for it; a one-shot ends once served, also when its instant was in the
\* past at Start.
LoopsEnd ==
    \A l \in Loops :
        (\/ l \in cancelledL
         \/ lpc[l] # "none" /\ config.form \in OneShot /\ once[l] <= MaxTime)
            ~> lpc[l] = "done"
=============================================================================
