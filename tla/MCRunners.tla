------------------------------ MODULE MCRunners ------------------------------
(* Adopted processes and timers share no state: one behaviour exercises one  *)
(* of them.  A behaviour of the first has either one caller of Stop and      *)
(* Reset, or several of Stop and neither other processes nor a checkpoint.   *)
EXTENDS AdoptedProcess, TimerAgent

VARIABLE part

MCDurations == {-1, 0, 1, 2}

OneStopper == CHOOSE s \in Stoppers : TRUE
OnePid == CHOOSE p \in Pids : TRUE

\* PIDs and callers are alike: the first process is at one PID, and a Stop that
\* finds no other under way is one caller's.
InPart ==
    /\ born = 0 => \A p \in Pids \ {OnePid} : at'[p] = 0
    /\ \A s \in Stoppers \ {OneStopper} :
          /\ part = "adopted" => spc'[s] = "idle"
          /\ spc[s] = "idle" /\ spc'[s] # "idle" => spc[OneStopper] # "idle"
    /\ part = "stops" =>
          /\ dpid' = 0 /\ ~\E p \in Pids : Fork(p)
          /\ \A s \in Stoppers : spc'[s] # "leaving"

Init ==
    /\ part \in {"adopted", "stops", "timer"}
    /\ AdoptInit /\ TimerInit
    /\ part # "timer" => config = [form |-> "cron", d |-> 1]

Next ==
    \/ part # "timer" /\ AdoptNext /\ InPart /\ UNCHANGED <<part, timerVars>>
    \/ part = "timer" /\ TimerNext /\ UNCHANGED <<part, adoptVars>>

Spec ==
    /\ Init /\ [][Next]_<<part, adoptVars, timerVars>> /\ AdoptFairness
    /\ part = "timer" => TimerFairness

TypeOK == AdoptTypeOK /\ TimerTypeOK
=============================================================================
