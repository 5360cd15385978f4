---------------------------- MODULE Announcement ----------------------------
(***************************************************************************)
(* What a supervisor may rely on when it reads a service agent's control   *)
(* channel: the agent is PENDING first, RUNNING at most once, PENDING      *)
(* again while it stops, and STOPPED or FAILED last.  An exit the agent    *)
(* chose follows its last word; a process may be killed in any state.      *)
(***************************************************************************)
VARIABLES said, exit

Silent == "silent"
Final  == {"STOPPED", "FAILED"}

AnnInit == said = Silent /\ exit = "none"

Says(from, word) ==
    /\ exit = "none" /\ said \in from
    /\ said' = word /\ UNCHANGED exit

Leaves ==
    /\ exit = "none"
    /\ \/ said = "STOPPED" /\ exit' = "ok"
       \/ said \in {"FAILED", Silent} /\ exit' = "error"
       \/ exit' = "killed"
    /\ UNCHANGED said

\* The last word and the exit code may come in one step.
SaysAndLeaves ==
    /\ exit = "none" /\ said \notin Final \cup {Silent}
    /\ \/ said' = "STOPPED" /\ exit' = "ok"
       \/ said' = "FAILED" /\ exit' = "error"

AnnNext ==
    \/ Says({Silent}, "starting") \/ Says({"starting"}, "RUNNING")
    \/ Says({"RUNNING"}, "stopping") \/ SaysAndLeaves
    \/ Leaves

AnnSpec == AnnInit /\ [][AnnNext]_<<said, exit>>
=============================================================================
