----------------------------- MODULE MCEventBus -----------------------------
(* Small instances of the bus for TLC.                                     *)
EXTENDS EventBus, TLC

CONSTANTS p1, p2, status, control, r1, r2
CONSTANTS plain, twin, prefix, watch, once, reply1, reply2, gate

\* All exact subscriptions are on the topic status, the two prefix ones match
\* every topic; plain and twin were made at the same place.
MCKind == [s \in Subs |->
             CASE s \in {plain, twin} -> "exact" [] s = prefix -> "prefix"
               [] s = watch -> "context"         [] s = once -> "once"
               [] s = gate -> "waitFor"          [] OTHER -> "correlated"]
MCWatches == [s \in Subs |-> IF s \in {prefix, watch} THEN Topics ELSE {status}]
MCCorrID == [s \in Subs |-> IF s = reply2 THEN r2 ELSE r1]
MCSite == [s \in Subs |-> IF s = twin THEN plain ELSE s]

VARIABLE scene

\* One behaviour has two publishers and lasting subscriptions, or one publisher
\* and subscriptions that end by themselves.
InScene ==
    /\ registered' \subseteq
         IF scene = "lasting" THEN {plain, watch} ELSE {reply1, reply2}
    /\ \A p \in Publishers : ev'[p] # <<>> =>
         IF scene = "lasting" THEN ev'[p].id = r1 ELSE p = p1

MCInit == Init /\ scene \in {"lasting", "oneshots"}
MCNext == Next /\ InScene /\ UNCHANGED scene
MCFairSpec == MCInit /\ [][MCNext]_<<vars, scene>> /\ Fairness
=============================================================================
