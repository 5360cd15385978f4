-------------------------- MODULE MCControlClient ---------------------------
(* Small instances of the control client for TLC.                          *)
EXTENDS ControlClient, TLC

CONSTANTS start1, stop1, reload1, restart1, query1, stray, read1
CONSTANTS web, ghost

MCVerb == [r \in Requests |->
             CASE r = start1 -> "start"     [] r \in {stop1, stray} -> "stop"
               [] r = reload1 -> "reload"   [] r = restart1 -> "restart"
               [] r = query1 -> "query"     [] OTHER -> "read"]

\* stray names an agent the daemon does not have.
MCTarget == [r \in Requests |-> IF r = stray THEN ghost ELSE web]
=============================================================================
