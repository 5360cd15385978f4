-------------------------- MODULE MCAgentLifecycle --------------------------
(* The callers of one agent, as model values, for TLC.                     *)
EXTENDS AgentLifecycle, TLC

CONSTANTS handler, lazy, dependent, shutdown
=============================================================================
