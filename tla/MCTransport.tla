---------------------------- MODULE MCTransport -----------------------------
(* Small instances of the transport for TLC.                               *)
EXTENDS Transport

CONSTANTS c1, c2, p1, p2
=============================================================================
