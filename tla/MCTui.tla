------------------------------- MODULE MCTui -------------------------------
(* A small instance of the terminal UI for TLC: a daemon that has no agents  *)
(* yet, or two of them, one of which the search finds.                       *)
EXTENDS Tui, TLC

Row(i, s, t) == [id |-> i, state |-> s, type |-> t]
MCListings == {<<>>, <<Row("web", "running", "service"), Row("job", "stopped", "timer")>>}
MCNameHits == "web" :> {"web"}
=============================================================================
