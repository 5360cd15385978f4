------------------------------ MODULE MCGapictl ------------------------------
(* gapictl: how it finds its daemon, its one-shot commands, and its terminal *)
(* UI.  They share no state here; a behaviour exercises the address, the     *)
(* commands during boot, or during reloads, the UI's list, or its logs.      *)
EXTENDS MCControlClient, MCTui, ControlAddr

VARIABLE part

Commands == {"commands", "reloads"}

MCGapictlInit ==
    /\ part \in Commands \cup {"address", "list", "logs"}
    /\ AddrInit /\ Init /\ TuiInit
    /\ part \notin Commands => listed = {}

\* The agents are set up again only where a read, or a verb, is given alone.
InPart ==
    /\ part = "list" => view' # "logs"
    /\ part = "logs" => filter' = NoFilter /\ ~acting'
    /\ (part = "commands" /\ registered) => setup' = "idle"
    /\ part = "reloads" => \E r \in Requests : \A q \in Requests \ {r} : cpc'[q] = "idle"

MCGapictlNext ==
    /\ UNCHANGED part
    /\ \/ part = "address" /\ AddrNext /\ UNCHANGED <<vars, tuiVars>>
       \/ part \in Commands /\ Next /\ InPart /\ UNCHANGED <<addrVars, tuiVars>>
       \/ part \in {"list", "logs"} /\ TuiNext /\ InPart /\ UNCHANGED <<addrVars, vars>>

\* A command that nobody has given owes nothing: fairness is that of the client.
MCGapictlSpec ==
    MCGapictlInit /\ [][MCGapictlNext]_<<part, addrVars, vars, tuiVars>> /\ Fairness
=============================================================================
