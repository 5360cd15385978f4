---------------------------- MODULE ControlAddr ----------------------------
(***************************************************************************)
(* How a control binary finds a daemon (core/config/control_addr.go,       *)
(* core/supervisor/control_addr.go, pkg/cli/control_target.go): a daemon   *)
(* publishes the address it bound in a file named after its PID, in the    *)
(* first runtime directory it can write, and removes it when it leaves; a  *)
(* client lists the directories and probes each PID before it reads.       *)
(*                                                                         *)
(* A file is absent, empty (truncated, not yet written), or holds the      *)
(* address of a daemon; every system call is a step.                       *)
(***************************************************************************)
EXTENDS Naturals, Sequences, FiniteSets, FiniteSetsExt

CONSTANTS
    Daemons,    \* processes that may run as a daemon, once each
    PidSpace,   \* the PIDs they can get
    HasXDG,     \* those of them that have XDG_RUNTIME_DIR
    ClientXDG   \* whether the client has

Tiers  == {"xdg", "run"}
Nobody == "nobody"
Other  == "other"

\* A daemon is none of the other owners of a PID, contents of a file and targets.
ASSUME AddrAssumption ==
    /\ PidSpace \subseteq Nat \ {0} /\ IsFiniteSet(PidSpace)
    /\ HasXDG \subseteq Daemons /\ ClientXDG \in BOOLEAN
    /\ Daemons \cap {Nobody, Other, "absent", "empty", "none", "explicit", "default"} = {}

\* Without XDG_RUNTIME_DIR there is one directory.
ControlAddrDirs(xdg) == IF xdg THEN <<"xdg", "run">> ELSE <<"run">>

VARIABLES
    owner,      \* which process has a PID: a daemon, another one, nobody
    reused,     \* history: PIDs that had a second owner
    dpc,        \* where each daemon is
    dpid,       \* its PID
    todo,       \* the directories it has yet to try, or to clean
    entry,      \* the directory its address is in, or none
    file,       \* contents by directory and PID
    look,       \* the client: where it is, what it has left, seen and found
    target,     \* cfg.Transport.Address once it is settled: what the client dials
    ambiguity,  \* controlAddrAmbiguity: none, several, or unreadable
    there,      \* history: daemons published ever since it began to look
    lived       \* history: daemons that had their PID at some time since then

addrVars == <<owner, reused, dpc, dpid, todo, entry, file, look, target,
              ambiguity, there, lived>>
dials == <<target, ambiguity>>
daemonPart == <<owner, reused, dpc, dpid, todo, entry, file>>

Set(f, d, x) == [f EXCEPT ![d] = x]
Contents(d)  == [file EXCEPT ![Head(todo[d])][dpid[d]] = d]
Truncated(d) == [file EXCEPT ![Head(todo[d])][dpid[d]] = "empty"]

-----------------------------------------------------------------------------
(* Processes.                                                              *)

Had(p) == \E d \in Daemons : dpid[d] = p

Occupies(p, who) ==
    /\ owner[p] = Nobody /\ owner' = Set(owner, p, who)
    /\ reused' = IF Had(p) THEN reused \cup {p} ELSE reused

\* A daemon has bound its address, and looks for a place to publish it.
Bind(d, p) ==
    /\ dpc[d] = "new" /\ Occupies(p, d)
    /\ dpid' = Set(dpid, d, p) /\ dpc' = Set(dpc, d, "write")
    /\ todo' = Set(todo, d, ControlAddrDirs(d \in HasXDG))
    /\ UNCHANGED <<entry, file>>

\* Another process is given a PID that a daemon had.
Recycled(p) ==
    /\ Had(p) /\ Occupies(p, Other)
    /\ UNCHANGED <<dpc, dpid, todo, entry, file>>

OtherLeaves(p) ==
    /\ owner[p] = Other /\ owner' = Set(owner, p, Nobody)
    /\ UNCHANGED <<reused, dpc, dpid, todo, entry, file>>

\* Daemons that have their PID, and those of them that are not zombies.
Held == {d \in Daemons : dpid[d] # 0 /\ owner[dpid[d]] = d}
Running == {d \in Held : dpc[d] # "zombie"}

Exit(d) == dpc' = Set(dpc, d, "zombie") /\ UNCHANGED <<owner, reused, dpid, todo, entry, file>>

\* SIGKILL, at any step.
Killed(d) == d \in Running /\ Exit(d)

\* Its parent waits for it, and the PID is free.
Reaped(d) ==
    /\ dpc[d] = "zombie" /\ dpc' = Set(dpc, d, "gone")
    /\ owner' = Set(owner, dpid[d], Nobody)
    /\ UNCHANGED <<reused, dpid, todo, entry, file>>

-----------------------------------------------------------------------------
(* WriteControlAddr and RemoveControlAddr.                                 *)

\* os.WriteFile: the file is there, and empty, before the address is in it.
Truncate(d) ==
    /\ dpc[d] = "write" /\ todo[d] # <<>>
    /\ file' = Truncated(d) /\ dpc' = Set(dpc, d, "fill")
    /\ UNCHANGED <<owner, reused, dpid, todo, entry>>

Fill(d) ==
    /\ dpc[d] = "fill"
    /\ file' = Contents(d) /\ entry' = Set(entry, d, Head(todo[d]))
    /\ dpc' = Set(dpc, d, "serving")
    /\ UNCHANGED <<owner, reused, dpid, todo>>

\* A directory that cannot be written, or a write that failed, is passed over.
NextTier(d) ==
    /\ dpc[d] \in {"write", "fill"} /\ todo[d] # <<>>
    /\ todo' = [todo EXCEPT ![d] = Tail(@)] /\ dpc' = Set(dpc, d, "write")
    /\ UNCHANGED <<owner, reused, dpid, entry, file>>

\* publishControlAddr: that no directory would do is only logged.
Unpublished(d) ==
    /\ dpc[d] = "write" /\ todo[d] = <<>> /\ dpc' = Set(dpc, d, "serving")
    /\ UNCHANGED <<owner, reused, dpid, todo, entry, file>>

\* unpublishControlAddr comes first in the shutdown.
Unpublish(d) ==
    /\ dpc[d] = "serving" /\ dpc' = Set(dpc, d, "remove")
    /\ todo' = Set(todo, d, ControlAddrDirs(d \in HasXDG)) /\ entry' = Set(entry, d, "none")
    /\ UNCHANGED <<owner, reused, dpid, file>>

\* Mutant of OwnEntry: every daemon's entry.
EveryEntry(d) == PidSpace

OwnEntry(d) == {dpid[d]}

\* Its own entry in each directory; an error ends the removal.
RemoveControlAddr(d) ==
    /\ dpc[d] = "remove" /\ todo[d] # <<>>
    /\ \/ /\ file' = [file EXCEPT ![Head(todo[d])] =
                        [p \in PidSpace |-> IF p \in OwnEntry(d) THEN "absent" ELSE @[p]]]
          /\ todo' = [todo EXCEPT ![d] = Tail(@)]
       \/ todo' = Set(todo, d, <<>>) /\ UNCHANGED file
    /\ UNCHANGED <<owner, reused, dpc, dpid, entry>>

Leave(d) == dpc[d] = "remove" /\ todo[d] = <<>> /\ Exit(d)

-----------------------------------------------------------------------------
(* The client.                                                             *)

\* resolveControlAddr: an address other than the default wins without a look.
Resolve ==
    /\ look.at = "idle"
    /\ \/ target' = "explicit" /\ look' = [look EXCEPT !.at = "done"] /\ UNCHANGED ambiguity
       \/ /\ look' = [look EXCEPT !.at = "list", !.dirs = ControlAddrDirs(ClientXDG)]
          /\ UNCHANGED dials
    /\ UNCHANGED daemonPart

\* An error of ReadControlAddr is held for the message of a failure, and the
\* configured default stays, and is dialled.
DefaultStays(why) ==
    look' = [look EXCEPT !.at = "done"] /\ target' = "default" /\ ambiguity' = why

\* A directory that is not there has no entries; one that cannot be read is an error.
ListDir ==
    /\ look.at = "list" /\ look.dirs # <<>>
    /\ \/ /\ look' = [look EXCEPT !.at = "probe",
                        !.names = {p \in PidSpace : file[Head(look.dirs)][p] # "absent"}]
          /\ UNCHANGED dials
       \/ DefaultStays("unreadable")
    /\ UNCHANGED daemonPart

\* Mutant of PidAlive: nobody looks whether the process is there.
PidAliveAlways(p) == TRUE

\* kill(pid, 0): whoever has the PID, of whichever user, a zombie included.
PidAlive(p) == owner[p] # Nobody

Probe ==
    /\ look.at = "probe" /\ look.names # {}
    /\ LET p == Min(look.names) IN
         look' = IF p \in look.seen \/ ~PidAlive(p)
                 THEN [look EXCEPT !.names = @ \ {p}]
                 ELSE [look EXCEPT !.at = "read"]
    /\ UNCHANGED <<dials, daemonPart>>

\* A file gone since the listing, and an empty one, is no entry.
ReadEntry ==
    /\ look.at = "read"
    /\ LET p == Min(look.names)
           c == file[Head(look.dirs)][p]
           next == [look EXCEPT !.at = "probe", !.names = @ \ {p}]
       IN \/ /\ look' = IF c \in Daemons
                        THEN [next EXCEPT !.seen = @ \cup {p}, !.found = Append(@, c)]
                        ELSE next
             /\ UNCHANGED dials
          \/ c # "absent" /\ DefaultStays("unreadable")
    /\ UNCHANGED daemonPart

NextDir ==
    /\ look.at = "probe" /\ look.names = {}
    /\ look' = [look EXCEPT !.at = "list", !.dirs = Tail(@)]
    /\ UNCHANGED <<dials, daemonPart>>

\* ReadControlAddr: one address is used, several are an error, none leaves the
\* default.
ReadControlAddr ==
    /\ look.at = "list" /\ look.dirs = <<>>
    /\ CASE Len(look.found) = 0 -> DefaultStays("none")
         [] Len(look.found) = 1 -> /\ look' = [look EXCEPT !.at = "done"]
                                   /\ target' = look.found[1] /\ UNCHANGED ambiguity
         [] OTHER -> DefaultStays("several")
    /\ UNCHANGED daemonPart

-----------------------------------------------------------------------------
AddrInit ==
    /\ owner = [p \in PidSpace |-> Nobody] /\ reused = {}
    /\ dpc = [d \in Daemons |-> "new"] /\ dpid = [d \in Daemons |-> 0]
    /\ todo = [d \in Daemons |-> <<>>]
    /\ entry = [d \in Daemons |-> "none"]
    /\ file = [t \in Tiers |-> [p \in PidSpace |-> "absent"]]
    /\ look = [at |-> "idle", dirs |-> <<>>, names |-> {}, seen |-> {}, found |-> <<>>]
    /\ target = "none" /\ ambiguity = "none" /\ there = {} /\ lived = {}

DaemonStep ==
    /\ \/ \E d \in Daemons : \/ \E p \in PidSpace : Bind(d, p)
                             \/ Killed(d) \/ Reaped(d) \/ Truncate(d) \/ Fill(d)
                             \/ NextTier(d) \/ Unpublished(d) \/ Unpublish(d)
                             \/ RemoveControlAddr(d) \/ Leave(d)
       \/ \E p \in PidSpace : Recycled(p) \/ OtherLeaves(p)
    /\ UNCHANGED <<look, dials>>

ClientStep == Resolve \/ ListDir \/ Probe \/ ReadEntry \/ NextDir \/ ReadControlAddr

\* Daemons whose address is in a directory of the client.
Published ==
    {d \in Running : entry[d] = "run" \/ (ClientXDG /\ entry[d] = "xdg")}

\* The history begins when the client begins to look.
Remember ==
    IF look.at = "idle" THEN there' = Published' /\ lived' = Held'
    ELSE /\ there' = there \cap Published'
         /\ lived' = lived \cup Held'

\* After the answer nothing is observed.
AddrNext == look.at # "done" /\ (DaemonStep \/ ClientStep) /\ Remember

AddrSpec == AddrInit /\ [][AddrNext]_addrVars

-----------------------------------------------------------------------------
AddrTypeOK ==
    /\ owner \in [PidSpace -> Daemons \cup {Other, Nobody}]
    /\ dpc \in [Daemons -> {"new", "write", "fill", "serving", "remove", "zombie", "gone"}]
    /\ file \in [Tiers -> [PidSpace -> Daemons \cup {"absent", "empty"}]]
    /\ target \in Daemons \cup {"none", "explicit", "default"}
    /\ ambiguity \in {"none", "several", "unreadable"}

\* What a client that looks for itself dials is defensible.  The daemon whose
\* address it found had its PID while the client looked, and no other daemon was
\* published all along, to be meant instead.  It dials the default without a word
\* only when no daemon was published all along, and says that several are only
\* when two were there; on that error, as on an unreadable entry, it dials the
\* default whoever is published.  A PID given to a second process voids this: the
\* entry of a dead daemon then looks alive.
AddressDefensible ==
    /\ target \in Daemons /\ dpid[target] \notin reused =>
         target \in lived /\ there \subseteq {target}
    /\ target = "default" /\ ambiguity = "none" => there = {}
    /\ ambiguity = "several" /\ reused = {} => \E d, e \in lived : d # e
=============================================================================
