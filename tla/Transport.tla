----------------------------- MODULE Transport ------------------------------
(***************************************************************************)
(* One endpoint of the QUIC transport (core/transport): its peer set, the  *)
(* goroutine that serves each connection, PublishRemote's fan-out with its *)
(* confirmation window, and the far ends that handle each event's stream   *)
(* in a goroutine of its own.                                              *)
(*                                                                         *)
(* A daemon accepts its connections; a client dials one and never accepts. *)
(***************************************************************************)
EXTENDS Naturals, Sequences

CONSTANTS
    Conns,          \* connections
    Dialed,         \* those this endpoint dialled: NewQUICClient has one
    Publishers,     \* goroutines that call PublishRemote
    MaxEvents       \* bound: events one publisher publishes

ASSUME TransportAssumption == Dialed \subseteq Conns /\ MaxEvents \in Nat

\* The frame of the n-th event of p on the connection c.
Frames == Publishers \X (1..MaxEvents) \X Conns

VARIABLES
    link,       \* how far a connection got: in the accept queue, handed to
                \* handleConn, served, given up
    alive,      \* connections neither end has closed and no timeout ended
    peers,      \* QUIC.peers
    closed,     \* Close has run
    ppc, n,     \* a publisher's program counter and event number
    asked,      \* the connections its PublishRemote addresses
    waiting,    \* those that have not answered on the results channel
    failed,     \* those that answered with an error
    sends,      \* frames a publishTo goroutine is still sending
    wire,       \* complete frames, each on a stream of its own
    got,        \* events each far end has dispatched, in order
    verdict,    \* what the last PublishRemote returned
    written     \* history: frames written with their stream's write side closed

connVars == <<link, alive, peers, closed>>
pubVars  == <<ppc, n, asked, waiting, failed, verdict>>
vars     == <<connVars, pubVars, sends, wire, got, written>>

-----------------------------------------------------------------------------
(* Connections.                                                            *)

\* A handshake completes while the listener is open.
Connect(c) ==
    /\ link[c] = "none" /\ ~closed
    /\ link' = [link EXCEPT ![c] = "queued"]
    /\ alive' = alive \cup {c}
    /\ UNCHANGED <<peers, closed, pubVars, sends, wire, got, written>>

\* acceptLoop.  A closed listener still hands out what its queue holds.
Accept(c) ==
    /\ link[c] = "queued"
    /\ link' = [link EXCEPT ![c] = "accepted"]
    /\ UNCHANGED <<alive, peers, closed, pubVars, sends, wire, got, written>>

\* handleConn gets to run.
HandleConn(c) ==
    /\ link[c] = "accepted"
    /\ link' = [link EXCEPT ![c] = "serving"]
    /\ peers' = peers \cup {c}
    /\ UNCHANGED <<alive, closed, pubVars, sends, wire, got, written>>

\* The far end hangs up or the connection times out.
ConnDies(c) ==
    /\ c \in alive
    /\ alive' = alive \ {c}
    /\ UNCHANGED <<link, peers, closed, pubVars, sends, wire, got, written>>

\* Mutant of Evicted: a dead connection stays in the set.
EvictedNone(c) == {}

Evicted(c) == {c}

\* AcceptStream fails in handleConn.
EndConn(c) ==
    /\ link[c] = "serving" /\ c \notin alive
    /\ link' = [link EXCEPT ![c] = "done"]
    /\ peers' = peers \ Evicted(c)
    /\ UNCHANGED <<alive, closed, pubVars, sends, wire, got, written>>

\* The listener is closed, and every connection of the peer set.
Close ==
    /\ ~closed
    /\ closed' = TRUE
    /\ alive' = alive \ peers
    /\ peers' = {}
    /\ UNCHANGED <<link, pubVars, sends, wire, got, written>>

-----------------------------------------------------------------------------
(* PublishRemote.                                                          *)

\* Snapshot the peers and start one send for each.
PublishRemote(p) ==
    /\ ppc[p] = "idle" /\ n[p] < MaxEvents
    /\ n' = [n EXCEPT ![p] = @ + 1]
    /\ asked' = [asked EXCEPT ![p] = peers]
    /\ waiting' = [waiting EXCEPT ![p] = peers]
    /\ failed' = [failed EXCEPT ![p] = {}]
    /\ IF peers = {}
         THEN /\ verdict' = [verdict EXCEPT ![p] = "ErrNoPeer"]
              /\ UNCHANGED <<ppc, sends>>
         ELSE /\ ppc' = [ppc EXCEPT ![p] = "collect"]
              /\ sends' = sends \cup {<<p, n[p] + 1, c>> : c \in peers}
              /\ UNCHANGED verdict
    /\ UNCHANGED <<connVars, wire, got, written>>

\* The goroutine of f puts its result on the channel of its own publish,
\* which its publisher may have stopped reading.
Awaited(f) == ppc[f[1]] = "collect" /\ n[f[1]] = f[2]

Answer(f) ==
    waiting' = IF Awaited(f) THEN [waiting EXCEPT ![f[1]] = @ \ {f[3]}]
                             ELSE waiting

\* publishTo succeeds.
SendDone(f) ==
    /\ f \in sends /\ f[3] \in alive
    /\ sends' = sends \ {f}
    /\ wire' = wire \cup {f}
    /\ written' = written \cup {f}
    /\ Answer(f)
    /\ UNCHANGED <<connVars, ppc, n, asked, failed, verdict, got>>

\* publishTo fails: to open the stream, to write the frame (the far end then
\* drops what it has read), or to close the stream, with the frame out.
SendFail(f) ==
    /\ f \in sends
    /\ sends' = sends \ {f}
    /\ wire' \in {wire} \cup {wire \cup {f} : c \in {f[3]} \cap alive}
    /\ Answer(f)
    /\ failed' = IF Awaited(f) THEN [failed EXCEPT ![f[1]] = @ \cup {f[3]}]
                               ELSE failed
    /\ UNCHANGED <<connVars, ppc, n, asked, verdict, got, written>>

\* Mutant of Confirmed: a peer that has not answered counts as reached.
ConfirmedUnlessFailed(p) == failed[p] = {}

Confirmed(p) == failed[p] = {} /\ waiting[p] = {}

Return(p) ==
    /\ ppc' = [ppc EXCEPT ![p] = "idle"]
    /\ verdict' = [verdict EXCEPT ![p] =
                     IF Confirmed(p) THEN "nil" ELSE "PublishIncomplete"]
    /\ UNCHANGED <<connVars, n, asked, waiting, failed, sends, wire, got, written>>

\* All the results are in.
Collected(p) == ppc[p] = "collect" /\ waiting[p] = {} /\ Return(p)

\* Mutant of WindowCloses: the wait for the results has no bound.
WindowNever(p) == FALSE /\ Return(p)

\* PublishConfirmTimeout expires; the sends go on.
WindowCloses(p) == ppc[p] = "collect" /\ waiting[p] # {} /\ Return(p)

\* handleStream at the far end: whichever goroutine is scheduled first.
Receive(f) ==
    /\ f \in wire
    /\ wire' = wire \ {f}
    /\ got' = [got EXCEPT ![f[3]] = Append(@, <<f[1], f[2]>>)]
    /\ UNCHANGED <<connVars, pubVars, sends, written>>

\* A dead connection loses what its far end has not read.
Lose(f) ==
    /\ f \in wire /\ f[3] \notin alive
    /\ wire' = wire \ {f}
    /\ UNCHANGED <<connVars, pubVars, sends, got, written>>

-----------------------------------------------------------------------------
\* Mutant of Seeded: handleConn alone adds peers.
SeededNone == {}

\* NewQUICClient enters its connection itself; a server starts with none.
Seeded == Dialed

Init ==
    /\ link = [c \in Conns |-> IF c \in Dialed THEN "accepted" ELSE "none"]
    /\ alive = Dialed /\ peers = Seeded /\ closed = FALSE
    /\ ppc = [p \in Publishers |-> "idle"] /\ n = [p \in Publishers |-> 0]
    /\ asked = [p \in Publishers |-> {}] /\ waiting = [p \in Publishers |-> {}]
    /\ failed = [p \in Publishers |-> {}]
    /\ verdict = [p \in Publishers |-> ""]
    /\ sends = {} /\ wire = {} /\ written = {}
    /\ got = [c \in Conns |-> <<>>]

ConnStep(c) ==
    Connect(c) \/ Accept(c) \/ HandleConn(c) \/ ConnDies(c) \/ EndConn(c)
PubStep(p) == PublishRemote(p) \/ Collected(p) \/ WindowCloses(p)
FrameStep(f) == SendDone(f) \/ SendFail(f) \/ Receive(f) \/ Lose(f)

Next ==
    \/ \E c \in Conns : ConnStep(c)
    \/ Close
    \/ \E p \in Publishers : PubStep(p)
    \/ \E f \in Frames : FrameStep(f)

Spec == Init /\ [][Next]_vars

\* Goroutines are scheduled and the window's timer fires.  Nothing is assumed
\* of the network: a send may hang for longer than the window.
Fairness ==
    /\ \A p \in Publishers : WF_vars(Collected(p)) /\ WF_vars(WindowCloses(p))
    /\ \A c \in Conns : WF_vars(HandleConn(c)) /\ WF_vars(EndConn(c))

FairSpec == Spec /\ Fairness

-----------------------------------------------------------------------------
(* Properties.                                                             *)

\* The types; the result a publisher counts is that of a peer it addressed.
TypeOK ==
    /\ link \in [Conns -> {"none", "queued", "accepted", "serving", "done"}]
    /\ alive \subseteq Conns /\ peers \subseteq Conns /\ closed \in BOOLEAN
    /\ ppc \in [Publishers -> {"idle", "collect"}]
    /\ n \in [Publishers -> 0..MaxEvents]
    /\ asked \in [Publishers -> SUBSET Conns]
    /\ waiting \in [Publishers -> SUBSET Conns]
    /\ failed \in [Publishers -> SUBSET Conns]
    /\ \A p \in Publishers : waiting[p] \cup failed[p] \subseteq asked[p]
    /\ verdict \in [Publishers -> {"", "nil", "ErrNoPeer", "PublishIncomplete"}]
    /\ sends \subseteq Frames /\ wire \subseteq Frames /\ written \subseteq Frames
    /\ got \in [Conns -> Seq(Publishers \X (1..MaxEvents))]

\* PublishRemote returns nil only when "every peer's frame was marshalled,
\* written and its write side closed", however late each send goroutine is
\* scheduled and whatever earlier publishes left running.
NilMeansWritten ==
    \A p \in Publishers :
        ppc[p] = "idle" /\ verdict[p] = "nil"
        => \A c \in asked[p] : <<p, n[p], c>> \in written

\* The connection a client dialled is its peer from the start and for as long
\* as it lives: a first request never finds nobody to send to.
DialedIsPeer == Dialed \cap alive \subseteq peers

\* An unresponsive peer delays a publisher by one window at most, and a
\* connection that died leaves the peer set, where it would delay every publish.
PublishReturns ==
    /\ \A p \in Publishers : ppc[p] = "collect" ~> ppc[p] = "idle"
    /\ \A c \in Conns : c \in peers \ alive ~> c \notin peers

\* Close leaves no live peer behind: "a Close that shut only one would leak
\* the rest".
ClosedHasNoPeer == closed => peers \cap alive = {}

\* A far end dispatches one publisher's events in the order of publication.
RemoteOrderKept ==
    \A c \in Conns : \A i, j \in DOMAIN got[c] :
        i < j /\ got[c][i][1] = got[c][j][1] => got[c][i][2] < got[c][j][2]
=============================================================================
