-------------------------- MODULE TransportProofs ---------------------------
(***************************************************************************)
(* Proofs about the transport, for any number of connections, publishers   *)
(* and events.                                                             *)
(***************************************************************************)
EXTENDS Transport, TLAPS

\* The parts of a frame.
LEMMA FrameParts ==
  ASSUME NEW f \in Frames
  PROVE  /\ f[1] \in Publishers /\ f[2] \in 1..MaxEvents /\ f[3] \in Conns
         /\ f = <<f[1], f[2], f[3]>>
  BY DEF Frames

-----------------------------------------------------------------------------
(* What a publisher may conclude.  NilMeansWritten needs the same of a     *)
(* publish under way: a peer that answered without an error was written    *)
(* to.  That the answers are those of this publish needs to know that no   *)
(* goroutine still sends a frame of the future.                            *)

SendsArePast ==
    \A f \in sends : f[2] <= n[f[1]] /\ (f[2] = n[f[1]] => f[3] \in asked[f[1]])

AnsweredIsWritten ==
    \A p \in Publishers :
        ppc[p] = "collect"
        => \A c \in asked[p] \ (waiting[p] \cup failed[p]) :
              <<p, n[p], c>> \in written

PublishInv ==
    TypeOK /\ SendsArePast /\ AnsweredIsWritten /\ NilMeansWritten

\* A new publish.
LEMMA PublishStarts ==
  ASSUME PublishInv, NEW p \in Publishers, PublishRemote(p)
  PROVE  PublishInv'
  <1> USE TransportAssumption DEF PublishInv
  <1> DEFINE fresh == {<<p, n[p] + 1, c>> : c \in peers}
  <1>1. /\ n[p] \in 0..MaxEvents /\ n[p] + 1 \in 1..MaxEvents /\ peers \subseteq Conns
        /\ n' = [n EXCEPT ![p] = n[p] + 1] /\ n'[p] = n[p] + 1
        /\ asked'[p] = peers /\ waiting'[p] = peers /\ failed'[p] = {}
        /\ \A q \in Publishers \ {p} :
              /\ n'[q] = n[q] /\ asked'[q] = asked[q] /\ waiting'[q] = waiting[q]
              /\ failed'[q] = failed[q] /\ ppc'[q] = ppc[q] /\ verdict'[q] = verdict[q]
    <2>1. /\ p \in Publishers
          /\ n \in [Publishers -> 0..MaxEvents] /\ peers \subseteq Conns
          /\ asked \in [Publishers -> SUBSET Conns]
          /\ waiting \in [Publishers -> SUBSET Conns]
          /\ failed \in [Publishers -> SUBSET Conns]
          /\ ppc \in [Publishers -> {"idle", "collect"}]
          /\ verdict \in [Publishers -> {"", "nil", "ErrNoPeer", "PublishIncomplete"}]
      BY DEF TypeOK
    <2>2. /\ n[p] < MaxEvents /\ n' = [n EXCEPT ![p] = n[p] + 1]
          /\ asked' = [asked EXCEPT ![p] = peers]
          /\ waiting' = [waiting EXCEPT ![p] = peers]
          /\ failed' = [failed EXCEPT ![p] = {}]
          /\ ppc' = ppc \/ ppc' = [ppc EXCEPT ![p] = "collect"]
          /\ verdict' = verdict \/ verdict' = [verdict EXCEPT ![p] = "ErrNoPeer"]
      BY DEF PublishRemote
    <2>3. n[p] \in 0..MaxEvents /\ n[p] + 1 \in 1..MaxEvents
      <3>1. n[p] \in 0..MaxEvents
        BY ONLY <2>1
      <3>2. n[p] < MaxEvents
        BY ONLY <2>2
      <3> QED BY ONLY <3>1, <3>2, TransportAssumption
    <2> QED BY ONLY <2>1, <2>2, <2>3
  <1>2. UNCHANGED <<connVars, wire, got, written>>
    BY DEF PublishRemote
  <1>3. sends' \subseteq sends \cup fresh
    BY DEF PublishRemote
  <1>4. fresh \subseteq Frames
    BY <1>1 DEF Frames
  <1>5. TypeOK'
    <2>1. /\ asked' \in [Publishers -> SUBSET Conns]
          /\ waiting' \in [Publishers -> SUBSET Conns]
          /\ failed' \in [Publishers -> SUBSET Conns]
          /\ n' \in [Publishers -> 0..MaxEvents]
      <3>1. /\ n \in [Publishers -> 0..MaxEvents] /\ peers \subseteq Conns
            /\ asked \in [Publishers -> SUBSET Conns]
            /\ waiting \in [Publishers -> SUBSET Conns]
            /\ failed \in [Publishers -> SUBSET Conns]
        BY DEF TypeOK
      <3>2. /\ asked' = [asked EXCEPT ![p] = peers]
            /\ waiting' = [waiting EXCEPT ![p] = peers]
            /\ failed' = [failed EXCEPT ![p] = {}]
        BY DEF PublishRemote
      <3>3. n[p] + 1 \in 0..MaxEvents
        BY ONLY <1>1, TransportAssumption
      <3> QED BY ONLY <1>1, <3>1, <3>2, <3>3
    <2>2. /\ ppc' \in [Publishers -> {"idle", "collect"}]
          /\ verdict' \in [Publishers -> {"", "nil", "ErrNoPeer", "PublishIncomplete"}]
      BY DEF PublishRemote, TypeOK
    <2>3. \A q \in Publishers : waiting'[q] \cup failed'[q] \subseteq asked'[q]
      BY <1>1 DEF TypeOK
    <2> QED BY <1>2, <1>3, <1>4, <2>1, <2>2, <2>3 DEF TypeOK, connVars
  <1>6. SendsArePast'
    <2> SUFFICES ASSUME NEW f \in sends'
                 PROVE  f[2] <= n'[f[1]] /\ (f[2] = n'[f[1]] => f[3] \in asked'[f[1]])
      BY DEF SendsArePast
    <2>1. CASE f \in fresh
      BY <1>1, <2>1
    <2>2. CASE f \in sends
      <3>1. f[1] \in Publishers /\ f[2] \in Nat /\ n[f[1]] \in Nat
        <4>1. f \in Frames /\ n \in [Publishers -> 0..MaxEvents]
          BY <2>2 DEF TypeOK
        <4> QED BY ONLY <4>1, FrameParts, TransportAssumption
      <3> QED BY <1>1, <2>2, <3>1 DEF SendsArePast
    <2> QED BY <1>3, <2>1, <2>2
  <1>7. AnsweredIsWritten'
    BY <1>1, <1>2 DEF AnsweredIsWritten
  <1>8. NilMeansWritten'
    <2>1. ppc'[p] = "idle" => verdict'[p] = "ErrNoPeer"
      BY DEF PublishRemote, TypeOK
    <2> QED BY <1>1, <1>2, <2>1 DEF NilMeansWritten
  <1> QED BY <1>5, <1>6, <1>7, <1>8

\* A send ends.
LEMMA SendEnds ==
  ASSUME PublishInv, NEW f \in Frames, SendDone(f) \/ SendFail(f)
  PROVE  PublishInv'
  <1> USE TransportAssumption DEF PublishInv
  <1>1. /\ f[1] \in Publishers /\ f[3] \in Conns /\ f \in sends
        /\ f = <<f[1], f[2], f[3]>>
    BY FrameParts DEF SendDone, SendFail
  <1>2. UNCHANGED <<connVars, ppc, n, asked, verdict, got>> /\ sends' = sends \ {f}
        /\ wire' \subseteq wire \cup {f} /\ written \subseteq written'
        /\ written' \subseteq written \cup {f}
    BY DEF SendDone, SendFail
  <1>3. /\ waiting' \in [Publishers -> SUBSET Conns]
        /\ \A q \in Publishers : waiting'[q] \subseteq waiting[q]
        /\ \A q \in Publishers, c \in Conns :
              c \in waiting[q] \ waiting'[q]
              => Awaited(f) /\ q = f[1] /\ c = f[3]
    <2>1. waiting \in [Publishers -> SUBSET Conns] /\ Answer(f)
      BY DEF SendDone, SendFail, TypeOK
    <2> QED BY <1>1, <2>1 DEF Answer
  <1>4. /\ failed' \in [Publishers -> SUBSET Conns]
        /\ \A q \in Publishers : failed[q] \subseteq failed'[q]
        /\ \A q \in Publishers, c \in Conns :
              c \in failed'[q] \ failed[q] => Awaited(f) /\ q = f[1] /\ c = f[3]
        /\ SendFail(f) /\ Awaited(f) => f[3] \in failed'[f[1]]
    <2>1. failed \in [Publishers -> SUBSET Conns]
      BY DEF TypeOK
    <2>2. \/ failed' = failed /\ ~(SendFail(f) /\ Awaited(f))
          \/ /\ failed' = [failed EXCEPT ![f[1]] = @ \cup {f[3]}]
             /\ Awaited(f)
      <3>1. CASE SendFail(f)
        BY <3>1 DEF SendFail
      <3>2. CASE SendDone(f) /\ ~SendFail(f)
        BY <3>2 DEF SendDone
      <3> QED BY <3>1, <3>2
    <2> QED BY <1>1, <2>1, <2>2
  <1>5. Awaited(f) => f[3] \in asked[f[1]] /\ f[2] = n[f[1]] /\ ppc[f[1]] = "collect"
    BY <1>1 DEF SendsArePast, Awaited
  <1>6. TypeOK'
    <2>1. \A q \in Publishers : waiting'[q] \cup failed'[q] \subseteq asked[q]
      <3> SUFFICES ASSUME NEW q \in Publishers, NEW c \in waiting'[q] \cup failed'[q]
                   PROVE  c \in asked[q]
        OBVIOUS
      <3>1. c \in Conns /\ waiting[q] \cup failed[q] \subseteq asked[q]
        BY <1>3, <1>4 DEF TypeOK
      <3> QED BY ONLY <1>3, <1>4, <1>5, <3>1
    <2> QED BY <1>1, <1>2, <1>3, <1>4, <2>1 DEF TypeOK, connVars
  <1>7. SendsArePast'
    BY <1>2 DEF SendsArePast
  <1>8. AnsweredIsWritten'
    <2> SUFFICES ASSUME NEW q \in Publishers, ppc[q] = "collect",
                        NEW c \in asked[q], c \notin waiting'[q], c \notin failed'[q]
                 PROVE  <<q, n[q], c>> \in written'
      BY <1>2 DEF AnsweredIsWritten
    <2>1. c \in Conns /\ c \notin failed[q]
      BY <1>4 DEF TypeOK
    <2>2. CASE c \notin waiting[q]
      BY <1>2, <2>1, <2>2 DEF AnsweredIsWritten
    <2>3. CASE c \in waiting[q]
      <3>1. Awaited(f) /\ q = f[1] /\ c = f[3] /\ n[q] = f[2]
        BY <1>3, <1>5, <2>1, <2>3
      <3>2. SendDone(f)
        BY <1>4, <3>1
      <3>3. f \in written'
        BY <3>2 DEF SendDone
      <3> QED BY <1>1, <3>1, <3>3
    <2> QED BY <2>2, <2>3
  <1>9. NilMeansWritten'
    BY <1>2 DEF NilMeansWritten
  <1> QED BY <1>6, <1>7, <1>8, <1>9

\* PublishRemote returns.
LEMMA PublishEnds ==
  ASSUME PublishInv, NEW p \in Publishers, Collected(p) \/ WindowCloses(p)
  PROVE  PublishInv'
  <1> USE DEF PublishInv
  <1>1. ppc[p] = "collect" /\ Return(p)
    BY DEF Collected, WindowCloses
  <1>2. UNCHANGED <<connVars, n, asked, waiting, failed, sends, wire, got, written>>
    BY <1>1 DEF Return
  <1>3. TypeOK'
    BY <1>1, <1>2 DEF Return, TypeOK, connVars
  <1>4. SendsArePast' /\ AnsweredIsWritten'
    BY <1>1, <1>2 DEF Return, SendsArePast, AnsweredIsWritten, TypeOK
  <1>5. NilMeansWritten'
    <2>1. verdict'[p] = "nil" => failed[p] = {} /\ waiting[p] = {}
      BY <1>1 DEF Return, Confirmed, TypeOK
    <2>2. verdict'[p] = "nil" => \A c \in asked[p] : <<p, n[p], c>> \in written
      BY <1>1, <2>1 DEF AnsweredIsWritten
    <2> QED BY <1>1, <1>2, <2>2 DEF Return, NilMeansWritten, TypeOK
  <1> QED BY <1>3, <1>4, <1>5

\* Every step.
LEMMA PublishStep == PublishInv /\ [Next]_vars => PublishInv'
  <1> SUFFICES ASSUME PublishInv, [Next]_vars PROVE PublishInv'
    OBVIOUS
  <1>1. ASSUME NEW c \in Conns, ConnStep(c) PROVE PublishInv'
    <2>1. UNCHANGED <<pubVars, sends, wire, got, written>>
      BY <1>1 DEF ConnStep, Connect, Accept, HandleConn, ConnDies, EndConn
    <2>2. /\ link' \in [Conns -> {"none", "queued", "accepted", "serving", "done"}]
          /\ alive' \subseteq Conns /\ peers' \subseteq Conns /\ closed' \in BOOLEAN
      <3>1. /\ link \in [Conns -> {"none", "queued", "accepted", "serving", "done"}]
            /\ alive \subseteq Conns /\ peers \subseteq Conns /\ closed \in BOOLEAN
        BY DEF PublishInv, TypeOK
      <3>2. CASE Connect(c)
        BY ONLY <3>1, <3>2, <1>1 DEF Connect
      <3>3. CASE Accept(c)
        BY ONLY <3>1, <3>3, <1>1 DEF Accept
      <3>4. CASE HandleConn(c)
        BY ONLY <3>1, <3>4, <1>1 DEF HandleConn
      <3>5. CASE ConnDies(c) \/ EndConn(c)
        BY ONLY <3>1, <3>5, <1>1 DEF ConnDies, EndConn
      <3> QED BY <1>1, <3>2, <3>3, <3>4, <3>5 DEF ConnStep
    <2> QED BY <2>1, <2>2 DEF PublishInv, TypeOK, pubVars, SendsArePast,
                              AnsweredIsWritten, NilMeansWritten
  <1>2. CASE Close \/ UNCHANGED vars
    <2>1. UNCHANGED <<link, pubVars, sends, wire, got, written>>
          /\ alive' \subseteq alive /\ peers' \subseteq peers /\ closed' \in {closed, TRUE}
      BY <1>2 DEF Close, vars, connVars
    <2> QED BY <2>1 DEF PublishInv, TypeOK, pubVars, SendsArePast,
                        AnsweredIsWritten, NilMeansWritten
  <1>3. ASSUME NEW p \in Publishers, PubStep(p) PROVE PublishInv'
    BY <1>3, PublishStarts, PublishEnds DEF PubStep
  <1>4. ASSUME NEW f \in Frames, Receive(f) \/ Lose(f) PROVE PublishInv'
    <2>1. UNCHANGED <<connVars, pubVars, sends, written>> /\ wire' \subseteq wire
      BY <1>4 DEF Receive, Lose
    <2>2. got' \in [Conns -> Seq(Publishers \X (1..MaxEvents))]
      <3>1. f[3] \in Conns /\ <<f[1], f[2]>> \in Publishers \X (1..MaxEvents)
        BY FrameParts
      <3>2. got \in [Conns -> Seq(Publishers \X (1..MaxEvents))]
        BY DEF PublishInv, TypeOK
      <3>3. CASE Lose(f)
        BY <3>2, <3>3 DEF Lose
      <3>4. CASE Receive(f)
        <4>1. Append(got[f[3]], <<f[1], f[2]>>) \in Seq(Publishers \X (1..MaxEvents))
          BY ONLY <3>1, <3>2
        <4>2. got' = [got EXCEPT ![f[3]] = Append(got[f[3]], <<f[1], f[2]>>)]
          BY <3>4 DEF Receive
        <4> QED BY ONLY <3>2, <4>1, <4>2
      <3> QED BY <1>4, <3>3, <3>4
    <2> QED BY <2>1, <2>2 DEF PublishInv, TypeOK, pubVars, connVars, SendsArePast,
                              AnsweredIsWritten, NilMeansWritten
  <1>5. ASSUME NEW f \in Frames, SendDone(f) \/ SendFail(f) PROVE PublishInv'
    BY <1>5, SendEnds
  <1> QED BY <1>1, <1>2, <1>3, <1>4, <1>5 DEF Next, FrameStep

\* The initial state.
LEMMA PublishInit == Init => PublishInv
  <1> SUFFICES ASSUME Init PROVE PublishInv
    OBVIOUS
  <1>1. TypeOK
    <2>1. link \in [Conns -> {"none", "queued", "accepted", "serving", "done"}]
      BY DEF Init
    <2>2. got \in [Conns -> Seq(Publishers \X (1..MaxEvents))]
      <3>1. <<>> \in Seq(Publishers \X (1..MaxEvents))
        OBVIOUS
      <3>2. got = [c \in Conns |-> <<>>]
        BY DEF Init
      <3> QED BY ONLY <3>1, <3>2
    <2>3. alive = Dialed /\ peers = Dialed /\ closed = FALSE
      BY DEF Init, Seeded
    <2>4. /\ ppc = [p \in Publishers |-> "idle"] /\ n = [p \in Publishers |-> 0]
          /\ asked = [p \in Publishers |-> {}] /\ waiting = [p \in Publishers |-> {}]
          /\ failed = [p \in Publishers |-> {}] /\ verdict = [p \in Publishers |-> ""]
          /\ sends = {} /\ wire = {} /\ written = {}
      BY DEF Init
    <2>5. n \in [Publishers -> 0..MaxEvents]
      <3>1. 0 \in 0..MaxEvents
        BY ONLY TransportAssumption
      <3>2. n = [p \in Publishers |-> 0]
        BY DEF Init
      <3> QED BY ONLY <3>1, <3>2
    <2>6. /\ ppc \in [Publishers -> {"idle", "collect"}]
          /\ asked \in [Publishers -> SUBSET Conns]
          /\ waiting \in [Publishers -> SUBSET Conns]
          /\ failed \in [Publishers -> SUBSET Conns]
          /\ verdict \in [Publishers -> {"", "nil", "ErrNoPeer", "PublishIncomplete"}]
          /\ \A p \in Publishers : waiting[p] \cup failed[p] \subseteq asked[p]
      BY ONLY <2>4
    <2> QED BY ONLY <2>1, <2>2, <2>3, <2>4, <2>5, <2>6, TransportAssumption DEF TypeOK
  <1>2. SendsArePast /\ AnsweredIsWritten /\ NilMeansWritten
    BY DEF Init, SendsArePast, AnsweredIsWritten, NilMeansWritten
  <1> QED BY <1>1, <1>2 DEF PublishInv

\* The transport keeps its types, and counts the result of a peer only for
\* the publish that addressed it.
THEOREM TransportTypeCorrect == Spec => []TypeOK
  BY PublishInit, PublishStep, PTL DEF Spec, PublishInv

\* A nil PublishRemote was written to every peer of its snapshot.
THEOREM NilIsHonest == Spec => []NilMeansWritten
  BY PublishInit, PublishStep, PTL DEF Spec, PublishInv

-----------------------------------------------------------------------------
(* A client's own peer.                                                    *)

DialInv == DialedIsPeer /\ \A c \in Dialed : link[c] # "none"

\* Every step keeps the client's peer.
LEMMA DialStep == TypeOK /\ DialInv /\ [Next]_vars => DialInv'
  <1> SUFFICES ASSUME TypeOK, DialInv, [Next]_vars PROVE DialInv'
    OBVIOUS
  <1> USE TransportAssumption DEF DialInv, DialedIsPeer
  <1>1. ASSUME NEW c \in Conns, ConnStep(c) PROVE DialInv'
    <2>1. link \in [Conns -> {"none", "queued", "accepted", "serving", "done"}]
      BY DEF TypeOK
    <2>2. CASE Connect(c)
      BY <2>1, <2>2 DEF Connect
    <2>3. CASE Accept(c)
      BY <2>1, <2>3 DEF Accept
    <2>4. CASE HandleConn(c)
      BY <2>1, <2>4 DEF HandleConn
    <2>5. CASE ConnDies(c)
      BY <2>1, <2>5 DEF ConnDies
    <2>6. CASE EndConn(c)
      BY <2>1, <2>6 DEF EndConn, Evicted
    <2> QED BY <1>1, <2>2, <2>3, <2>4, <2>5, <2>6 DEF ConnStep
  <1>2. CASE Close
    BY <1>2 DEF Close
  <1>3. ASSUME UNCHANGED connVars PROVE DialInv'
    BY <1>3 DEF connVars
  <1>4. ASSUME NEW p \in Publishers, PubStep(p) PROVE UNCHANGED connVars
    BY <1>4 DEF PubStep, PublishRemote, Collected, WindowCloses, Return
  <1>5. ASSUME NEW f \in Frames, FrameStep(f) PROVE UNCHANGED connVars
    BY <1>5 DEF FrameStep, SendDone, SendFail, Receive, Lose
  <1> QED BY <1>1, <1>2, <1>3, <1>4, <1>5 DEF Next, vars

\* A client that has dialled finds its daemon in the peer set until the
\* connection ends, whenever handleConn is scheduled.
THEOREM ClientFindsDaemon == Spec => []DialedIsPeer
  <1>1. Init => DialInv
    BY TransportAssumption DEF Init, Seeded, DialInv, DialedIsPeer
  <1> QED BY <1>1, DialStep, TransportTypeCorrect, PTL DEF Spec, DialInv
=============================================================================
