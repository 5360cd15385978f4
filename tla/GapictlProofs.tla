---------------------------- MODULE GapictlProofs ----------------------------
(***************************************************************************)
(* Proofs about gapictl: its commands against the daemon, for any requests *)
(* and agents; the log streams of its terminal UI, for any number of       *)
(* streams and lines; and how it finds its daemon, for any daemons and     *)
(* PIDs.                                                                   *)
(***************************************************************************)
EXTENDS ControlClient, Tui, ControlAddr, SequenceTheorems, FiniteSetTheorems,
        WellFoundedInduction, TLAPS

-----------------------------------------------------------------------------
(* The commands.                                                           *)

\* Who may be where: a request under way carries its caller's identity, the
\* queues hold the callers of their kind, and what is served is a verb for an
\* agent that is known.
ClientFunctions ==
    /\ toDaemon \subseteq {Request(r, r) : r \in Requests}
    /\ verbQ \in Seq(Requests \ Reads) /\ readQ \in Seq(Reads)
    /\ serving # NoRequest => serving \in Requests \ Reads /\ Known(serving)
    /\ replying # "" => serving # NoRequest
    /\ managed \subseteq Agents
    /\ cpc \in [Requests -> {"idle", "published", "pending", "settling", "awaiting", "done"}]
    /\ served \in [Requests -> Nat]
    /\ DOMAIN toClient = Requests /\ DOMAIN verdict = Requests
    /\ \A r \in Requests : cpc[r] = "awaiting" => r \in Reads
    /\ \A r \in Reads : cpc[r] # "published" /\ cpc[r] # "pending" /\ cpc[r] # "settling"

\* Where a read may be before it is sent, and before the handlers are there:
\* nowhere.
ReadUnsent ==
    /\ readQ # <<>> => registered
    /\ \A r \in Reads : cpc[r] = "idle" =>
          Request(r, r) \notin toDaemon /\ \A i \in 1..Len(readQ) : readQ[i] # r
    /\ \A r \in Reads : cpc[r] = "idle" \/ ~registered => toClient[r] = {} /\ verdict[r] # "ok"

\* The handlers come after the boot; what a read is owed is in the registry, and
\* in every reply that is on its way to it.
ReadInv ==
    /\ registered => setup = "idle" \/ reloading
    /\ DOMAIN shown = Reads
    /\ \A r \in Reads : owed[r] \subseteq listed
    /\ \A r \in Reads : \A m \in toClient[r] : owed[r] \subseteq m.lists
    /\ ReadIsComplete

\* One send, one place: a verb is under way, queued, or served.
OneSend ==
    /\ \A r \in Requests \ Reads :
         /\ cpc[r] = "idle" => Request(r, r) \notin toDaemon
         /\ cpc[r] = "idle" \/ Request(r, r) \in toDaemon =>
              served[r] = 0 /\ \A i \in 1..Len(verbQ) : verbQ[i] # r
    /\ \A i \in 1..Len(verbQ) : served[verbQ[i]] = 0
    /\ \A i, j \in 1..Len(verbQ) : verbQ[i] = verbQ[j] => i = j

\* All that is ever said of an agent that is nowhere is FAILED.
UnknownFails ==
    \A r \in Requests \ Reads :
        Target[r] \notin Agents => \A m \in toClient[r] : m.state \in FailedStates

ClientInv ==
    ClientFunctions /\ ReadUnsent /\ ReadInv /\ OneSend /\ UnknownFails /\ VerbServedOnce

\* What an event of the daemon adds to a client's stream.
LEMMA EventsReach ==
  ASSUME NEW msgs, Events(msgs)
  PROVE  /\ DOMAIN toClient' = Requests
         /\ \A r \in Requests : \A m \in toClient'[r] :
               m \in toClient[r] \/ (m \in msgs /\ Concerns(m, r))
  BY DEF Events

\* A status reaches only the verbs' callers that name its agent.
LEMMA PublishesReach ==
  ASSUME NEW a, NEW q, NEW states, Publishes(a, q, states)
  PROVE  /\ DOMAIN toClient' = Requests
         /\ \A r \in Reads : \A m \in toClient'[r] : m \in toClient[r]
         /\ \A r \in Requests \ Reads : \A m \in toClient'[r] :
               m \in toClient[r] \/ (m.state \in states /\ Target[r] = a)
  <1> DEFINE msgs == {[agent |-> a, state |-> s, re |-> NoRequest, by |-> q, lists |-> {}] :
                      s \in states}
  <1>1. /\ DOMAIN toClient' = Requests
        /\ \A r \in Requests : \A m \in toClient'[r] :
              m \in toClient[r] \/ (m \in msgs /\ Concerns(m, r))
    BY EventsReach DEF Publishes
  <1>2. \A m \in msgs : m.re = NoRequest /\ m.agent = a /\ m.state \in states
    OBVIOUS
  <1> HIDE DEF msgs
  <1>3. \A r \in Reads : r \in Requests /\ r # NoRequest
    BY ClientAssumption DEF Reads
  <1>4. QED
    BY <1>1, <1>2, <1>3 DEF Concerns

\* Two requests are the same when their callers are.
LEMMA RequestCaller ==
  \A r, q : /\ Request(r, r).from = r /\ Request(r, r).id = r
            /\ Request(r, r) = Request(q, q) => r = q
  BY DEF Request

\* The verbs are kept while neither their way nor their handler moves.
LEMMA SendKept ==
  ASSUME OneSend, VerbServedOnce, UNCHANGED <<toDaemon, verbQ, served>>,
         \A r \in Requests \ Reads : cpc'[r] = "idle" => cpc[r] = "idle",
         \A r \in Requests \ Reads :
            Target[r] \notin Agents /\ Verb[r] # "query" /\ verdict'[r] = "ok"
            => verdict[r] = "ok"
  PROVE  OneSend' /\ VerbServedOnce'
  BY DEF OneSend, VerbServedOnce, Request

\* The reads are kept while the registry grows, and their replies and their
\* places only become fewer.
LEMMA ReadKept ==
  ASSUME ReadUnsent, ReadInv, UNCHANGED <<owed, shown>>, listed \subseteq listed',
         registered' => setup' = "idle" \/ reloading',
         registered => registered', readQ' # <<>> => registered',
         \A r \in Reads : \A i \in 1..Len(readQ') :
            readQ'[i] = r => \E j \in 1..Len(readQ) : readQ[j] = r,
         \A r \in Reads :
            /\ toClient'[r] \subseteq toClient[r]
            /\ verdict'[r] = "ok" => verdict[r] = "ok"
            /\ cpc'[r] = "idle" => cpc[r] = "idle"
            /\ cpc'[r] = "idle" /\ Request(r, r) \in toDaemon' => Request(r, r) \in toDaemon
  PROVE  ReadUnsent' /\ ReadInv'
  <1>1. ReadUnsent'
    <2>1. \A r : Request(r, r)' = Request(r, r)
      BY DEF Request
    <2>2. ASSUME NEW r \in Reads, cpc'[r] = "idle"
          PROVE  Request(r, r) \notin toDaemon' /\ \A i \in 1..Len(readQ') : readQ'[i] # r
      BY <2>2 DEF ReadUnsent
    <2>3. ASSUME NEW r \in Reads, cpc'[r] = "idle" \/ ~registered'
          PROVE  toClient'[r] = {} /\ verdict'[r] # "ok"
      BY <2>3 DEF ReadUnsent
    <2>4. QED
      BY <2>1, <2>2, <2>3 DEF ReadUnsent
  <1>2. ReadInv'
    BY DEF ReadInv, ReadIsComplete
  <1>3. QED
    BY <1>1, <1>2

\* A step of setupAgents, or its next run: the manager and the registry only
\* grow, and what moves to the clients are statuses of an agent that is started.
LEMMA SetupKept ==
  ASSUME ClientInv, Discovered \/ Sorted \/ Reload
                    \/ \E a \in Agents : Discover(a) \/ RegisterAgent(a) \/ StartAgent(a)
  PROVE  ClientInv'
  <1>1. ClientFunctions /\ ReadUnsent /\ ReadInv /\ OneSend /\ UnknownFails /\ VerbServedOnce
    BY DEF ClientInv
  <1>2. /\ UNCHANGED <<registered, verbQ, readQ, serving, replying, cpc, attempts, answer,
                       verdict, served, replied, owed, shown, toDaemon>>
        /\ managed \subseteq managed' /\ managed' \subseteq Agents /\ listed \subseteq listed'
        /\ registered => setup' = "idle" \/ reloading'
        /\ \/ UNCHANGED toClient
           \/ \E a \in Agents : \E states : Publishes(a, NoRequest, states)
    <2>1. CASE Discovered \/ Sorted \/ Reload
      BY <1>1, <2>1 DEF Discovered, Sorted, Reload, serveVars, clientVars, histVars,
                        ClientFunctions, ReadInv
    <2>2. CASE \E a \in Agents : Discover(a)
      <3>1. PICK a \in Agents : Discover(a)
        BY <2>2
      <3>2. managed' = managed \cup {a} /\ managed \subseteq Agents
        BY <1>1, <3>1 DEF Discover, ClientFunctions
      <3>3. QED
        BY <1>1, <3>1, <3>2 DEF Discover, clientVars, histVars, ReadInv
    <2>3. CASE \E a \in Agents : RegisterAgent(a)
      <3>1. PICK a \in Agents : RegisterAgent(a)
        BY <2>3
      <3>2. listed' = listed \/ listed' = listed \cup {a}
        BY <3>1 DEF RegisterAgent, AfterRegister
      <3>3. managed \subseteq Agents
        BY <1>1 DEF ClientFunctions
      <3>4. QED
        BY <1>1, <3>1, <3>2, <3>3 DEF RegisterAgent, serveVars, clientVars, histVars, ReadInv
    <2>4. CASE \E a \in Agents : StartAgent(a)
      <3>1. PICK a \in Agents : StartAgent(a)
        BY <2>4
      <3>2. UNCHANGED toClient \/ \E states : Publishes(a, NoRequest, states)
        BY <3>1 DEF StartAgent
      <3>3. QED
        BY <1>1, <3>1, <3>2 DEF StartAgent, serveVars, clientVars, histVars, ClientFunctions,
                                ReadInv
    <2>5. QED
      BY <2>1, <2>2, <2>3, <2>4
  <1>3. /\ DOMAIN toClient' = Requests
        /\ \A r \in Reads : \A m \in toClient'[r] : m \in toClient[r]
        /\ \A r \in Requests \ Reads : \A m \in toClient'[r] :
              m \in toClient[r] \/ Target[r] \in Agents
    <2>1. CASE UNCHANGED toClient
      BY <1>1, <2>1 DEF ClientFunctions
    <2>2. CASE \E a \in Agents : \E states : Publishes(a, NoRequest, states)
      BY <2>2, PublishesReach
    <2>3. QED
      BY <1>2, <2>1, <2>2
  <1>4. ClientFunctions'
    BY <1>1, <1>2, <1>3 DEF ClientFunctions, Known, Request
  <1>5. UnknownFails'
    BY <1>1, <1>3 DEF UnknownFails
  <1>6. ReadUnsent' /\ ReadInv'
    <2>1. readQ' # <<>> => registered'
      BY <1>1, <1>2 DEF ReadUnsent
    <2>2. QED
      BY <1>1, <1>2, <1>3, <2>1, ReadKept
  <1>7. OneSend' /\ VerbServedOnce'
    BY <1>1, <1>2, SendKept
  <1>8. QED
    BY <1>4, <1>5, <1>6, <1>7 DEF ClientInv

\* setupAgents ends: what a read is owed from then on is what is listed, and
\* those whose debt grows have no reply under way.
LEMMA SetupDoneKept ==
  ASSUME ClientInv, SetupDone
  PROVE  ClientInv'
  <1>1. ClientFunctions /\ ReadUnsent /\ ReadInv /\ OneSend /\ UnknownFails /\ VerbServedOnce
    BY DEF ClientInv
  <1>2. /\ UNCHANGED <<reloading, managed, listed, registered, agent, verbQ, readQ, serving,
                       replying, cpc, attempts, answer, verdict, served, replied, shown,
                       toDaemon, toClient>>
        /\ setup = "starting" /\ setup' = "idle"
        /\ owed' = [r \in Reads |-> IF ~reloading \/ cpc[r] = "idle" THEN listed ELSE owed[r]]
    BY DEF SetupDone, serveVars, clientVars
  <1>3. ClientFunctions' /\ UnknownFails'
    BY <1>1, <1>2 DEF ClientFunctions, UnknownFails, Known, Request
  <1>4. ReadUnsent'
    BY <1>1, <1>2 DEF ReadUnsent, Request
  <1>5. ReadInv'
    <2>1. ASSUME NEW r \in Reads
          PROVE  \/ owed'[r] = owed[r]
                 \/ owed'[r] = listed /\ toClient[r] = {} /\ verdict[r] # "ok"
      <3>1. ~reloading => ~registered
        BY <1>1, <1>2 DEF ReadInv
      <3>2. CASE ~reloading \/ cpc[r] = "idle"
        BY <1>1, <1>2, <3>1, <3>2 DEF ReadUnsent
      <3>3. CASE ~(~reloading \/ cpc[r] = "idle")
        BY <1>2, <3>3
      <3>4. QED
        BY <3>2, <3>3
    <2>2. \A r \in Reads : owed'[r] \subseteq listed'
      BY <1>1, <1>2, <2>1 DEF ReadInv
    <2>3. \A r \in Reads : \A m \in toClient'[r] : owed'[r] \subseteq m.lists
      BY <1>1, <1>2, <2>1 DEF ReadInv
    <2>4. ReadIsComplete'
      BY <1>1, <1>2, <2>1 DEF ReadInv, ReadIsComplete
    <2>5. QED
      BY <1>1, <1>2, <2>2, <2>3, <2>4 DEF ReadInv
  <1>6. OneSend' /\ VerbServedOnce'
    BY <1>1, <1>2, SendKept
  <1>7. QED
    BY <1>3, <1>4, <1>5, <1>6 DEF ClientInv

\* The handlers are subscribed, once the boot's run has ended.
LEMMA RegisterKept ==
  ASSUME ClientInv, Register
  PROVE  ClientInv'
  <1>1. ClientFunctions /\ ReadUnsent /\ ReadInv /\ OneSend /\ UnknownFails /\ VerbServedOnce
    BY DEF ClientInv
  <1>2. /\ UNCHANGED <<setup, reloading, managed, listed, agent, verbQ, readQ, serving,
                       replying, cpc, attempts, answer, verdict, served, replied, owed, shown,
                       toDaemon, toClient>>
        /\ setup = "idle" /\ registered' = TRUE
    BY DEF Register, MayRegister, setupVars, serveVars, clientVars, histVars
  <1>3. ClientFunctions' /\ UnknownFails'
    BY <1>1, <1>2 DEF ClientFunctions, UnknownFails, Known, Request
  <1>4. ReadUnsent' /\ ReadInv'
    BY <1>1, <1>2, ReadKept
  <1>5. OneSend' /\ VerbServedOnce'
    BY <1>1, <1>2, SendKept
  <1>6. QED
    BY <1>3, <1>4, <1>5 DEF ClientInv

\* A request reaches the daemon: it changes from the way to the queue.
LEMMA ArriveKept ==
  ASSUME ClientInv, NEW f \in toDaemon, Arrive(f)
  PROVE  ClientInv'
  <1>1. ClientFunctions /\ ReadUnsent /\ ReadInv /\ OneSend /\ UnknownFails /\ VerbServedOnce
    BY DEF ClientInv
  <1>2. /\ toDaemon' = toDaemon \ {f}
        /\ verbQ' = IF registered /\ f.from \notin Reads THEN Append(verbQ, f.from) ELSE verbQ
        /\ readQ' = IF registered /\ f.from \in Reads THEN Append(readQ, f.id) ELSE readQ
        /\ UNCHANGED <<setup, reloading, managed, listed, registered, agent, serving, replying,
                       cpc, attempts, answer, verdict, served, replied, owed, shown, toClient>>
    BY DEF Arrive, setupVars, clientVars, histVars
  <1>3. PICK q \in Requests : f = Request(q, q)
    BY <1>1 DEF ClientFunctions
  <1>4. f.from = q /\ f.id = q
    BY <1>3, RequestCaller
  <1>5. verbQ \in Seq(Requests \ Reads) /\ readQ \in Seq(Reads)
    BY <1>1 DEF ClientFunctions
  <1>6. verbQ' \in Seq(Requests \ Reads) /\ readQ' \in Seq(Reads)
    BY <1>2, <1>3, <1>4, <1>5
  <1>7. ClientFunctions'
    BY <1>1, <1>2, <1>6 DEF ClientFunctions, Known, Request
  <1>13. ReadUnsent'
    <2>1. readQ' # <<>> => registered
      BY <1>1, <1>2 DEF ReadUnsent
    <2>2. ASSUME NEW r \in Reads, cpc[r] = "idle"
          PROVE  Request(r, r) \notin toDaemon' /\ \A i \in 1..Len(readQ') : readQ'[i] # r
      <3>1. Request(r, r) \notin toDaemon /\ \A i \in 1..Len(readQ) : readQ[i] # r
        BY <1>1, <2>2 DEF ReadUnsent
      <3>2. q # r
        BY <1>3, <3>1
      <3>3. CASE readQ' = readQ
        BY <1>2, <3>1, <3>3
      <3>4. CASE q \in Reads /\ readQ' = Append(readQ, q)
        <4>1. \A i \in 1..Len(readQ') : \/ i \in 1..Len(readQ) /\ readQ'[i] = readQ[i]
                                       \/ readQ'[i] = q
          BY <1>5, <3>4
        <4>2. QED
          BY <1>2, <3>1, <3>2, <4>1
      <3>5. QED
        BY <1>2, <1>4, <3>3, <3>4
    <2>3. QED
      BY <1>1, <1>2, <2>1, <2>2 DEF ReadUnsent, Request
  <1>8. ReadInv'
    BY <1>1, <1>2 DEF ReadInv, ReadIsComplete
  <1>9. UnknownFails'
    BY <1>1, <1>2 DEF UnknownFails
  <1>10. CASE verbQ' = verbQ
    <2>1. \A r \in Requests : Request(r, r)' = Request(r, r)
      BY DEF Request
    <2>2. QED
      BY <1>1, <1>2, <1>7, <1>8, <1>9, <1>10, <1>13, <2>1
         DEF ClientInv, OneSend, VerbServedOnce
  <1>11. CASE q \notin Reads /\ verbQ' = Append(verbQ, q)
    <2>1. /\ Len(verbQ') = Len(verbQ) + 1 /\ verbQ'[Len(verbQ) + 1] = q /\ Len(verbQ) \in Nat
          /\ \A i \in 1..Len(verbQ) : verbQ'[i] = verbQ[i] /\ verbQ[i] \in Requests \ Reads
      BY <1>3, <1>5, <1>11
    <2>2. served[q] = 0 /\ \A i \in 1..Len(verbQ) : verbQ[i] # q
      BY <1>1, <1>3, <1>11 DEF OneSend
    <2>3. Request(q, q) \notin toDaemon' /\ cpc[q] # "idle"
      BY <1>1, <1>2, <1>3, <1>11 DEF OneSend
    <2>4. \A i \in 1..Len(verbQ') : i \in 1..Len(verbQ) \/ i = Len(verbQ) + 1
      BY <2>1
    <2>5. \A i \in 1..Len(verbQ') : served[verbQ'[i]] = 0
      BY <1>1, <2>1, <2>2, <2>4 DEF OneSend
    <2>6. \A i, j \in 1..Len(verbQ') : verbQ'[i] = verbQ'[j] => i = j
      BY <1>1, <2>1, <2>2, <2>4 DEF OneSend
    <2>7. ASSUME NEW r \in Requests \ Reads
          PROVE  /\ cpc[r] = "idle" => Request(r, r) \notin toDaemon'
                 /\ cpc[r] = "idle" \/ Request(r, r) \in toDaemon' =>
                      served[r] = 0 /\ \A i \in 1..Len(verbQ') : verbQ'[i] # r
      <3>1. CASE r = q
        BY <2>3, <3>1
      <3>2. CASE r # q
        BY <1>1, <1>2, <2>1, <2>4, <3>2 DEF OneSend
      <3>3. QED
        BY <3>1, <3>2
    <2>8. OneSend'
      BY <1>2, <2>5, <2>6, <2>7 DEF OneSend, Request
    <2>9. VerbServedOnce'
      BY <1>1, <1>2 DEF VerbServedOnce
    <2>10. QED
      BY <1>7, <1>8, <1>9, <1>13, <2>8, <2>9 DEF ClientInv
  <1>12. QED
    BY <1>2, <1>4, <1>10, <1>11

\* The status request is answered.
LEMMA HandleReadKept ==
  ASSUME ClientInv, HandleRead
  PROVE  ClientInv'
  <1>1. ClientFunctions /\ ReadUnsent /\ ReadInv /\ OneSend /\ UnknownFails /\ VerbServedOnce
    BY DEF ClientInv
  <1>2. /\ readQ # <<>> /\ readQ' = Tail(readQ)
        /\ Events({[agent |-> "", state |-> "list", re |-> Head(readQ), by |-> NoRequest,
                    lists |-> listed]})
        /\ UNCHANGED <<setup, reloading, managed, listed, registered, agent, verbQ, serving,
                       replying, cpc, attempts, answer, verdict, served, replied, owed, shown,
                       toDaemon>>
    BY DEF HandleRead, setupVars, clientVars, histVars
  <1>3. registered
    BY <1>1, <1>2 DEF ReadUnsent
  <1>4. /\ Head(readQ) # NoRequest /\ Head(readQ) \in Reads /\ Tail(readQ) \in Seq(Reads)
        /\ 1 \in 1..Len(readQ) /\ Head(readQ) = readQ[1]
        /\ \A i \in 1..Len(Tail(readQ)) : i + 1 \in 1..Len(readQ)
                                          /\ Tail(readQ)[i] = readQ[i + 1]
    <2>1. readQ \in Seq(Reads)
      BY <1>1 DEF ClientFunctions
    <2>2. readQ # <<>>
      BY <1>2
    <2>3. Head(readQ) \in Reads /\ Head(readQ) = readQ[1] /\ 1 \in 1..Len(readQ)
      BY <2>1, <2>2
    <2>4. /\ Tail(readQ) \in Seq(Reads)
          /\ \A i \in 1..Len(Tail(readQ)) : i + 1 \in 1..Len(readQ)
                                            /\ Tail(readQ)[i] = readQ[i + 1]
      BY <2>1, <2>2
    <2>5. Head(readQ) # NoRequest
      BY <2>3, ClientAssumption DEF Reads
    <2>6. QED
      BY <2>3, <2>4, <2>5
  <1>5. /\ DOMAIN toClient' = Requests
        /\ \A r \in Requests : \A m \in toClient'[r] :
              m \in toClient[r] \/ (m.lists = listed /\ m.re = Head(readQ) /\ Concerns(m, r))
    <2> DEFINE h    == Head(readQ)
               msgs == {[agent |-> "", state |-> "list", re |-> h, by |-> NoRequest,
                         lists |-> listed]}
    <2>1. /\ DOMAIN toClient' = Requests
          /\ \A r \in Requests : \A m \in toClient'[r] :
                m \in toClient[r] \/ (m \in msgs /\ Concerns(m, r))
      BY <1>2, EventsReach
    <2> HIDE DEF h
    <2>2. ASSUME NEW m \in msgs
          PROVE  m.lists = listed /\ m.re = h
      <3>1. m = [agent |-> "", state |-> "list", re |-> h, by |-> NoRequest, lists |-> listed]
        OBVIOUS
      <3>2. QED
        BY <3>1
    <2> HIDE DEF msgs
    <2>3. QED
      BY <2>1, <2>2 DEF h
  <1>6. ClientFunctions'
    BY <1>1, <1>2, <1>4, <1>5 DEF ClientFunctions, Known, Request
  <1>7. cpc[Head(readQ)] # "idle"
    BY <1>1, <1>4 DEF ReadUnsent
  <1>8. ReadUnsent'
    <2>1. ASSUME NEW r \in Reads, cpc[r] = "idle"
          PROVE  toClient'[r] = {} /\ \A i \in 1..Len(readQ') : readQ'[i] # r
      <3>1. toClient[r] = {} /\ r # Head(readQ) /\ r \in Requests
        BY <1>1, <1>7, <2>1 DEF ReadUnsent, Reads
      <3>2. toClient'[r] = {}
        BY <1>5, <2>1, <3>1 DEF Concerns
      <3>3. \A i \in 1..Len(readQ') : readQ'[i] # r
        <4>1. \A i \in 1..Len(readQ) : readQ[i] # r
          BY <1>1, <2>1 DEF ReadUnsent
        <4>2. \A i \in 1..Len(readQ') : i + 1 \in 1..Len(readQ) /\ readQ'[i] = readQ[i + 1]
          BY <1>2, <1>4
        <4>3. QED
          BY <4>1, <4>2
      <3>4. QED
        BY <3>2, <3>3
    <2>2. QED
      BY <1>1, <1>2, <1>3, <2>1 DEF ReadUnsent, Request
  <1>9. ReadInv'
    <2>1. \A r \in Reads : r \in Requests
      BY DEF Reads
    <2>2. \A r \in Reads : \A m \in toClient'[r] : owed[r] \subseteq m.lists
      BY <1>1, <1>5, <2>1 DEF ReadInv
    <2>3. QED
      BY <1>1, <1>2, <2>2 DEF ReadInv, ReadIsComplete
  <1>10. UnknownFails'
    BY <1>1, <1>4, <1>5 DEF UnknownFails, Concerns
  <1>11. OneSend' /\ VerbServedOnce'
    BY <1>1, <1>2, SendKept
  <1>12. QED
    BY <1>6, <1>8, <1>9, <1>10, <1>11 DEF ClientInv

\* A verb leaves the queue for its handler.
LEMMA HandleVerbKept ==
  ASSUME ClientInv, HandleVerb
  PROVE  ClientInv'
  <1> DEFINE q == Head(verbQ)
  <1>1. ClientFunctions /\ ReadUnsent /\ ReadInv /\ OneSend /\ UnknownFails /\ VerbServedOnce
    BY DEF ClientInv
  <1>2. /\ verbQ # <<>> /\ verbQ' = Tail(verbQ) /\ served' = [served EXCEPT ![q] = @ + 1]
        /\ UNCHANGED <<setup, reloading, managed, listed, registered, agent, readQ, replying,
                       owed, shown, cpc, attempts, answer, verdict, toDaemon>>
        /\ \/ Known(q) /\ Publishes(Target[q], q, {"PENDING"}) /\ serving' = q
           \/ ~Known(q) /\ Publishes(Target[q], q, {"FAILED"}) /\ serving' = serving
    BY DEF HandleVerb, setupVars, clientVars
  <1>3. /\ verbQ \in Seq(Requests \ Reads) /\ q \in Requests \ Reads /\ q = verbQ[1]
        /\ Tail(verbQ) \in Seq(Requests \ Reads) /\ Len(Tail(verbQ)) = Len(verbQ) - 1
        /\ Len(verbQ) \in Nat /\ Len(verbQ) >= 1
        /\ \A i \in 1..Len(Tail(verbQ)) : Tail(verbQ)[i] = verbQ[i + 1]
    <2>1. verbQ \in Seq(Requests \ Reads)
      BY <1>1 DEF ClientFunctions
    <2>2. /\ q \in Requests \ Reads /\ q = verbQ[1]
          /\ Len(verbQ) \in Nat /\ Len(verbQ) >= 1
      BY <1>2, <2>1
    <2>3. /\ Tail(verbQ) \in Seq(Requests \ Reads) /\ Len(Tail(verbQ)) = Len(verbQ) - 1
          /\ \A i \in 1..Len(Tail(verbQ)) : Tail(verbQ)[i] = verbQ[i + 1]
      BY <1>2, <2>1, HeadTailProperties
    <2>4. QED
      BY <2>1, <2>2, <2>3
  <1> HIDE DEF q
  <1>4. served[q] = 0 /\ served'[q] = 1
        /\ \A r \in Requests : r # q => served'[r] = served[r]
    <2>1. served \in [Requests -> Nat]
      BY <1>1 DEF ClientFunctions
    <2>2. 1 \in 1..Len(verbQ)
      BY <1>3
    <2>3. served[q] = 0
      BY <1>1, <1>3, <2>2 DEF OneSend
    <2>4. q \in Requests /\ served' = [served EXCEPT ![q] = @ + 1]
      BY <1>2, <1>3
    <2>5. QED
      BY <2>1, <2>3, <2>4
  <1>5. /\ DOMAIN toClient' = Requests
        /\ \A r \in Reads : \A m \in toClient'[r] : m \in toClient[r]
        /\ \A r \in Requests \ Reads : \A m \in toClient'[r] :
              m \in toClient[r] \/ (Target[r] = Target[q] /\ (Known(q) \/ m.state = "FAILED"))
    BY <1>2, PublishesReach
  <1>6. ClientFunctions'
    <2>1. served' \in [Requests -> Nat]
      <3>1. served \in [Requests -> Nat]
        BY <1>1 DEF ClientFunctions
      <3>2. q \in Requests /\ served' = [served EXCEPT ![q] = @ + 1]
        BY <1>2, <1>3
      <3>3. QED
        BY <3>1, <3>2
    <2>2. /\ serving' # NoRequest => serving' \in Requests \ Reads /\ Known(serving')
          /\ replying' # "" => serving' # NoRequest
      <3>1. CASE Known(q) /\ serving' = q
        BY <1>3, <3>1, ClientAssumption
      <3>2. CASE serving' = serving
        BY <1>1, <1>2, <3>2 DEF ClientFunctions
      <3>3. QED
        BY <1>2, <3>1, <3>2
    <2>3. QED
      BY <1>1, <1>2, <1>3, <1>5, <2>1, <2>2 DEF ClientFunctions, Known, Request
  <1>7. ReadUnsent' /\ ReadInv'
    <2>1. /\ readQ' # <<>> => registered'
          /\ registered' => setup' = "idle" \/ reloading'
      BY <1>1, <1>2 DEF ReadUnsent, ReadInv
    <2>2. QED
      BY <1>2, <1>1, <1>5, <2>1, ReadKept
  <1>8. UnknownFails'
    BY <1>1, <1>5 DEF UnknownFails, Known, FailedStates, ClientFunctions
  <1>9. \A i \in 1..Len(verbQ') :
           i + 1 \in 1..Len(verbQ) /\ verbQ'[i] = verbQ[i + 1] /\ verbQ'[i] # q
           /\ verbQ'[i] \in Requests
    <2>1. ASSUME NEW i \in 1..Len(verbQ')
          PROVE  i + 1 \in 1..Len(verbQ) /\ verbQ'[i] = verbQ[i + 1] /\ 1 \in 1..Len(verbQ)
                 /\ i + 1 # 1
      BY <1>2, <1>3
    <2>2. QED
      BY <1>1, <1>3, <2>1 DEF OneSend
  <1>10. OneSend'
    <2>1. \A i \in 1..Len(verbQ') : served'[verbQ'[i]] = 0
      BY <1>1, <1>4, <1>9 DEF OneSend
    <2>2. \A i, j \in 1..Len(verbQ') : verbQ'[i] = verbQ'[j] => i = j
      <3>1. ASSUME NEW i \in 1..Len(verbQ'), NEW j \in 1..Len(verbQ'), verbQ'[i] = verbQ'[j]
            PROVE  i = j
        <4>1. i + 1 = j + 1
          BY <1>1, <1>9, <3>1 DEF OneSend
        <4>2. QED
          BY <4>1
      <3>2. QED
        BY <3>1
    <2>3. \A r \in Requests \ Reads :
             cpc[r] = "idle" \/ Request(r, r) \in toDaemon => r # q
      <3>1. 1 \in 1..Len(verbQ)
        BY <1>3
      <3>2. QED
        BY <1>1, <1>3, <3>1 DEF OneSend
    <2>4. ASSUME NEW r \in Requests \ Reads, cpc[r] = "idle" \/ Request(r, r) \in toDaemon
          PROVE  served'[r] = 0 /\ \A i \in 1..Len(verbQ') : verbQ'[i] # r
      BY <1>1, <1>4, <1>9, <2>3, <2>4 DEF OneSend
    <2>5. QED
      BY <1>1, <1>2, <2>1, <2>2, <2>4 DEF OneSend, Request
  <1>11. VerbServedOnce'
    BY <1>1, <1>2, <1>4 DEF VerbServedOnce
  <1>12. QED
    BY <1>6, <1>7, <1>8, <1>10, <1>11 DEF ClientInv

\* The handler applies the verb, and replies.
LEMMA ServeKept ==
  ASSUME ClientInv, Apply \/ Reply
  PROVE  ClientInv'
  <1>1. ClientFunctions /\ ReadUnsent /\ ReadInv /\ OneSend /\ UnknownFails /\ VerbServedOnce
    BY DEF ClientInv
  <1>2. /\ serving # NoRequest /\ serving' \in {serving, NoRequest}
        /\ \E S : Publishes(Target[serving], serving, S)
        /\ replying' # "" => serving' # NoRequest
        /\ UNCHANGED <<setup, reloading, managed, listed, registered, verbQ, readQ, cpc,
                       attempts, answer, verdict, served, owed, shown, toDaemon>>
    BY <1>1 DEF Apply, Reply, setupVars, clientVars, histVars, ClientFunctions
  <1>3. Known(serving)
    BY <1>1, <1>2 DEF ClientFunctions
  <1>4. /\ DOMAIN toClient' = Requests
        /\ \A r \in Reads : \A m \in toClient'[r] : m \in toClient[r]
        /\ \A r \in Requests \ Reads : Target[r] \notin Agents =>
              \A m \in toClient'[r] : m \in toClient[r]
    BY <1>1, <1>2, <1>3, PublishesReach DEF Known, ClientFunctions
  <1>5. ClientFunctions'
    BY <1>1, <1>2, <1>4 DEF ClientFunctions, Known, Request
  <1>6. ReadUnsent' /\ ReadInv' /\ UnknownFails'
    <2>1. /\ readQ' # <<>> => registered'
          /\ registered' => setup' = "idle" \/ reloading'
      BY <1>1, <1>2 DEF ReadUnsent, ReadInv
    <2>2. ReadUnsent' /\ ReadInv'
      BY <1>1, <1>2, <1>4, <2>1, ReadKept
    <2>3. QED
      BY <1>1, <1>4, <2>2 DEF UnknownFails
  <1>7. OneSend' /\ VerbServedOnce'
    BY <1>1, <1>2, SendKept
  <1>8. QED
    BY <1>5, <1>6, <1>7 DEF ClientInv

\* A client sends: a verb once, a read as often as it likes.
LEMMA ClientSendsKept ==
  ASSUME ClientInv, NEW q \in Requests,
         PublishVerb(q) \/ PublishVerbFails(q) \/ PublishRead(q) \/ Retry(q)
  PROVE  ClientInv'
  <1>1. ClientFunctions /\ ReadUnsent /\ ReadInv /\ OneSend /\ UnknownFails /\ VerbServedOnce
    BY DEF ClientInv
  <1>2. /\ toDaemon' = toDaemon \/ toDaemon' = toDaemon \cup {Request(q, q)}
        /\ q \in Reads \/ (cpc[q] = "idle" /\ cpc'[q] # "idle")
        /\ UNCHANGED <<setup, reloading, managed, listed, registered, verbQ, readQ, serving,
                       replying, served, owed, shown>>
    <2>1. DOMAIN cpc = Requests /\ (cpc[q] = "awaiting" => q \in Reads)
      BY <1>1 DEF ClientFunctions
    <2>2. QED
      BY <2>1 DEF PublishVerb, PublishVerbFails, PublishRead, Retry, Republishes, RetryID,
                  Finish, daemonVars, setupVars, serveVars, histVars
  <1>3. /\ cpc' \in [Requests -> {"idle", "published", "pending", "settling", "awaiting", "done"}]
        /\ \A r \in Requests : cpc'[r] = "idle" => cpc[r] = "idle"
        /\ \A r \in Requests : cpc'[r] = "awaiting" => r \in Reads
        /\ \A r \in Reads : cpc'[r] # "published" /\ cpc'[r] # "pending" /\ cpc'[r] # "settling"
    <2>1. \/ cpc' = cpc
          \/ \E v \in {"published", "pending", "settling", "awaiting", "done"} :
                /\ cpc' = [cpc EXCEPT ![q] = v]
                /\ v = "awaiting" => q \in Reads
                /\ v = "published" \/ v = "pending" \/ v = "settling" => q \notin Reads
      BY <1>1 DEF PublishVerb, PublishVerbFails, PublishRead, Retry, Finish
    <2>2. cpc \in [Requests -> {"idle", "published", "pending", "settling", "awaiting", "done"}]
          /\ (\A r \in Requests : cpc[r] = "awaiting" => r \in Reads)
          /\ (\A r \in Reads : cpc[r] # "published" /\ cpc[r] # "pending" /\ cpc[r] # "settling")
          /\ Reads \subseteq Requests
      BY <1>1 DEF ClientFunctions, Reads
    <2>3. ASSUME NEW v \in {"published", "pending", "settling", "awaiting", "done"},
                 cpc' = [cpc EXCEPT ![q] = v],
                 v = "awaiting" => q \in Reads,
                 v = "published" \/ v = "pending" \/ v = "settling" => q \notin Reads,
                 NEW r \in Requests
          PROVE  /\ cpc'[r] = "idle" => cpc[r] = "idle"
                 /\ cpc'[r] = "awaiting" => r \in Reads
                 /\ r \in Reads => cpc'[r] # "published" /\ cpc'[r] # "pending"
                                   /\ cpc'[r] # "settling"
      <3>1. CASE r = q
        BY <2>2, <2>3, <3>1
      <3>2. CASE r # q
        BY <2>2, <2>3, <3>2
      <3>3. QED
        BY <3>1, <3>2
    <2>4. QED
      BY <2>1, <2>2, <2>3
  <1>4. /\ DOMAIN toClient' = Requests /\ DOMAIN verdict' = Requests
        /\ \A r \in Requests : toClient'[r] \subseteq toClient[r]
        /\ \A r \in Requests : verdict'[r] = "ok" => verdict[r] = "ok"
    BY <1>1 DEF PublishVerb, PublishVerbFails, PublishRead, Retry, Finish, ClientFunctions
  <1>5. ClientFunctions'
    <2>1. toDaemon' \subseteq {Request(r, r) : r \in Requests}
      BY <1>1, <1>2 DEF ClientFunctions
    <2>2. QED
      BY <1>1, <1>2, <1>3, <1>4, <2>1 DEF ClientFunctions, Known, Request
  <1>6. ReadUnsent' /\ ReadInv' /\ UnknownFails'
    <2>1. Reads \subseteq Requests
      BY DEF Reads
    <2>2. /\ readQ' # <<>> => registered'
          /\ registered' => setup' = "idle" \/ reloading'
      BY <1>1, <1>2 DEF ReadUnsent, ReadInv
    <2>3. ASSUME NEW r \in Reads, cpc'[r] = "idle", Request(r, r) \in toDaemon'
          PROVE  Request(r, r) \in toDaemon
      <3>1. r # q
        <4>1. cpc'[q] # "idle"
          BY <1>1 DEF PublishVerb, PublishVerbFails, PublishRead, Retry, Republishes, Finish,
                      ClientFunctions
        <4>2. QED
          BY <2>3, <4>1
      <3>2. QED
        BY <1>2, <2>3, <3>1, RequestCaller
    <2>4. ReadUnsent' /\ ReadInv'
      BY <1>1, <1>2, <1>3, <1>4, <2>1, <2>2, <2>3, ReadKept
    <2>5. QED
      BY <1>1, <1>4, <2>4 DEF UnknownFails
  <1>7. OneSend'
    <2>1. ASSUME NEW r \in Requests \ Reads
          PROVE  /\ cpc'[r] = "idle" => Request(r, r) \notin toDaemon'
                 /\ cpc'[r] = "idle" \/ Request(r, r) \in toDaemon' =>
                      served[r] = 0 /\ \A i \in 1..Len(verbQ) : verbQ[i] # r
      <3>1. Request(r, r) \in toDaemon' =>
              Request(r, r) \in toDaemon \/ (r = q /\ cpc[r] = "idle" /\ cpc'[r] # "idle")
        BY <1>2, RequestCaller
      <3>2. QED
        BY <1>1, <1>3, <3>1 DEF OneSend
    <2>2. QED
      BY <1>1, <1>2, <2>1 DEF OneSend, Request
  <1>8. VerbServedOnce'
    BY <1>1, <1>2, <1>4 DEF VerbServedOnce
  <1>9. QED
    BY <1>5, <1>6, <1>7, <1>8 DEF ClientInv

\* A client watches, takes a reply, or gives up.
LEMMA ClientWaitsKept ==
  ASSUME ClientInv, NEW q \in Requests,
         Watch(q) \/ SeeReply(q) \/ ReadTimesOut(q)
  PROVE  ClientInv'
  <1>1. ClientFunctions /\ ReadUnsent /\ ReadInv /\ OneSend /\ UnknownFails /\ VerbServedOnce
    BY DEF ClientInv
  <1>2. /\ UNCHANGED <<setup, reloading, managed, listed, registered, verbQ, readQ, serving,
                       replying, served, owed, toDaemon>>
        /\ cpc[q] # "idle" \/ cpc' = cpc
    BY DEF Watch, WatchStatus, Ignore, SeePending, SeeTerminal, WatchTimesOut, SeeReply,
           ReadTimesOut, Finish, Watching, daemonVars, setupVars, serveVars, histVars, clientVars
  <1>3. /\ cpc' \in [Requests -> {"idle", "published", "pending", "settling", "awaiting", "done"}]
        /\ \A r \in Requests : cpc'[r] = "idle" => cpc[r] = "idle"
        /\ \A r \in Requests : cpc'[r] = "awaiting" => r \in Reads
        /\ \A r \in Reads : cpc'[r] # "published" /\ cpc'[r] # "pending" /\ cpc'[r] # "settling"
    <2>1. \/ cpc' = cpc
          \/ \E v \in {"published", "pending", "settling", "awaiting", "done"} :
                /\ cpc' = [cpc EXCEPT ![q] = v]
                /\ v = "awaiting" => q \in Reads
                /\ v = "published" \/ v = "pending" \/ v = "settling" => q \notin Reads
      BY <1>1 DEF Watch, WatchStatus, Ignore, SeePending, SeeTerminal,
                  WatchTimesOut, SeeReply, ReadTimesOut, Finish, Watching, clientVars,
                  ClientFunctions
    <2>2. cpc \in [Requests -> {"idle", "published", "pending", "settling", "awaiting", "done"}]
          /\ (\A r \in Requests : cpc[r] = "awaiting" => r \in Reads)
          /\ (\A r \in Reads : cpc[r] # "published" /\ cpc[r] # "pending" /\ cpc[r] # "settling")
          /\ Reads \subseteq Requests
      BY <1>1 DEF ClientFunctions, Reads
    <2>3. ASSUME NEW v \in {"published", "pending", "settling", "awaiting", "done"},
                 cpc' = [cpc EXCEPT ![q] = v],
                 v = "awaiting" => q \in Reads,
                 v = "published" \/ v = "pending" \/ v = "settling" => q \notin Reads,
                 NEW r \in Requests
          PROVE  /\ cpc'[r] = "idle" => cpc[r] = "idle"
                 /\ cpc'[r] = "awaiting" => r \in Reads
                 /\ r \in Reads => cpc'[r] # "published" /\ cpc'[r] # "pending"
                                   /\ cpc'[r] # "settling"
      <3>1. CASE r = q
        BY <2>2, <2>3, <3>1
      <3>2. CASE r # q
        BY <2>2, <2>3, <3>2
      <3>3. QED
        BY <3>1, <3>2
    <2>4. QED
      BY <2>1, <2>2, <2>3
  <1>4. /\ DOMAIN toClient' = Requests /\ DOMAIN verdict' = Requests
        /\ \A r \in Requests : toClient'[r] \subseteq toClient[r]
    BY <1>1 DEF Watch, WatchStatus, Ignore, SeePending, SeeTerminal, WatchTimesOut, SeeReply,
                ReadTimesOut, Finish, clientVars, ClientFunctions
  <1>6. \A r \in Requests \ Reads :
           Target[r] \notin Agents /\ Verb[r] # "query" /\ verdict'[r] = "ok" => verdict[r] = "ok"
    <2>1. DOMAIN verdict = Requests /\ (cpc[q] = "awaiting" => q \in Reads)
      BY <1>1 DEF ClientFunctions
    <2>2. CASE SeeTerminal(q)
      <3>1. PICK m \in toClient[q] :
               verdict' = [verdict EXCEPT ![q] =
                             IF Verb[q] # "query" /\ m.state \in FailedStates
                             THEN "fail" ELSE "ok"]
        BY <2>2 DEF SeeTerminal, Finish
      <3>2. q \notin Reads /\ Target[q] \notin Agents => m.state \in FailedStates
        BY <1>1, <3>1 DEF UnknownFails
      <3>3. QED
        BY <2>1, <3>1, <3>2
    <2>3. CASE WatchTimesOut(q) \/ ReadTimesOut(q)
      BY <2>1, <2>3 DEF WatchTimesOut, ReadTimesOut, Finish
    <2>4. CASE SeeReply(q)
      BY <2>1, <2>4 DEF SeeReply, Finish
    <2>5. CASE WatchStatus(q) \/ Ignore(q) \/ SeePending(q)
      BY <2>5 DEF WatchStatus, Ignore, SeePending, clientVars
    <2>6. QED
      BY <2>2, <2>3, <2>4, <2>5 DEF Watch
  <1>7. ClientFunctions'
    BY <1>1, <1>2, <1>3, <1>4 DEF ClientFunctions, Known, Request
  <1>5. UnknownFails'
    BY <1>1, <1>4 DEF UnknownFails
  <1>8. ReadUnsent' /\ ReadInv'
    <2>1. Reads \subseteq Requests
      BY DEF Reads
    <2>2. /\ readQ' # <<>> => registered'
          /\ registered' => setup' = "idle" \/ reloading'
      BY <1>1, <1>2 DEF ReadUnsent, ReadInv
    <2>3. CASE SeeReply(q)
      <3>1. PICK m \in toClient[q] : shown' = [shown EXCEPT ![q] = m.lists]
        BY <2>3 DEF SeeReply
      <3>2. q \in Reads /\ cpc[q] = "awaiting" /\ verdict' = [verdict EXCEPT ![q] = "ok"]
            /\ cpc' = [cpc EXCEPT ![q] = "done"]
        BY <1>1, <2>3 DEF SeeReply, Finish, ClientFunctions
      <3>3. owed[q] \subseteq m.lists /\ registered
        BY <1>1, <3>1, <3>2 DEF ReadInv, ReadUnsent
      <3>4. ReadUnsent'
        <4>1. \A r \in Reads : cpc'[r] = "idle" => r # q /\ verdict'[r] = verdict[r]
          BY <1>1, <2>1, <3>2 DEF ClientFunctions
        <4>2. QED
          BY <1>1, <1>2, <1>3, <1>4, <2>1, <3>3, <4>1 DEF ReadUnsent, Request
      <3>5. shown'[q] = m.lists /\ DOMAIN shown' = Reads
            /\ \A r \in Reads : r # q => shown'[r] = shown[r] /\ verdict'[r] = verdict[r]
        BY <1>1, <2>1, <3>1, <3>2 DEF ReadInv, ClientFunctions
      <3>6. ReadIsComplete'
        BY <1>1, <1>2, <3>3, <3>5 DEF ReadInv, ReadIsComplete
      <3>7. QED
        BY <1>1, <1>2, <1>4, <2>1, <3>4, <3>5, <3>6 DEF ReadInv
    <2>4. CASE Watch(q) \/ ReadTimesOut(q)
      <3>1. shown' = shown
        BY <2>4 DEF Watch, WatchStatus, Ignore, SeePending, SeeTerminal, WatchTimesOut,
                    ReadTimesOut, histVars
      <3>2. \A r \in Reads : verdict'[r] = "ok" => verdict[r] = "ok"
        <4>1. CASE Watch(q)
          <5>1. q \notin Reads \/ verdict' = verdict
            <6>1. cpc[q] \in {"published", "pending", "settling"} => q \notin Reads
              BY <1>1 DEF ClientFunctions
            <6>2. cpc[q] \in {"published", "pending", "settling"} \/ verdict' = verdict
              BY <4>1 DEF Watch, WatchStatus, Ignore, SeePending, SeeTerminal, WatchTimesOut,
                          Watching, clientVars
            <6>3. QED
              BY <6>1, <6>2
          <5>2. verdict' = verdict \/ \E v : verdict' = [verdict EXCEPT ![q] = v]
            BY <4>1 DEF Watch, WatchStatus, Ignore, SeePending, SeeTerminal, WatchTimesOut,
                        Finish, clientVars
          <5>3. DOMAIN verdict = Requests
            BY <1>1 DEF ClientFunctions
          <5>4. QED
            BY <2>1, <5>1, <5>2, <5>3
        <4>2. CASE ReadTimesOut(q)
          <5>1. verdict' = [verdict EXCEPT ![q] = "fail"] /\ DOMAIN verdict = Requests
            BY <1>1, <4>2 DEF ReadTimesOut, Finish, ClientFunctions
          <5>2. QED
            BY <2>1, <5>1
        <4>3. QED
          BY <2>4, <4>1, <4>2
      <3>3. QED
        BY <1>1, <1>2, <1>3, <1>4, <2>1, <2>2, <3>1, <3>2, ReadKept
    <2>5. QED
      BY <2>3, <2>4
  <1>9. OneSend' /\ VerbServedOnce'
    BY <1>1, <1>2, <1>3, <1>6, SendKept
  <1>10. QED
    BY <1>5, <1>7, <1>8, <1>9 DEF ClientInv

\* The commands' inductive invariant.
LEMMA ClientInvariant == Spec => []ClientInv
  <1>1. Init => ClientInv
    <2>1. SUFFICES ASSUME Init PROVE ClientInv
      OBVIOUS
    <2>7. /\ verbQ = <<>> /\ readQ = <<>> /\ toDaemon = {} /\ serving = NoRequest
          /\ replying = "" /\ registered = FALSE /\ managed = {}
          /\ owed = [r \in Reads |-> {}] /\ shown = [r \in Reads |-> {}]
          /\ toClient = [r \in Requests |-> {}] /\ cpc = [r \in Requests |-> "idle"]
          /\ served = [r \in Requests |-> 0] /\ verdict = [r \in Requests |-> ""]
      BY <2>1 DEF Init
    <2>8. ASSUME NEW i \in 1..Len(verbQ)
          PROVE  FALSE
      <3>1. verbQ = <<>>
        BY <2>7
      <3>2. QED
        BY <2>8, <3>1
    <2>2. ClientFunctions
      <3>1. verbQ \in Seq(Requests \ Reads) /\ readQ \in Seq(Reads)
        <4>1. verbQ = <<>> /\ readQ = <<>>
          BY <2>7
        <4>2. QED
          BY <4>1
      <3>2. DOMAIN toClient = Requests /\ DOMAIN verdict = Requests
        BY <2>7
      <3>3. served \in [Requests -> Nat]
        BY <2>7
      <3>4. /\ cpc \in [Requests -> {"idle", "published", "pending", "settling", "awaiting",
                                     "done"}]
            /\ \A r \in Requests : cpc[r] = "idle"
        BY <2>7
      <3>5. QED
        <4>1. \A r \in Reads : r \in Requests
          BY DEF Reads
        <4>2. "idle" # "awaiting" /\ "idle" # "published" /\ "idle" # "pending"
              /\ "idle" # "settling"
          OBVIOUS
        <4>3. /\ \A r \in Requests : cpc[r] = "awaiting" => r \in Reads
              /\ \A r \in Reads : cpc[r] # "published" /\ cpc[r] # "pending"
                                  /\ cpc[r] # "settling"
          BY <3>4, <4>1, <4>2
        <4>4. toDaemon \subseteq {Request(r, r) : r \in Requests} /\ managed \subseteq Agents
          BY <2>7
        <4>5. QED
          BY <2>7, <3>1, <3>2, <3>3, <3>4, <4>3, <4>4 DEF ClientFunctions
    <2>9. \A r \in Requests : served[r] = 0 /\ verdict[r] = "" /\ toClient[r] = {}
      BY <2>7
    <2>3. UnknownFails
      BY <2>9 DEF UnknownFails
    <2>10. ReadUnsent
      <3>1. \A r \in Reads : r \in Requests
        BY DEF Reads
      <3>2. \A r \in Reads : \A i \in 1..Len(readQ) : FALSE
        <4>1. readQ = <<>>
          BY <2>7
        <4>2. QED
          BY <4>1
      <3>3. \A r \in Reads : toClient[r] = {} /\ verdict[r] = ""
        BY <2>9, <3>1
      <3>4. readQ = <<>> /\ toDaemon = {} /\ "" # "ok"
        BY <2>7
      <3>5. QED
        BY <3>2, <3>3, <3>4, Zenon DEF ReadUnsent
    <2>11. ReadInv
      <3>1. \A r \in Reads : r \in Requests
        BY DEF Reads
      <3>2. \A r \in Reads : owed[r] = {} /\ toClient[r] = {}
        BY <2>7, <2>9, <3>1
      <3>3. DOMAIN shown = Reads
        BY <2>7
      <3>4. QED
        BY <2>7, <3>2, <3>3 DEF ReadInv, ReadIsComplete
    <2>4. OneSend
      BY <2>7, <2>8, <2>9 DEF OneSend
    <2>5. VerbServedOnce
      <3>1. 0 <= 1 /\ "" # "ok"
        OBVIOUS
      <3>2. QED
        BY <2>9, <3>1, Zenon DEF VerbServedOnce
    <2>6. QED
      BY <2>2, <2>3, <2>4, <2>5, <2>10, <2>11 DEF ClientInv
  <1>2. ClientInv /\ [Next]_vars => ClientInv'
    <2>1. SUFFICES ASSUME ClientInv, [Next]_vars PROVE ClientInv'
      OBVIOUS
    <2>2. CASE Daemon
      BY <2>1, <2>2, SetupKept, SetupDoneKept, RegisterKept, HandleReadKept, HandleVerbKept,
         ServeKept, ArriveKept DEF Daemon, SetupAgents
    <2>3. CASE \E r \in Requests : \/ PublishVerb(r) \/ PublishVerbFails(r) \/ Watch(r)
                                   \/ PublishRead(r) \/ Await(r)
      BY <2>1, <2>3, ClientSendsKept, ClientWaitsKept DEF Await
    <2>4. CASE UNCHANGED vars
      <3>1. UNCHANGED <<setup, reloading, managed, listed, registered, verbQ, readQ, serving,
                        replying, cpc, verdict, served, owed, shown, toDaemon, toClient>>
        BY <2>4 DEF vars, daemonVars, setupVars, serveVars, clientVars, histVars
      <3>2. ClientFunctions' /\ UnknownFails'
        BY <2>1, <3>1 DEF ClientInv, ClientFunctions, UnknownFails, Known, Request
      <3>3. OneSend' /\ VerbServedOnce'
        BY <2>1, <3>1, SendKept DEF ClientInv
      <3>4. ReadUnsent' /\ ReadInv'
        BY <2>1, <3>1 DEF ClientInv, ReadUnsent, ReadInv, ReadIsComplete, Request
      <3>5. QED
        BY <3>2, <3>3, <3>4 DEF ClientInv
    <2>5. QED
      BY <2>1, <2>2, <2>3, <2>4 DEF Next
  <1>3. QED
    BY <1>1, <1>2, PTL DEF Spec

\* Whatever the calls, and however their sends, timeouts and answers meet: a
\* lifecycle verb reaches its handler at most once, and one that names no agent
\* of the daemon is never reported as done.
THEOREM ClientVerbServedOnce == Spec => []VerbServedOnce
  <1>1. ClientInv => VerbServedOnce
    BY DEF ClientInv
  <1>2. QED
    BY <1>1, ClientInvariant, PTL

\* Whatever is answered shows what the boot registered, and what every reload
\* that ended before the read was sent did: for any agents, reads, republications
\* and reloads under way.
THEOREM ClientReadIsComplete == Spec => []ReadIsComplete
  <1>1. ClientInv => ReadIsComplete
    BY DEF ClientInv, ReadInv, ReadIsComplete
  <1>2. QED
    BY <1>1, ClientInvariant, PTL

-----------------------------------------------------------------------------
(* The log streams of the terminal UI.                                     *)

TailInv ==
    /\ stream \in [Streams -> {"unused", "live", "cancelled"}]
    /\ logCancel \in Streams \cup {None} /\ sub \in Streams \cup {None}
    /\ waiters \in [Streams -> Nat] /\ logMsgs \in [Streams -> Nat]
    /\ TailFollows

\* The streams are numbered from one.
LEMMA NoneIsNoStream == None \notin Streams
  BY TuiAssumption DEF None, Streams

\* What does not touch the streams, and leaves or keeps the list.
LEMMA ListKept ==
  ASSUME TailInv, UNCHANGED <<stream, logCancel, sub, waiters, logMsgs>>,
         view = "logs" => view' = "logs"
  PROVE  TailInv'
  BY DEF TailInv, TailFollows

\* A new viewer: no stream is live while the list is shown.
LEMMA OpenLogsKept ==
  ASSUME TailInv, NEW s \in Streams, OpenLogs(s)
  PROVE  TailInv'
  <1>1. \A t \in Streams : stream[t] # "live"
    BY DEF OpenLogs, OnList, Listing, TailInv, TailFollows
  <1>2. /\ view' = "logs" /\ UNCHANGED logMsgs
        /\ \/ /\ stream' = [stream EXCEPT ![s] = "live"] /\ logCancel' = s /\ sub' = s
              /\ waiters' = [waiters EXCEPT ![s] = 1]
           \/ /\ logCancel' = None /\ sub' = None /\ UNCHANGED <<stream, waiters>>
    BY DEF OpenLogs
  <1>3. CASE /\ stream' = [stream EXCEPT ![s] = "live"] /\ logCancel' = s /\ sub' = s
             /\ waiters' = [waiters EXCEPT ![s] = 1]
    <2>1. stream'[s] = "live" /\ \A t \in Streams \ {s} : stream'[t] # "live"
      BY <1>1, <1>3 DEF TailInv
    <2>2. waiters'[s] = 1 /\ logMsgs[s] \in Nat
      BY <1>3 DEF TailInv
    <2>3. TailFollows'
      BY <1>2, <1>3, <2>1, <2>2 DEF TailFollows
    <2>4. QED
      BY <1>2, <1>3, <2>3 DEF TailInv
  <1>4. CASE logCancel' = None /\ sub' = None /\ UNCHANGED <<stream, waiters>>
    BY <1>1, <1>2, <1>4 DEF TailInv, TailFollows
  <1>5. QED
    BY <1>2, <1>3, <1>4

\* Leaving the logs cancels the one live stream.
LEMMA LeaveLogsKept ==
  ASSUME TailInv, LeaveLogs
  PROVE  TailInv'
  <1>1. UNCHANGED <<sub, waiters, logMsgs>>
    BY DEF LeaveLogs
  <1>2. CASE /\ logCancel # None /\ logCancel' = None
             /\ stream' = [stream EXCEPT ![logCancel] = "cancelled"]
    <2>1. \A t \in Streams : stream'[t] # "live"
      BY <1>2 DEF TailInv, TailFollows
    <2>2. stream' \in [Streams -> {"unused", "live", "cancelled"}]
      BY <1>2 DEF TailInv
    <2>3. QED
      BY <1>1, <1>2, <2>1, <2>2 DEF TailInv, TailFollows
  <1>3. CASE logCancel = None /\ UNCHANGED <<stream, logCancel>>
    BY <1>1, <1>3, NoneIsNoStream DEF TailInv, TailFollows
  <1>4. QED
    BY <1>2, <1>3 DEF LeaveLogs, CancelLogs

\* A waiting command answers.
LEMMA WaitForLogKept ==
  ASSUME TailInv, NEW s \in Streams, WaitForLog(s)
  PROVE  TailInv'
  <1>1. /\ waiters[s] > 0 /\ UNCHANGED <<view, stream, logCancel, sub>>
        /\ waiters' = [waiters EXCEPT ![s] = @ - 1] /\ logMsgs' = [logMsgs EXCEPT ![s] = @ + 1]
    BY DEF WaitForLog
  <1>2. waiters[s] \in Nat /\ logMsgs[s] \in Nat
    BY DEF TailInv
  <1>3. waiters' \in [Streams -> Nat] /\ logMsgs' \in [Streams -> Nat]
    BY <1>1, <1>2 DEF TailInv
  <1>4. /\ waiters'[s] = waiters[s] - 1 /\ logMsgs'[s] = logMsgs[s] + 1
        /\ \A t \in Streams \ {s} : waiters'[t] = waiters[t] /\ logMsgs'[t] = logMsgs[t]
    BY <1>1 DEF TailInv
  <1>5. TailFollows'
    BY <1>1, <1>2, <1>4 DEF TailInv, TailFollows
  <1>6. QED
    BY <1>1, <1>3, <1>5 DEF TailInv

\* An answer is handled: whichever stream it came from, the viewer's own
\* stream has a new wait.
LEMMA UpdateLogKept ==
  ASSUME TailInv, NEW s \in Streams, UpdateLog(s)
  PROVE  TailInv'
  <1>1. /\ logMsgs[s] > 0 /\ logMsgs' = [logMsgs EXCEPT ![s] = @ - 1]
        /\ UNCHANGED <<view, stream, logCancel, sub>>
        /\ waiters' = IF sub # None THEN [waiters EXCEPT ![sub] = @ + 1] ELSE waiters
    BY DEF UpdateLog, Rewait
  <1>2. \A t \in Streams : waiters[t] \in Nat /\ logMsgs[t] \in Nat
    BY DEF TailInv
  <1>3. waiters' \in [Streams -> Nat] /\ logMsgs' \in [Streams -> Nat]
    BY <1>1, <1>2 DEF TailInv
  <1>4. TailFollows'
    <2>1. ASSUME NEW t \in Streams, stream[t] = "live"
          PROVE  view = "logs" /\ sub = t /\ logCancel = t /\ waiters'[t] + logMsgs'[t] > 0
      <3>1. view = "logs" /\ sub = t /\ logCancel = t /\ t # None
        BY <2>1, NoneIsNoStream DEF TailInv, TailFollows
      <3>2. waiters'[t] = waiters[t] + 1 /\ logMsgs'[t] \in Nat
        BY <1>1, <1>3, <3>1 DEF TailInv
      <3>3. QED
        BY <1>2, <3>1, <3>2
    <2>2. QED
      BY <1>1, <2>1 DEF TailFollows
  <1>5. QED
    BY <1>1, <1>3, <1>4 DEF TailInv

\* For any number of streams, lines and channels: only the viewer on the screen
\* holds a live subscription, and its tail never stops following.
THEOREM TuiTailFollows == TuiSpec => []TailFollows
  <1>1. TuiInit => TailInv
    BY DEF TuiInit, TailInv, TailFollows
  <1>2. TailInv /\ [TuiNext]_tuiVars => TailInv'
    <2>1. SUFFICES ASSUME TailInv, [TuiNext]_tuiVars PROVE TailInv'
      OBVIOUS
    <2>2. CASE FilterKeys \/ MoveKeys \/ ActKeys \/ ViewKeys \/ Quit \/ OldLogs
      <3>1. UNCHANGED <<stream, logCancel, sub, waiters, logMsgs>>
        BY <2>2 DEF FilterKeys, MoveKeys, ActKeys, ViewKeys, Quit, OldLogs, logVars
      <3>2. view = "logs" => view' = "logs"
        BY <2>2 DEF FilterKeys, MoveKeys, ActKeys, ViewKeys, Quit, OldLogs, OnList, Listing
      <3>3. QED
        BY <2>1, <3>1, <3>2, ListKept
    <2>3. CASE Tick \/ Fetch \/ UpdateStatus \/ UpdateAction
      BY <2>1, <2>3, ListKept DEF Tick, Fetch, UpdateStatus, UpdateAction, logVars
    <2>4. CASE LeaveLogs
      BY <2>1, <2>4, LeaveLogsKept
    <2>5. ASSUME NEW s \in Streams, OpenLogs(s) \/ Line(s) \/ WaitForLog(s) \/ UpdateLog(s)
          PROVE  TailInv'
      <3>1. CASE Line(s)
        BY <2>1, <3>1, ListKept DEF Line
      <3>2. QED
        BY <2>1, <2>5, <3>1, OpenLogsKept, WaitForLogKept, UpdateLogKept
    <2>6. CASE UNCHANGED tuiVars
      BY <2>1, <2>6, ListKept DEF tuiVars, logVars
    <2>7. QED
      BY <2>1, <2>2, <2>3, <2>4, <2>5, <2>6 DEF TuiNext
  <1>3. TailInv => TailFollows
    BY DEF TailInv
  <1>4. QED
    BY <1>1, <1>2, <1>3, PTL DEF TuiSpec

-----------------------------------------------------------------------------
(* The control address.                                                    *)

AddrFunctions ==
    /\ owner \in [PidSpace -> Daemons \cup {Other, Nobody}]
    /\ dpc \in [Daemons -> {"new", "write", "fill", "serving", "remove", "zombie", "gone"}]
    /\ dpid \in [Daemons -> PidSpace \cup {0}] /\ todo \in [Daemons -> Seq(Tiers)]
    /\ entry \in [Daemons -> Tiers \cup {"none"}]
    /\ file \in [Tiers -> [PidSpace -> Daemons \cup {"absent", "empty"}]]

\* A PID has one owner, and a second one only as a reused PID.
OwnerInv ==
    /\ \A d \in Daemons : dpc[d] = "new" <=> dpid[d] = 0
    /\ \A d \in Daemons : dpc[d] \notin {"new", "gone"} <=> d \in Held
    /\ \A p \in PidSpace : owner[p] \in Daemons => dpid[owner[p]] = p
    /\ \A p \in PidSpace : owner[p] = Other => p \in reused
    /\ \A d, e \in Daemons : dpid[d] = dpid[e] /\ d # e /\ dpid[d] # 0 => dpid[d] \in reused

\* A file named after a PID holds the address of a daemon that had it, and that
\* of a daemon that serves and has published is in its place.
FileInv ==
    /\ \A t \in Tiers : \A p \in PidSpace : file[t][p] \in Daemons => dpid[file[t][p]] = p
    /\ \A d \in Daemons : dpc[d] = "fill" => todo[d] # <<>>
    /\ \A d \in Daemons : dpc[d] \in {"new", "write", "fill", "remove"} => entry[d] = "none"
    /\ \A d \in Daemons : dpc[d] = "serving" /\ entry[d] # "none" =>
          file[entry[d]][dpid[d]] = d

LookType ==
    look \in [at : {"idle", "list", "probe", "read", "done"}, dirs : Seq(Tiers),
              names : SUBSET PidSpace, seen : SUBSET PidSpace, found : Seq(Daemons)]

Ahead(s) == {s[i] : i \in 1..Len(s)}

\* What the client still comes to: a daemon that was published all along is in
\* a directory or a listing ahead, unless its PID has been read already.
ComesTo(d) ==
    \/ dpid[d] \in look.seen
    \/ look.at = "list" /\ entry[d] \in Ahead(look.dirs)
    \/ look.at \in {"probe", "read"} /\ entry[d] \in Ahead(Tail(look.dirs))
    \/ look.at \in {"probe", "read"} /\ entry[d] = Head(look.dirs) /\ dpid[d] \in look.names

\* What is read at a PID that was alive is a daemon that lived, or the PID is
\* a reused one.
ReadInvs ==
    /\ look.at # "done" => target = "none" /\ ambiguity = "none"
    /\ look.at = "idle" => look.found = <<>>
    /\ look.at \in {"probe", "read"} => look.dirs # <<>>
    /\ look.at = "read" => look.names # {}
    /\ look.at = "read" /\ Min(look.names) \notin reused =>
          \E e \in lived : dpid[e] = Min(look.names)
    /\ look.at = "read" => Min(look.names) \notin look.seen
    /\ \A p \in look.seen : \E i \in 1..Len(look.found) : dpid[look.found[i]] = p
    /\ \A i \in 1..Len(look.found) :
          /\ dpid[look.found[i]] # 0 /\ dpid[look.found[i]] \in look.seen
          /\ dpid[look.found[i]] \in reused \/ look.found[i] \in lived
    /\ \A i, j \in 1..Len(look.found) : i # j => dpid[look.found[i]] # dpid[look.found[j]]

PastInv ==
    /\ Held \subseteq lived /\ lived \subseteq Daemons /\ there \subseteq Published
    /\ look.at \in {"list", "probe", "read"} => \A d \in there : ComesTo(d)

World == AddrFunctions /\ OwnerInv /\ FileInv

AddrInv == World /\ LookType /\ ReadInvs /\ PastInv /\ AddressDefensible

\* What no step of a daemon undoes: its PID, that a PID was reused, and the
\* place of an address that stays published.
Stable ==
    /\ \A d \in Daemons : dpid[d] # 0 => dpid'[d] = dpid[d]
    /\ reused \subseteq reused'
    /\ \A d \in Published : d \in Published' => entry'[d] = entry[d]

\* The least of some natural numbers is one of them.
LEMMA LeastMember ==
  ASSUME NEW T, T \subseteq Nat, T # {}
  PROVE  Min(T) \in T
  <1>1. \E x \in T : \A y \in T : ~(<<y, x>> \in OpToRel(<, Nat))
    BY NatLessThanWellFounded, WFMin, Zenon
  <1>2. PICK x \in T : \A y \in T : ~(<<y, x>> \in OpToRel(<, Nat))
    BY <1>1, Zenon
  <1>3. \A y \in T : ~(y < x)
    BY <1>2 DEF OpToRel
  <1>4. \A y \in T : x =< y
    BY <1>3
  <1>5. QED
    BY <1>4, Zenon DEF Min

\* The directories of a process.
LEMMA DirsOf ==
  /\ \A b : ControlAddrDirs(b) \in Seq(Tiers)
  /\ "run" \in Ahead(ControlAddrDirs(TRUE)) /\ "xdg" \in Ahead(ControlAddrDirs(TRUE))
  /\ "run" \in Ahead(ControlAddrDirs(FALSE))
  <1>1. <<"xdg", "run">> \in Seq(Tiers) /\ <<"run">> \in Seq(Tiers)
    BY DEF Tiers
  <1>2. ControlAddrDirs(TRUE) = <<"xdg", "run">> /\ ControlAddrDirs(FALSE) = <<"run">>
    BY DEF ControlAddrDirs
  <1>6. \A b : ControlAddrDirs(b) \in Seq(Tiers)
    BY <1>1 DEF ControlAddrDirs
  <1>3. "run" \in Ahead(<<"xdg", "run">>) /\ "xdg" \in Ahead(<<"xdg", "run">>)
    BY DEF Ahead
  <1>4. "run" \in Ahead(<<"run">>)
    BY DEF Ahead
  <1>5. QED
    BY <1>2, <1>3, <1>4, <1>6

\* A daemon under way has a PID that is its own.
LEMMA UnderWay ==
  ASSUME World, NEW d \in Daemons, dpc[d] \notin {"new", "gone"}
  PROVE  /\ dpid[d] \in PidSpace /\ dpid[d] # 0 /\ owner[dpid[d]] = d /\ d \in Held
         /\ \A e \in Daemons : e # d /\ dpc[e] \notin {"new", "gone"} => dpid[e] # dpid[d]
  <1>1. d \in Held /\ dpid[d] # 0 /\ owner[dpid[d]] = d
    BY DEF World, OwnerInv, Held
  <1>2. dpid[d] \in PidSpace
    BY <1>1 DEF World, AddrFunctions
  <1>3. \A e \in Daemons : e # d /\ dpc[e] \notin {"new", "gone"} => dpid[e] # dpid[d]
    BY <1>1 DEF World, OwnerInv, Held
  <1>4. QED
    BY <1>1, <1>2, <1>3

\* A daemon takes a free PID.
LEMMA BindKept ==
  ASSUME World, NEW d \in Daemons, NEW p \in PidSpace, Bind(d, p)
  PROVE  World' /\ Stable
  <1>1. AddrFunctions /\ OwnerInv /\ FileInv
    BY DEF World
  <1>2. /\ dpc[d] = "new" /\ owner[p] = Nobody /\ owner' = [owner EXCEPT ![p] = d]
        /\ reused' = (IF Had(p) THEN reused \cup {p} ELSE reused)
        /\ dpid' = [dpid EXCEPT ![d] = p] /\ dpc' = [dpc EXCEPT ![d] = "write"]
        /\ todo' = [todo EXCEPT ![d] = ControlAddrDirs(d \in HasXDG)]
        /\ entry' = entry /\ file' = file
    BY DEF Bind, Occupies, Set
  <1>3. p # 0 /\ dpid[d] = 0 /\ Nobody \notin Daemons /\ Other \notin Daemons
    BY <1>1, <1>2, AddrAssumption DEF OwnerInv
  <1>4. /\ dpid'[d] = p /\ dpc'[d] = "write" /\ owner'[p] = d
        /\ \A e \in Daemons : e # d => dpid'[e] = dpid[e] /\ dpc'[e] = dpc[e]
        /\ \A q \in PidSpace : q # p => owner'[q] = owner[q]
    BY <1>1, <1>2 DEF AddrFunctions
  <1>5. reused \subseteq reused' /\ \A e \in Daemons : dpid[e] = p => p \in reused'
    BY <1>2 DEF Had
  <1>6. AddrFunctions'
    <2>1. ControlAddrDirs(d \in HasXDG) \in Seq(Tiers)
      BY DirsOf, Zenon
    <2>2. todo' \in [Daemons -> Seq(Tiers)]
      BY <1>1, <1>2, <2>1 DEF AddrFunctions
    <2>3. QED
      BY <1>1, <1>2, <2>2 DEF AddrFunctions
  <1>7. \A e \in Daemons : e # d => (e \in Held' <=> e \in Held)
    <2>1. ASSUME NEW e \in Daemons, e # d
          PROVE  e \in Held' <=> e \in Held
      <3>1. CASE dpid[e] = p
        BY <1>2, <1>3, <1>4, <2>1, <3>1 DEF Held
      <3>2. CASE dpid[e] # p
        BY <1>1, <1>4, <2>1, <3>2 DEF Held, AddrFunctions
      <3>3. QED
        BY <3>1, <3>2
    <2>2. QED
      BY <2>1
  <1>8. d \in Held'
    BY <1>3, <1>4 DEF Held
  <1>9. OwnerInv'
    <2>1. \A e \in Daemons : dpc'[e] = "new" <=> dpid'[e] = 0
      BY <1>1, <1>3, <1>4 DEF OwnerInv
    <2>2. \A e \in Daemons : dpc'[e] \notin {"new", "gone"} <=> e \in Held'
      BY <1>1, <1>4, <1>7, <1>8 DEF OwnerInv
    <2>3. \A q \in PidSpace : owner'[q] \in Daemons => dpid'[owner'[q]] = q
      <3>1. ASSUME NEW q \in PidSpace, q # p, owner[q] \in Daemons
            PROVE  owner[q] # d /\ dpid[owner[q]] = q
        BY <1>1, <1>3, <3>1, AddrAssumption DEF OwnerInv
      <3>2. QED
        BY <1>4, <3>1
    <2>4. \A q \in PidSpace : owner'[q] = Other => q \in reused'
      BY <1>1, <1>3, <1>4, <1>5 DEF OwnerInv
    <2>5. \A e, f \in Daemons : dpid'[e] = dpid'[f] /\ e # f /\ dpid'[e] # 0 =>
             dpid'[e] \in reused'
      BY <1>1, <1>4, <1>5 DEF OwnerInv
    <2>6. QED
      BY <2>1, <2>2, <2>3, <2>4, <2>5 DEF OwnerInv
  <1>10. FileInv'
    <2>1. \A t \in Tiers : \A q \in PidSpace : file'[t][q] \in Daemons => dpid'[file'[t][q]] = q
      <3>1. ASSUME NEW t \in Tiers, NEW q \in PidSpace, file[t][q] \in Daemons
            PROVE  dpid[file[t][q]] = q /\ file[t][q] # d
        BY <1>1, <1>3, <3>1, AddrAssumption DEF FileInv
      <3>2. QED
        BY <1>2, <1>4, <3>1
    <2>2. \A e \in Daemons : dpc'[e] = "fill" => todo'[e] # <<>>
      BY <1>1, <1>2, <1>4 DEF FileInv, AddrFunctions
    <2>3. \A e \in Daemons : dpc'[e] \in {"new", "write", "fill", "remove"} => entry'[e] = "none"
      BY <1>1, <1>2, <1>4 DEF FileInv
    <2>4. \A e \in Daemons : dpc'[e] = "serving" /\ entry'[e] # "none" =>
             file'[entry'[e]][dpid'[e]] = e
      BY <1>1, <1>2, <1>4 DEF FileInv
    <2>5. QED
      BY <2>1, <2>2, <2>3, <2>4 DEF FileInv
  <1>11. Stable
    BY <1>2, <1>3, <1>4, <1>5 DEF Stable, Published
  <1>12. QED
    BY <1>6, <1>9, <1>10, <1>11 DEF World

\* A PID changes hands to or from another process, or falls free.
LEMMA OwnerChanges ==
  ASSUME World, NEW p \in PidSpace, NEW x \in {Other, Nobody},
         owner' = [owner EXCEPT ![p] = x], x = Other => p \in reused', reused \subseteq reused',
         UNCHANGED <<dpid, todo, entry, file>>,
         \A e \in Daemons : dpc'[e] = IF e = owner[p] THEN "gone" ELSE dpc[e],
         dpc' \in [Daemons -> {"new", "write", "fill", "serving", "remove", "zombie", "gone"}]
  PROVE  World' /\ Stable
  <1>1. AddrFunctions /\ OwnerInv /\ FileInv
    BY DEF World
  <1>2. /\ Nobody \notin Daemons /\ Other \notin Daemons /\ owner'[p] = x /\ x \notin Daemons
        /\ x = Other \/ x # Other
        /\ \A q \in PidSpace : q # p => owner'[q] = owner[q]
    BY <1>1, AddrAssumption DEF AddrFunctions
  <1>3. AddrFunctions'
    BY <1>1 DEF AddrFunctions
  <1>4. \A e \in Daemons : e \in Held' <=> e \in Held /\ e # owner[p]
    <2>1. ASSUME NEW e \in Daemons
          PROVE  e \in Held' <=> e \in Held /\ e # owner[p]
      <3>1. CASE dpid[e] = p
        BY <1>2, <3>1 DEF Held
      <3>2. CASE dpid[e] # p /\ dpid[e] # 0
        <4>1. dpid[e] \in PidSpace /\ owner'[dpid[e]] = owner[dpid[e]]
          BY <1>1, <1>2, <3>2 DEF AddrFunctions
        <4>2. e # owner[p]
          BY <1>1, <3>2 DEF OwnerInv
        <4>3. QED
          BY <3>2, <4>1, <4>2 DEF Held
      <3>3. CASE dpid[e] = 0
        BY <3>3 DEF Held
      <3>4. QED
        BY <3>1, <3>2, <3>3
    <2>2. QED
      BY <2>1
  <1>5. OwnerInv'
    <2>1. \A e \in Daemons : dpc'[e] = "new" <=> dpid'[e] = 0
      <3>1. \A e \in Daemons : e = owner[p] => dpid[e] = p /\ p # 0
        BY <1>1, AddrAssumption DEF OwnerInv
      <3>2. QED
        BY <1>1, <3>1 DEF OwnerInv
    <2>2. \A e \in Daemons : dpc'[e] \notin {"new", "gone"} <=> e \in Held'
      BY <1>1, <1>4 DEF OwnerInv
    <2>3. QED
      BY <1>1, <1>2, <2>1, <2>2 DEF OwnerInv
  <1>6. FileInv'
    BY <1>1 DEF FileInv
  <1>7. Stable
    BY DEF Stable
  <1>8. QED
    BY <1>3, <1>5, <1>6, <1>7 DEF World

\* A daemon that is under way and not serving writes or removes its own file.
LEMMA FileChanges ==
  ASSUME World, NEW d \in Daemons, dpc[d] \in {"write", "fill", "remove"},
         NEW t \in Tiers, NEW v \in {d, "absent", "empty"},
         \A u \in Tiers : \A q \in PidSpace :
            file'[u][q] = IF u = t /\ q = dpid[d] THEN v ELSE file[u][q]
  PROVE  /\ \A u \in Tiers : \A q \in PidSpace :
               file'[u][q] \in Daemons => dpid[file'[u][q]] = q
         /\ \A e \in Daemons : dpc[e] = "serving" /\ entry[e] # "none" =>
               file'[entry[e]][dpid[e]] = e
  <1>1. AddrFunctions /\ FileInv
    BY DEF World
  <1>2. "absent" \notin Daemons /\ "empty" \notin Daemons
    BY AddrAssumption
  <1>3. \A u \in Tiers : \A q \in PidSpace : file'[u][q] \in Daemons => dpid[file'[u][q]] = q
    BY <1>1, <1>2 DEF FileInv
  <1>4. ASSUME NEW e \in Daemons, dpc[e] = "serving", entry[e] # "none"
        PROVE  file'[entry[e]][dpid[e]] = e
    <2>1. e # d /\ dpid[e] # dpid[d] /\ dpid[e] \in PidSpace /\ entry[e] \in Tiers
      <3>1. dpid[e] \in PidSpace
        BY <1>4, UnderWay
      <3>2. \A f \in Daemons : f # d /\ dpc[f] \notin {"new", "gone"} => dpid[f] # dpid[d]
        BY UnderWay
      <3>3. QED
        BY <1>1, <1>4, <3>1, <3>2 DEF AddrFunctions
    <2>2. QED
      BY <1>1, <1>4, <2>1 DEF FileInv
  <1>5. QED
    BY <1>3, <1>4

\* One update of a file.
LEMMA FileUpdated ==
  ASSUME AddrFunctions, NEW t \in Tiers, NEW p \in PidSpace,
         NEW v \in Daemons \cup {"absent", "empty"}, file' = [file EXCEPT ![t][p] = v]
  PROVE  /\ file' \in [Tiers -> [PidSpace -> Daemons \cup {"absent", "empty"}]]
         /\ \A u \in Tiers : \A q \in PidSpace :
               file'[u][q] = IF u = t /\ q = p THEN v ELSE file[u][q]
  BY DEF AddrFunctions

\* Neither PIDs nor owners change, and the daemon stays under way.
LEMMA OwnersKept ==
  ASSUME World, NEW d \in Daemons, dpc[d] \notin {"new", "gone"},
         NEW x \in {"write", "fill", "serving", "remove", "zombie"}, dpc' = [dpc EXCEPT ![d] = x],
         UNCHANGED <<owner, reused, dpid>>
  PROVE  OwnerInv' /\ dpc'[d] = x /\ (\A e \in Daemons : e # d => dpc'[e] = dpc[e])
         /\ dpc' \in [Daemons -> {"new", "write", "fill", "serving", "remove", "zombie", "gone"}]
  <1>1. AddrFunctions /\ OwnerInv
    BY DEF World
  <1>2. /\ dpc'[d] = x /\ (\A e \in Daemons : e # d => dpc'[e] = dpc[e])
        /\ dpc' \in [Daemons -> {"new", "write", "fill", "serving", "remove", "zombie", "gone"}]
    BY <1>1 DEF AddrFunctions
  <1>3. Held' = Held
    BY DEF Held
  <1>4. OwnerInv'
    BY <1>1, <1>2, <1>3 DEF OwnerInv
  <1>5. QED
    BY <1>2, <1>4

\* WriteControlAddr.
LEMMA WriteKept ==
  ASSUME World, NEW d \in Daemons, Truncate(d) \/ Fill(d)
  PROVE  World' /\ Stable
  <1>1. AddrFunctions /\ OwnerInv /\ FileInv
    BY DEF World
  <1>2. /\ dpc[d] \in {"write", "fill"} /\ todo[d] # <<>> /\ todo[d] \in Seq(Tiers)
        /\ UNCHANGED <<owner, reused, dpid, todo>>
    BY <1>1 DEF Truncate, Fill, FileInv, AddrFunctions
  <1>3. Head(todo[d]) \in Tiers
    BY <1>2
  <1>4. dpid[d] \in PidSpace /\ d \notin {"absent", "empty", "none"}
    BY <1>2, UnderWay, AddrAssumption
  <1>5. CASE Truncate(d)
    <2>1. /\ file' = [file EXCEPT ![Head(todo[d])][dpid[d]] = "empty"]
          /\ dpc' = [dpc EXCEPT ![d] = "fill"] /\ entry' = entry /\ dpc[d] = "write"
      BY <1>5 DEF Truncate, Truncated, Set
    <2>2. /\ file' \in [Tiers -> [PidSpace -> Daemons \cup {"absent", "empty"}]]
          /\ \A u \in Tiers : \A q \in PidSpace :
                file'[u][q] = IF u = Head(todo[d]) /\ q = dpid[d] THEN "empty" ELSE file[u][q]
      BY <1>1, <1>3, <1>4, <2>1, FileUpdated
    <2>3. /\ \A u \in Tiers : \A q \in PidSpace :
                file'[u][q] \in Daemons => dpid[file'[u][q]] = q
          /\ \A e \in Daemons : dpc[e] = "serving" /\ entry[e] # "none" =>
                file'[entry[e]][dpid[e]] = e
      BY <1>2, <1>3, <2>2, FileChanges
    <2>4. OwnerInv' /\ dpc'[d] = "fill" /\ (\A e \in Daemons : e # d => dpc'[e] = dpc[e])
          /\ dpc' \in [Daemons -> {"new", "write", "fill", "serving", "remove", "zombie", "gone"}]
      BY <1>2, <2>1, OwnersKept
    <2>5. AddrFunctions'
      BY <1>1, <1>2, <2>1, <2>2, <2>4 DEF AddrFunctions
    <2>6. FileInv'
      BY <1>1, <1>2, <2>1, <2>3, <2>4 DEF FileInv
    <2>7. Stable
      BY <1>2, <2>1 DEF Stable
    <2>8. QED
      BY <2>4, <2>5, <2>6, <2>7 DEF World
  <1>6. CASE Fill(d)
    <2>1. /\ file' = [file EXCEPT ![Head(todo[d])][dpid[d]] = d] /\ dpc[d] = "fill"
          /\ dpc' = [dpc EXCEPT ![d] = "serving"]
          /\ entry' = [entry EXCEPT ![d] = Head(todo[d])]
      BY <1>6 DEF Fill, Contents, Set
    <2>2. /\ file' \in [Tiers -> [PidSpace -> Daemons \cup {"absent", "empty"}]]
          /\ \A u \in Tiers : \A q \in PidSpace :
                file'[u][q] = IF u = Head(todo[d]) /\ q = dpid[d] THEN d ELSE file[u][q]
      BY <1>1, <1>3, <1>4, <2>1, FileUpdated
    <2>3. /\ \A u \in Tiers : \A q \in PidSpace :
                file'[u][q] \in Daemons => dpid[file'[u][q]] = q
          /\ \A e \in Daemons : dpc[e] = "serving" /\ entry[e] # "none" =>
                file'[entry[e]][dpid[e]] = e
      BY <1>2, <1>3, <2>2, FileChanges
    <2>4. OwnerInv' /\ dpc'[d] = "serving" /\ (\A e \in Daemons : e # d => dpc'[e] = dpc[e])
          /\ dpc' \in [Daemons -> {"new", "write", "fill", "serving", "remove", "zombie", "gone"}]
      BY <1>2, <2>1, OwnersKept
    <2>5. entry'[d] = Head(todo[d]) /\ (\A e \in Daemons : e # d => entry'[e] = entry[e])
          /\ entry' \in [Daemons -> Tiers \cup {"none"}]
      BY <1>1, <1>3, <2>1 DEF AddrFunctions
    <2>6. AddrFunctions'
      BY <1>1, <1>2, <2>2, <2>4, <2>5 DEF AddrFunctions
    <2>7. FileInv'
      <3>1. file'[entry'[d]][dpid[d]] = d
        BY <1>3, <1>4, <2>2, <2>5
      <3>2. \A e \in Daemons : dpc'[e] = "serving" /\ entry'[e] # "none" =>
               file'[entry'[e]][dpid[e]] = e
        BY <2>3, <2>4, <2>5, <3>1
      <3>3. \A e \in Daemons : dpc'[e] \in {"new", "write", "fill", "remove"} =>
               entry'[e] = "none"
        BY <1>1, <2>4, <2>5 DEF FileInv
      <3>4. \A e \in Daemons : dpc'[e] = "fill" => todo[e] # <<>>
        BY <1>1, <2>4 DEF FileInv
      <3>5. QED
        BY <1>2, <2>3, <3>2, <3>3, <3>4 DEF FileInv
    <2>8. Stable
      <3>1. d \notin Published
        BY <1>1, <2>1 DEF Published, FileInv
      <3>2. QED
        BY <1>2, <2>5, <3>1 DEF Stable, Published, Running, Held
    <2>9. QED
      BY <2>4, <2>6, <2>7, <2>8 DEF World
  <1>7. QED
    BY <1>5, <1>6

\* The places a daemon goes through without writing.
LEMMA PlaceKept ==
  ASSUME World, NEW d \in Daemons, NextTier(d) \/ Unpublished(d) \/ Unpublish(d)
  PROVE  World' /\ Stable
  <1>1. AddrFunctions /\ OwnerInv /\ FileInv
    BY DEF World
  <1>2. CASE NextTier(d) \/ Unpublished(d)
    <2>1. PICK x \in {"write", "serving"} : dpc' = [dpc EXCEPT ![d] = x]
      BY <1>2 DEF NextTier, Unpublished, Set
    <2>2. /\ dpc[d] \in {"write", "fill"}
          /\ UNCHANGED <<owner, reused, dpid, entry, file>>
      BY <1>2 DEF NextTier, Unpublished
    <2>3. OwnerInv' /\ dpc'[d] = x /\ (\A e \in Daemons : e # d => dpc'[e] = dpc[e])
          /\ dpc' \in [Daemons -> {"new", "write", "fill", "serving", "remove", "zombie", "gone"}]
      BY <2>1, <2>2, OwnersKept
    <2>4. /\ todo' \in [Daemons -> Seq(Tiers)]
          /\ \A e \in Daemons : e # d => todo'[e] = todo[e]
      <3>1. todo \in [Daemons -> Seq(Tiers)] /\ todo[d] \in Seq(Tiers)
        BY <1>1 DEF AddrFunctions
      <3>2. CASE todo' = todo
        BY <3>1, <3>2
      <3>3. CASE todo[d] # <<>> /\ todo' = [todo EXCEPT ![d] = Tail(@)]
        <4>1. Tail(todo[d]) \in Seq(Tiers)
          BY <3>1, <3>3
        <4>2. QED
          BY <3>1, <3>3, <4>1
      <3>4. QED
        BY <1>2, <3>2, <3>3 DEF NextTier, Unpublished
    <2>5. AddrFunctions'
      BY <1>1, <2>2, <2>3, <2>4 DEF AddrFunctions
    <2>6. FileInv'
      BY <1>1, <2>2, <2>3, <2>4 DEF FileInv
    <2>7. Stable
      BY <2>2 DEF Stable
    <2>8. QED
      BY <2>3, <2>5, <2>6, <2>7 DEF World
  <1>3. CASE Unpublish(d)
    <2>1. /\ dpc[d] = "serving" /\ dpc' = [dpc EXCEPT ![d] = "remove"]
          /\ todo' = [todo EXCEPT ![d] = ControlAddrDirs(d \in HasXDG)]
          /\ entry' = [entry EXCEPT ![d] = "none"]
          /\ UNCHANGED <<owner, reused, dpid, file>>
      BY <1>3 DEF Unpublish, Set
    <2>2. OwnerInv' /\ dpc'[d] = "remove" /\ (\A e \in Daemons : e # d => dpc'[e] = dpc[e])
          /\ dpc' \in [Daemons -> {"new", "write", "fill", "serving", "remove", "zombie", "gone"}]
      BY <2>1, OwnersKept
    <2>3. ControlAddrDirs(d \in HasXDG) \in Seq(Tiers)
      BY DirsOf, Zenon
    <2>4. /\ todo' \in [Daemons -> Seq(Tiers)] /\ entry' \in [Daemons -> Tiers \cup {"none"}]
          /\ entry'[d] = "none"
          /\ \A e \in Daemons : e # d => todo'[e] = todo[e] /\ entry'[e] = entry[e]
      BY <1>1, <2>1, <2>3 DEF AddrFunctions
    <2>5. AddrFunctions'
      BY <1>1, <2>1, <2>2, <2>4 DEF AddrFunctions
    <2>6. FileInv'
      BY <1>1, <2>1, <2>2, <2>4 DEF FileInv
    <2>7. Stable
      <3>1. d \notin Published'
        BY <2>4 DEF Published
      <3>2. QED
        BY <2>1, <2>4, <3>1 DEF Stable, Published, Running, Held
    <2>8. QED
      BY <2>2, <2>5, <2>6, <2>7 DEF World
  <1>4. QED
    BY <1>2, <1>3

\* RemoveControlAddr.
LEMMA RemoveKept ==
  ASSUME World, NEW d \in Daemons, RemoveControlAddr(d)
  PROVE  World' /\ Stable
  <1>1. AddrFunctions /\ OwnerInv /\ FileInv
    BY DEF World
  <1>2. /\ dpc[d] = "remove" /\ todo[d] # <<>> /\ todo[d] \in Seq(Tiers)
        /\ UNCHANGED <<owner, reused, dpc, dpid, entry>>
    BY <1>1 DEF RemoveControlAddr, AddrFunctions
  <1>3. Head(todo[d]) \in Tiers /\ Tail(todo[d]) \in Seq(Tiers) /\ <<>> \in Seq(Tiers)
    BY <1>2
  <1>4. dpid[d] \in PidSpace
    BY <1>2, UnderWay
  <1>5. /\ todo' \in [Daemons -> Seq(Tiers)]
        /\ \A e \in Daemons : e # d => todo'[e] = todo[e]
    BY <1>1, <1>3 DEF RemoveControlAddr, AddrFunctions, Set
  <1>6. /\ file' \in [Tiers -> [PidSpace -> Daemons \cup {"absent", "empty"}]]
        /\ \A u \in Tiers : \A q \in PidSpace :
              file'[u][q] \in Daemons => dpid[file'[u][q]] = q
        /\ \A e \in Daemons : dpc[e] = "serving" /\ entry[e] # "none" =>
              file'[entry[e]][dpid[e]] = e
    <2>1. CASE file' = file
      BY <1>1, <2>1 DEF AddrFunctions, FileInv
    <2>2. CASE file' = [file EXCEPT ![Head(todo[d])] =
                          [p \in PidSpace |-> IF p \in OwnEntry(d) THEN "absent" ELSE @[p]]]
      <3>1. /\ file' \in [Tiers -> [PidSpace -> Daemons \cup {"absent", "empty"}]]
            /\ \A u \in Tiers : \A q \in PidSpace :
                  file'[u][q] = IF u = Head(todo[d]) /\ q = dpid[d] THEN "absent"
                                ELSE file[u][q]
        BY <1>1, <1>3, <1>4, <2>2 DEF AddrFunctions, OwnEntry
      <3>2. QED
        BY <1>2, <1>3, <3>1, FileChanges
    <2>3. QED
      BY <2>1, <2>2 DEF RemoveControlAddr
  <1>7. AddrFunctions'
    BY <1>1, <1>2, <1>5, <1>6 DEF AddrFunctions
  <1>8. OwnerInv'
    BY <1>1, <1>2 DEF OwnerInv, Held
  <1>9. FileInv'
    BY <1>1, <1>2, <1>5, <1>6 DEF FileInv
  <1>10. Stable
    BY <1>2 DEF Stable
  <1>11. QED
    BY <1>7, <1>8, <1>9, <1>10 DEF World

\* A daemon dies, by a signal or of its own accord: it keeps its PID.
LEMMA ExitOfDaemonKept ==
  ASSUME World, NEW d \in Daemons, Killed(d) \/ Leave(d)
  PROVE  World' /\ Stable
  <1>1. AddrFunctions /\ OwnerInv /\ FileInv
    BY DEF World
  <1>2. /\ dpc' = [dpc EXCEPT ![d] = "zombie"] /\ dpc[d] \notin {"new", "gone"}
        /\ UNCHANGED <<owner, reused, dpid, todo, entry, file>>
    BY <1>1 DEF Killed, Leave, Exit, Set, Running, OwnerInv
  <1>3. OwnerInv' /\ dpc'[d] = "zombie" /\ (\A e \in Daemons : e # d => dpc'[e] = dpc[e])
        /\ dpc' \in [Daemons -> {"new", "write", "fill", "serving", "remove", "zombie", "gone"}]
    BY <1>2, OwnersKept
  <1>4. AddrFunctions'
    BY <1>1, <1>2, <1>3 DEF AddrFunctions
  <1>5. FileInv'
    BY <1>1, <1>2, <1>3 DEF FileInv
  <1>6. Stable
    BY <1>2 DEF Stable
  <1>7. QED
    BY <1>3, <1>4, <1>5, <1>6 DEF World

\* The steps of the daemons and of the other processes.
LEMMA DaemonStepKept ==
  ASSUME World, DaemonStep
  PROVE  World' /\ Stable
  <1>1. AddrFunctions /\ OwnerInv /\ FileInv
    BY DEF World
  <1>2. /\ Nobody \notin Daemons /\ Other \notin Daemons /\ Nobody # Other
    BY AddrAssumption DEF Nobody, Other
  <1>3. ASSUME NEW d \in Daemons, Reaped(d)
        PROVE  World' /\ Stable
    <2>1. dpc[d] \notin {"new", "gone"}
      BY <1>3 DEF Reaped
    <2>2. dpid[d] \in PidSpace /\ owner[dpid[d]] = d
      BY <2>1, UnderWay
    <2>3. /\ owner' = [owner EXCEPT ![dpid[d]] = Nobody] /\ dpc' = [dpc EXCEPT ![d] = "gone"]
          /\ UNCHANGED <<reused, dpid, todo, entry, file>>
      BY <1>3 DEF Reaped, Set
    <2>4. /\ dpc' \in [Daemons -> {"new", "write", "fill", "serving", "remove", "zombie", "gone"}]
          /\ \A e \in Daemons : dpc'[e] = IF e = owner[dpid[d]] THEN "gone" ELSE dpc[e]
      BY <1>1, <2>2, <2>3 DEF AddrFunctions
    <2>5. QED
      BY <1>2, <2>2, <2>3, <2>4, OwnerChanges
  <1>4. ASSUME NEW p \in PidSpace, Recycled(p) \/ OtherLeaves(p)
        PROVE  World' /\ Stable
    <2>1. PICK x \in {Other, Nobody} :
             owner' = [owner EXCEPT ![p] = x] /\ (x = Other => p \in reused')
      BY <1>2, <1>4 DEF Recycled, OtherLeaves, Occupies, Set
    <2>2. /\ reused \subseteq reused' /\ owner[p] \notin Daemons
          /\ UNCHANGED <<dpc, dpid, todo, entry, file>>
      BY <1>2, <1>4 DEF Recycled, OtherLeaves, Occupies
    <2>3. /\ dpc' \in [Daemons -> {"new", "write", "fill", "serving", "remove", "zombie", "gone"}]
          /\ \A e \in Daemons : dpc'[e] = IF e = owner[p] THEN "gone" ELSE dpc[e]
      BY <1>1, <2>2 DEF AddrFunctions
    <2>4. QED
      BY <2>1, <2>2, <2>3, OwnerChanges
  <1>5. QED
    BY <1>3, <1>4, BindKept, WriteKept, PlaceKept, RemoveKept, ExitOfDaemonKept DEF DaemonStep

\* A published daemon runs, and so has a PID.
LEMMA PublishedRuns ==
  ASSUME NEW d \in Published
  PROVE  d \in Daemons /\ d \in Held /\ dpid[d] # 0
  BY DEF Published, Running, Held

\* Whatever the daemons do, what the client has seen and comes to stays true.
LEMMA LookStays ==
  ASSUME AddrInv, World', Stable, Remember, UNCHANGED <<look, dials>>, look.at # "done"
  PROVE  AddrInv'
  <1>1. World /\ LookType /\ ReadInvs /\ PastInv
    BY DEF AddrInv
  <1>2. Held' \subseteq lived' /\ there' \subseteq Published'
    BY DEF Remember
  <1>3. look.at # "idle" => there' \subseteq there /\ lived \subseteq lived'
    BY DEF Remember
  <1>4. lived' \subseteq Daemons
    BY <1>1 DEF Remember, PastInv, Held
  <1>5. \A d \in Daemons : dpid[d] # 0 => dpid'[d] = dpid[d]
    BY DEF Stable
  <1>6. LookType'
    BY <1>1 DEF LookType
  <1>7. target' = "none" /\ ambiguity' = "none" /\ "none" \notin Daemons
    BY <1>1, AddrAssumption DEF ReadInvs, dials
  <1>8. AddressDefensible'
    BY <1>7 DEF AddressDefensible
  <1>9. PastInv'
    <2>1. ASSUME look.at \in {"list", "probe", "read"}, NEW d \in there'
          PROVE  ComesTo(d)'
      <3>1. d \in there /\ d \in Published /\ d \in Published'
        BY <1>1, <1>2, <1>3, <2>1 DEF PastInv
      <3>2. dpid'[d] = dpid[d] /\ entry'[d] = entry[d]
        BY <1>5, <3>1, PublishedRuns DEF Stable
      <3>3. ComesTo(d)
        BY <1>1, <2>1, <3>1 DEF PastInv
      <3>4. QED
        BY <3>2, <3>3 DEF ComesTo
    <2>2. QED
      BY <1>2, <1>4, <2>1 DEF PastInv
  <1>10. ReadInvs'
    <2>1. look.names \subseteq PidSpace /\ look.found \in Seq(Daemons)
      BY <1>1 DEF LookType
    <2>2. look.at = "read" /\ Min(look.names) \notin reused' =>
             \E e \in lived' : dpid'[e] = Min(look.names)
      <3>1. SUFFICES ASSUME look.at = "read", Min(look.names) \notin reused'
                     PROVE  \E e \in lived' : dpid'[e] = Min(look.names)
        OBVIOUS
      <3>2. Min(look.names) \in PidSpace
        BY <1>1, <2>1, <3>1, LeastMember, AddrAssumption DEF ReadInvs
      <3>3. Min(look.names) # 0
        BY <3>2, AddrAssumption
      <3>4. PICK e \in lived : dpid[e] = Min(look.names)
        BY <1>1, <3>1 DEF ReadInvs, Stable
      <3>5. e \in lived' /\ dpid'[e] = Min(look.names)
        BY <1>1, <1>3, <1>5, <3>1, <3>3, <3>4 DEF PastInv
      <3>6. QED
        BY <3>5
    <2>3. ASSUME NEW i \in 1..Len(look.found)
          PROVE  /\ dpid'[look.found[i]] = dpid[look.found[i]] /\ dpid[look.found[i]] # 0
                 /\ dpid[look.found[i]] \in reused' \/ look.found[i] \in lived'
      <3>1. look.found[i] \in Daemons
        BY <2>1, <2>3
      <3>2. look.at # "idle"
        BY <1>1, <2>3 DEF ReadInvs
      <3>3. QED
        BY <1>1, <1>3, <1>5, <3>1, <3>2, <2>3 DEF ReadInvs, Stable
    <2>4. \A i, j \in 1..Len(look.found) : i # j => dpid'[look.found[i]] # dpid'[look.found[j]]
      BY <1>1, <2>3 DEF ReadInvs
    <2>5. QED
      BY <1>1, <1>7, <2>2, <2>3, <2>4 DEF ReadInvs
  <1>11. QED
    BY <1>6, <1>8, <1>9, <1>10 DEF AddrInv

\* A step of the client leaves the daemons alone, and the history is theirs.
LEMMA ClientFrame ==
  ASSUME AddrInv, ClientStep, Remember
  PROVE  /\ UNCHANGED daemonPart /\ World' /\ Held' = Held /\ Published' = Published
         /\ Held' \subseteq lived' /\ lived' \subseteq Daemons /\ there' \subseteq Published'
         /\ look.at = "idle" => there' = Published
         /\ look.at # "idle" => there' = there /\ lived' = lived
  <1>1. UNCHANGED daemonPart
    BY DEF ClientStep, Resolve, ListDir, Probe, ReadEntry, NextDir, ReadControlAddr
  <1>2. UNCHANGED <<owner, reused, dpc, dpid, todo, entry, file>>
    BY <1>1 DEF daemonPart
  <1>3. World /\ PastInv
    BY DEF AddrInv
  <1>4. Held' = Held
    BY <1>2 DEF Held
  <1>5. Published' = Published
    BY <1>2, <1>4 DEF Published, Running
  <1>6. AddrFunctions' /\ FileInv'
    BY <1>2, <1>3 DEF World, AddrFunctions, FileInv
  <1>7. OwnerInv'
    BY <1>2, <1>3, <1>4 DEF World, OwnerInv
  <1>8. Held \subseteq Daemons
    BY DEF Held
  <1>9. /\ look.at = "idle" => there' = Published /\ lived' = Held
        /\ look.at # "idle" => there' = there /\ lived' = lived
    BY <1>3, <1>4, <1>5 DEF Remember, PastInv
  <1>10. QED
    BY <1>1, <1>3, <1>4, <1>5, <1>6, <1>7, <1>8, <1>9 DEF World, PastInv

\* The look ends without an answer of its own.
LEMMA LookEnds ==
  ASSUME AddrInv, ClientStep, Remember, look' = [look EXCEPT !.at = "done"],
         \/ target' = "explicit" /\ ambiguity' = "none"
         \/ target' = "default" /\ ambiguity' = "unreadable"
  PROVE  AddrInv'
  <1>1. LookType /\ ReadInvs /\ PastInv
    BY DEF AddrInv
  <1>2. /\ UNCHANGED daemonPart /\ World'
        /\ Held' \subseteq lived' /\ lived' \subseteq Daemons /\ there' \subseteq Published'
        /\ look.at # "idle" => there' = there /\ lived' = lived
    BY ClientFrame
  <1>3. /\ look' \in [at : {"idle", "list", "probe", "read", "done"}, dirs : Seq(Tiers),
                      names : SUBSET PidSpace, seen : SUBSET PidSpace, found : Seq(Daemons)]
        /\ look'.at = "done" /\ look'.seen = look.seen /\ look'.found = look.found
    BY <1>1 DEF LookType
  <1>4. PastInv' /\ LookType'
    BY <1>2, <1>3 DEF PastInv, LookType
  <1>5. AddressDefensible'
    BY AddrAssumption DEF AddressDefensible
  <1>6. ReadInvs'
    <2>1. dpid' = dpid /\ reused' = reused
      BY <1>2 DEF daemonPart
    <2>2. \A i \in 1..Len(look.found) :
             dpid[look.found[i]] # 0 /\ (dpid[look.found[i]] \in reused \/ look.found[i] \in lived')
      <3>1. CASE look.at = "idle"
        <4>1. look.found = <<>>
          BY <1>1, <3>1 DEF ReadInvs
        <4>2. QED
          BY <4>1
      <3>2. CASE look.at # "idle"
        BY <1>1, <1>2, <3>2 DEF ReadInvs
      <3>3. QED
        BY <3>1, <3>2
    <2>3. QED
      BY <1>1, <1>3, <2>1, <2>2 DEF ReadInvs
  <1>7. QED
    BY <1>2, <1>4, <1>5, <1>6 DEF AddrInv

\* The first of the directories ahead, and the ones after it.
LEMMA AheadSplits ==
  /\ Ahead(<<>>) = {}
  /\ \A s \in Seq(Tiers) : s # <<>> =>
        Tail(s) \in Seq(Tiers) /\ Head(s) \in Tiers /\ Ahead(s) \subseteq {Head(s)} \cup Ahead(Tail(s))
  <1>1. Ahead(<<>>) = {}
    BY DEF Ahead
  <1>2. ASSUME NEW s \in Seq(Tiers), s # <<>>
        PROVE  Tail(s) \in Seq(Tiers) /\ Head(s) \in Tiers
               /\ Ahead(s) \subseteq {Head(s)} \cup Ahead(Tail(s))
    <2>1. Tail(s) \in Seq(Tiers) /\ Head(s) \in Tiers /\ Head(s) = s[1] /\ Len(s) \in Nat
          /\ Len(Tail(s)) = Len(s) - 1
      BY <1>2
    <2>2. \A i \in 1..Len(Tail(s)) : Tail(s)[i] = s[i + 1]
      BY <1>2
    <2>3. ASSUME NEW i \in 1..Len(s), i # 1
          PROVE  s[i] \in Ahead(Tail(s))
      <3>1. i - 1 \in 1..Len(Tail(s)) /\ (i - 1) + 1 = i
        BY <2>1, <2>3
      <3>2. Tail(s)[i - 1] = s[i]
        BY <2>2, <3>1
      <3>3. QED
        BY <3>1, <3>2 DEF Ahead
    <2>4. QED
      BY <2>1, <2>3 DEF Ahead
  <1>3. QED
    BY <1>1, <1>2

\* The look goes on, with nothing read.
LEMMA LookGoesOn ==
  ASSUME AddrInv, ClientStep, Remember, UNCHANGED dials, look.at # "done", LookType',
         look'.at \in {"list", "probe", "read"}, look'.seen = look.seen, look'.found = look.found,
         look'.at \in {"probe", "read"} => look'.dirs # <<>>,
         look'.at = "read" => look'.names # {},
         look'.at = "read" => Min(look'.names) \notin look.seen,
         look'.at = "read" /\ Min(look'.names) \notin reused =>
            \E e \in lived' : dpid[e] = Min(look'.names),
         \A d \in there' : ComesTo(d)'
  PROVE  AddrInv'
  <1>1. /\ ReadInvs /\ PastInv /\ target = "none" /\ ambiguity = "none" /\ "none" \notin Daemons
        /\ target' = target /\ ambiguity' = ambiguity
    BY AddrAssumption DEF AddrInv, ReadInvs, dials
  <1>2. /\ UNCHANGED daemonPart /\ World'
        /\ Held' \subseteq lived' /\ lived' \subseteq Daemons /\ there' \subseteq Published'
        /\ look.at # "idle" => there' = there /\ lived' = lived
    BY ClientFrame
  <1>3. dpid' = dpid /\ reused' = reused
    BY <1>2 DEF daemonPart
  <1>4. PastInv'
    BY <1>2 DEF PastInv
  <1>5. AddressDefensible'
    BY <1>1 DEF AddressDefensible
  <1>6. \A i \in 1..Len(look.found) :
           dpid[look.found[i]] # 0 /\ (dpid[look.found[i]] \in reused \/ look.found[i] \in lived')
    <2>1. CASE look.at = "idle"
      <3>1. look.found = <<>>
        BY <1>1, <2>1 DEF ReadInvs
      <3>2. QED
        BY <3>1
    <2>2. CASE look.at # "idle"
      BY <1>1, <1>2, <2>2 DEF ReadInvs
    <2>3. QED
      BY <2>1, <2>2
  <1>7. ReadInvs'
    BY <1>1, <1>3, <1>6 DEF ReadInvs
  <1>8. QED
    BY <1>2, <1>4, <1>5, <1>7 DEF AddrInv

\* The client begins to look: every published daemon is in a directory ahead.
LEMMA ResolveKept ==
  ASSUME AddrInv, Resolve, Remember
  PROVE  AddrInv'
  <1>1. LookType /\ World /\ look.at = "idle" /\ ClientStep
    BY DEF AddrInv, Resolve, ClientStep
  <1>2. CASE target' = "explicit" /\ look' = [look EXCEPT !.at = "done"] /\ UNCHANGED ambiguity
    <2>1. ambiguity' = "none"
      BY <1>1, <1>2 DEF AddrInv, ReadInvs
    <2>2. QED
      BY <1>1, <1>2, <2>1, LookEnds
  <1>3. CASE /\ look' = [look EXCEPT !.at = "list", !.dirs = ControlAddrDirs(ClientXDG)]
             /\ UNCHANGED dials
    <2>1. ControlAddrDirs(ClientXDG) \in Seq(Tiers)
      BY DirsOf, Zenon
    <2>2. /\ look' \in [at : {"idle", "list", "probe", "read", "done"}, dirs : Seq(Tiers),
                        names : SUBSET PidSpace, seen : SUBSET PidSpace, found : Seq(Daemons)]
          /\ look'.at = "list" /\ look'.seen = look.seen /\ look'.found = look.found
          /\ look'.dirs = ControlAddrDirs(ClientXDG)
      BY <1>1, <1>3, <2>1 DEF LookType
    <2>3. LookType'
      BY <2>2 DEF LookType
    <2>4. there' = Published /\ UNCHANGED daemonPart
      BY <1>1, ClientFrame
    <2>5. entry' = entry
      BY <2>4 DEF daemonPart
    <2>6. \A d \in Published : entry[d] \in Ahead(ControlAddrDirs(ClientXDG))
      <3>1. CASE ClientXDG = TRUE
        BY <3>1, DirsOf DEF Published
      <3>2. CASE ClientXDG = FALSE
        BY <3>2, DirsOf DEF Published
      <3>3. QED
        BY <3>1, <3>2, AddrAssumption
    <2>7. \A d \in there' : ComesTo(d)'
      BY <2>2, <2>4, <2>5, <2>6 DEF ComesTo
    <2>8. QED
      BY <1>1, <1>3, <2>2, <2>3, <2>7, LookGoesOn
  <1>4. QED
    BY <1>2, <1>3 DEF Resolve

\* The address of a daemon that is published is in its file.
LEMMA PublishedIsFiled ==
  ASSUME World, NEW d \in Published
  PROVE  /\ d \in Daemons /\ entry[d] \in Tiers /\ dpid[d] \in PidSpace
         /\ file[entry[d]][dpid[d]] = d /\ owner[dpid[d]] = d
         /\ d \notin {"absent", "empty"} /\ owner[dpid[d]] # Nobody
  <1>1. d \in Daemons /\ d \in Held /\ entry[d] \in Tiers
    BY DEF Published, Running, Held, Tiers
  <1>2. "none" \notin Tiers
    BY DEF Tiers
  <1>3. dpc[d] \notin {"new", "zombie", "gone"}
    BY <1>1 DEF World, OwnerInv, Published, Running
  <1>4. dpc[d] = "serving"
    BY <1>1, <1>2, <1>3 DEF World, FileInv, AddrFunctions
  <1>5. dpid[d] \in PidSpace /\ owner[dpid[d]] = d
    BY <1>1, <1>3, UnderWay
  <1>6. QED
    BY <1>1, <1>2, <1>4, <1>5, AddrAssumption DEF World, FileInv

\* A directory is listed.
LEMMA ListDirKept ==
  ASSUME AddrInv, ListDir, Remember
  PROVE  AddrInv'
  <1>1. LookType /\ World /\ PastInv /\ look.at = "list" /\ look.dirs # <<>> /\ ClientStep
    BY DEF AddrInv, ListDir, ClientStep
  <1>2. CASE DefaultStays("unreadable")
    BY <1>1, <1>2, LookEnds DEF DefaultStays
  <1>3. ASSUME NEW N, N = {p \in PidSpace : file[Head(look.dirs)][p] # "absent"},
               look' = [look EXCEPT !.at = "probe", !.names = N], UNCHANGED dials
        PROVE  AddrInv'
    <2>a. look' = [look EXCEPT !.at = "probe", !.names = N] /\ UNCHANGED dials
      BY <1>3
    <2>b. N = {p \in PidSpace : file[Head(look.dirs)][p] # "absent"}
      BY <1>3
    <2>0. LookType /\ N \in SUBSET PidSpace
      BY <1>1, <1>3
    <2>1. look.dirs \in Seq(Tiers)
      BY <1>1 DEF LookType
    <2>2. /\ look' \in [at : {"idle", "list", "probe", "read", "done"}, dirs : Seq(Tiers),
                        names : SUBSET PidSpace, seen : SUBSET PidSpace, found : Seq(Daemons)]
          /\ look'.at = "probe" /\ look'.seen = look.seen /\ look'.found = look.found
          /\ look'.dirs = look.dirs
          /\ look'.names = N
      BY ONLY <2>a, <2>0 DEF LookType
    <2>3. LookType'
      BY <2>2 DEF LookType
    <2>4. there' = there /\ UNCHANGED daemonPart
      BY <1>1, ClientFrame
    <2>5. entry' = entry /\ dpid' = dpid
      BY <2>4 DEF daemonPart
    <2>6. ASSUME NEW d \in there'
          PROVE  ComesTo(d)'
      <3>1. d \in there /\ d \in Published /\ ComesTo(d)
        BY <1>1, <2>4, <2>6 DEF PastInv
      <3>2. dpid[d] \in PidSpace /\ file[entry[d]][dpid[d]] # "absent"
        BY <1>1, <3>1, PublishedIsFiled
      <3>3. dpid[d] \in look.seen \/ entry[d] \in Ahead(look.dirs)
        BY <1>1, <3>1 DEF ComesTo
      <3>4. dpid[d] \in look.seen \/ entry[d] = Head(look.dirs) \/ entry[d] \in Ahead(Tail(look.dirs))
        BY <1>1, <2>1, <3>3, AheadSplits
      <3>5. entry[d] = Head(look.dirs) => dpid[d] \in look'.names
        BY ONLY <2>2, <2>b, <3>2
      <3>6. QED
        BY <2>2, <2>5, <3>4, <3>5 DEF ComesTo
    <2>7. QED
      BY ONLY AddrInv, Remember, <1>1, <2>a, <2>2, <2>3, <2>6, LookGoesOn
  <1>4. QED
    BY <1>2, <1>3, Zenon DEF ListDir

\* The next directory.
LEMMA NextDirKept ==
  ASSUME AddrInv, NextDir, Remember
  PROVE  AddrInv'
  <1>1. LookType /\ World /\ PastInv /\ look.at = "probe" /\ look.names = {} /\ ClientStep
    BY DEF AddrInv, NextDir, ClientStep
  <1>2. look.dirs \in Seq(Tiers) /\ look.dirs # <<>>
    BY <1>1 DEF LookType, AddrInv, ReadInvs
  <1>3. Tail(look.dirs) \in Seq(Tiers)
    BY <1>2
  <1>4. look' = [look EXCEPT !.at = "list", !.dirs = Tail(look.dirs)] /\ dials' = dials
    BY DEF NextDir
  <1>5. /\ look' \in [at : {"idle", "list", "probe", "read", "done"}, dirs : Seq(Tiers),
                      names : SUBSET PidSpace, seen : SUBSET PidSpace, found : Seq(Daemons)]
        /\ look'.at = "list" /\ look'.seen = look.seen /\ look'.found = look.found
        /\ look'.dirs = Tail(look.dirs)
    BY <1>1, <1>3, <1>4 DEF LookType
  <1>6. LookType'
    BY <1>5 DEF LookType
  <1>7. there' = there /\ UNCHANGED daemonPart
    BY <1>1, ClientFrame
  <1>8. entry' = entry /\ dpid' = dpid
    BY <1>7 DEF daemonPart
  <1>9. ASSUME NEW d \in there'
        PROVE  ComesTo(d)'
    <2>1. ComesTo(d)
      BY <1>1, <1>7, <1>9 DEF PastInv
    <2>2. dpid[d] \in look.seen \/ entry[d] \in Ahead(Tail(look.dirs))
      BY <1>1, <2>1 DEF ComesTo
    <2>3. QED
      BY <1>5, <1>8, <2>2 DEF ComesTo
  <1>10. QED
    BY <1>1, <1>4, <1>5, <1>6, <1>9, LookGoesOn

\* A PID is passed over when it was read before or nobody has it; otherwise its
\* owner is a daemon that lives, or the PID is a reused one.
LEMMA ProbeKept ==
  ASSUME AddrInv, Probe, Remember
  PROVE  AddrInv'
  <1>1. LookType /\ World /\ PastInv /\ look.at = "probe" /\ look.names # {} /\ ClientStep
    BY DEF AddrInv, Probe, ClientStep
  <1>2. look.dirs # <<>> /\ look.names \subseteq PidSpace /\ dials' = dials
    BY <1>1 DEF LookType, AddrInv, ReadInvs, Probe
  <1>3. DEFINE p == Min(look.names)
  <1>4. p \in look.names /\ p \in PidSpace
    BY <1>1, <1>2, LeastMember, AddrAssumption
  <1>5. there' = there /\ lived' = lived /\ UNCHANGED daemonPart
    BY <1>1, ClientFrame
  <1>6. entry' = entry /\ dpid' = dpid /\ reused' = reused
    BY <1>5 DEF daemonPart
  <1>7. \A d \in there' : ComesTo(d) /\ owner[dpid[d]] # Nobody
    BY <1>1, <1>5, PublishedIsFiled DEF PastInv
  <1>8. CASE p \in look.seen \/ owner[p] = Nobody
    <2>1. look' = [look EXCEPT !.names = look.names \ {p}]
      BY <1>8 DEF Probe, PidAlive
    <2>2. /\ look' \in [at : {"idle", "list", "probe", "read", "done"}, dirs : Seq(Tiers),
                        names : SUBSET PidSpace, seen : SUBSET PidSpace, found : Seq(Daemons)]
          /\ look'.at = "probe" /\ look'.seen = look.seen /\ look'.found = look.found
          /\ look'.dirs = look.dirs /\ look'.names = look.names \ {p}
      BY <1>1, <2>1 DEF LookType
    <2>3. LookType'
      BY <2>2 DEF LookType
    <2>4. ASSUME NEW d \in there'
          PROVE  ComesTo(d)'
      <3>1. ComesTo(d) /\ owner[dpid[d]] # Nobody
        BY <1>7, <2>4
      <3>2. dpid[d] = p => dpid[d] \in look.seen
        BY <1>8, <3>1
      <3>3. QED
        BY <1>1, <1>6, <2>2, <3>1, <3>2 DEF ComesTo
    <2>5. QED
      BY <1>1, <1>2, <2>2, <2>3, <2>4, LookGoesOn
  <1>9. CASE ~(p \in look.seen \/ owner[p] = Nobody)
    <2>1. look' = [look EXCEPT !.at = "read"]
      BY <1>9 DEF Probe, PidAlive
    <2>2. /\ look' \in [at : {"idle", "list", "probe", "read", "done"}, dirs : Seq(Tiers),
                        names : SUBSET PidSpace, seen : SUBSET PidSpace, found : Seq(Daemons)]
          /\ look'.at = "read" /\ look'.seen = look.seen /\ look'.found = look.found
          /\ look'.dirs = look.dirs /\ look'.names = look.names
      BY <1>1, <2>1 DEF LookType
    <2>3. LookType'
      BY <2>2 DEF LookType
    <2>4. \A d \in there' : ComesTo(d)'
      BY <1>1, <1>6, <1>7, <2>2 DEF ComesTo
    <2>5. p \notin reused => \E e \in lived' : dpid[e] = p
      <3>1. SUFFICES ASSUME p \notin reused
                     PROVE  \E e \in lived' : dpid[e] = p
        OBVIOUS
      <3>2. owner[p] \in Daemons
        BY <1>1, <1>4, <1>9, <3>1 DEF World, AddrFunctions, OwnerInv
      <3>3. dpid[owner[p]] = p /\ p # 0
        BY <1>1, <1>4, <3>2, AddrAssumption DEF World, OwnerInv
      <3>4. owner[p] \in Held
        BY <3>2, <3>3 DEF Held
      <3>5. owner[p] \in lived'
        BY <1>1, <1>5, <3>4 DEF PastInv
      <3>6. QED
        BY <3>3, <3>5
    <2>6. Min(look'.names) \notin reused => \E e \in lived' : dpid[e] = Min(look'.names)
      BY <2>2, <2>5
    <2>7. QED
      BY <1>1, <1>2, <1>9, <2>2, <2>3, <2>4, <2>6, LookGoesOn
  <1>10. QED
    BY <1>8, <1>9

\* An address is read: the daemon it names had the PID.
LEMMA EntryFound ==
  ASSUME AddrInv, Remember, ClientStep, look.at = "read", target' = target, ambiguity' = ambiguity,
         NEW p, p = Min(look.names), NEW c \in Daemons, file[Head(look.dirs)][p] = c,
         look' = [look EXCEPT !.at = "probe", !.names = look.names \ {p},
                              !.seen = look.seen \cup {p}, !.found = Append(look.found, c)]
  PROVE  AddrInv'
  <1>1. LookType /\ World /\ ReadInvs /\ PastInv /\ look.names # {} /\ look.dirs # <<>>
        /\ target = "none" /\ ambiguity = "none" /\ "none" \notin Daemons
        /\ target' = target /\ ambiguity' = ambiguity /\ p \notin look.seen
    BY AddrAssumption DEF AddrInv, ReadInvs
  <1>2. look.names \subseteq PidSpace /\ look.dirs \in Seq(Tiers) /\ look.found \in Seq(Daemons)
        /\ look.seen \subseteq PidSpace
    BY <1>1 DEF LookType
  <1>3. p \in look.names /\ p \in PidSpace /\ p # 0
    BY <1>1, <1>2, LeastMember, AddrAssumption
  <1>4. Head(look.dirs) \in Tiers
    BY <1>1, <1>2
  <1>5. dpid[c] = p
    BY <1>1, <1>3, <1>4 DEF World, FileInv
  <1>6. /\ there' = there /\ lived' = lived /\ UNCHANGED daemonPart /\ World'
        /\ Held' \subseteq lived' /\ lived' \subseteq Daemons /\ there' \subseteq Published'
    BY ClientFrame
  <1>7. entry' = entry /\ dpid' = dpid /\ reused' = reused
    BY <1>6 DEF daemonPart
  <1>8. p \in reused \/ c \in lived
    <2>1. SUFFICES ASSUME p \notin reused
                   PROVE  c \in lived
      OBVIOUS
    <2>2. PICK e \in lived : dpid[e] = p
      BY <1>1, <2>1 DEF ReadInvs
    <2>3. e \in Daemons
      BY <1>1, <2>2 DEF PastInv
    <2>4. e = c
      BY <1>1, <1>3, <1>5, <2>1, <2>2, <2>3 DEF World, OwnerInv
    <2>5. QED
      BY <2>2, <2>4
  <1>9. Append(look.found, c) \in Seq(Daemons) /\ look.seen \cup {p} \subseteq PidSpace
    BY <1>2, <1>3
  <1>10. /\ look' \in [at : {"idle", "list", "probe", "read", "done"}, dirs : Seq(Tiers),
                       names : SUBSET PidSpace, seen : SUBSET PidSpace, found : Seq(Daemons)]
         /\ look'.at = "probe" /\ look'.seen = look.seen \cup {p}
         /\ look'.found = Append(look.found, c)
         /\ look'.dirs = look.dirs /\ look'.names = look.names \ {p}
    BY <1>1, <1>9 DEF LookType
  <1>11. LookType'
    BY <1>10 DEF LookType
  <1>12. /\ Len(look.found) \in Nat /\ Len(Append(look.found, c)) = Len(look.found) + 1
         /\ Append(look.found, c)[Len(look.found) + 1] = c
         /\ \A i \in 1..Len(look.found) : Append(look.found, c)[i] = look.found[i]
    BY <1>2
  <1>13. /\ \A i \in 1..Len(look.found) : i \in 1..(Len(look.found) + 1)
         /\ Len(look.found) + 1 \in 1..(Len(look.found) + 1)
         /\ \A i \in 1..(Len(look.found) + 1) : i \in 1..Len(look.found) \/ i = Len(look.found) + 1
    BY <1>12
  <1>14. ReadInvs'
    <2>1. ASSUME NEW q \in look'.seen
          PROVE  \E i \in 1..Len(look'.found) : dpid'[look'.found[i]] = q
      <3>1. CASE q = p
        BY <1>5, <1>7, <1>10, <1>12, <1>13, <3>1
      <3>2. CASE q \in look.seen
        <4>1. PICK i \in 1..Len(look.found) : dpid[look.found[i]] = q
          BY <1>1, <3>2 DEF ReadInvs
        <4>2. QED
          BY <1>7, <1>10, <1>12, <1>13, <4>1
      <3>3. QED
        BY <1>10, <2>1, <3>1, <3>2
    <2>2. ASSUME NEW i \in 1..Len(look'.found)
          PROVE  /\ dpid'[look'.found[i]] # 0
                 /\ dpid'[look'.found[i]] \in look'.seen
                 /\ dpid'[look'.found[i]] \in reused' \/ look'.found[i] \in lived'
      <3>1. CASE i \in 1..Len(look.found)
        BY <1>1, <1>6, <1>7, <1>10, <1>12, <3>1 DEF ReadInvs
      <3>2. CASE i = Len(look.found) + 1
        BY <1>3, <1>5, <1>6, <1>7, <1>8, <1>10, <1>12, <3>2
      <3>3. QED
        BY <1>10, <1>12, <1>13, <2>2, <3>1, <3>2
    <2>3. target' = "none" /\ ambiguity' = "none" /\ look'.at = "probe" /\ look'.dirs # <<>>
      BY <1>1, <1>10
    <2>4. ASSUME NEW i \in 1..Len(look'.found), NEW j \in 1..Len(look'.found), i # j
          PROVE  dpid'[look'.found[i]] # dpid'[look'.found[j]]
      <3>1. \A k \in 1..Len(look.found) : dpid[look.found[k]] # p
        BY <1>1 DEF ReadInvs
      <3>2. CASE i \in 1..Len(look.found) /\ j \in 1..Len(look.found)
        BY <1>1, <1>7, <1>10, <1>12, <2>4, <3>2 DEF ReadInvs
      <3>3. CASE i \in 1..Len(look.found) /\ j = Len(look.found) + 1
        BY <1>5, <1>7, <1>10, <1>12, <3>1, <3>3
      <3>4. CASE i = Len(look.found) + 1 /\ j \in 1..Len(look.found)
        BY <1>5, <1>7, <1>10, <1>12, <3>1, <3>4
      <3>5. QED
        BY <1>10, <1>12, <1>13, <2>4, <3>2, <3>3, <3>4
    <2>5. QED
      BY ONLY <2>1, <2>2, <2>3, <2>4 DEF ReadInvs
  <1>15. PastInv'
    <2>1. ASSUME NEW d \in there'
          PROVE  ComesTo(d)'
      <3>1. ComesTo(d)
        BY <1>1, <1>6, <2>1 DEF PastInv
      <3>2. QED
        BY <1>7, <1>10, <3>1 DEF ComesTo
    <2>2. QED
      BY <1>6, <2>1 DEF PastInv
  <1>16. AddressDefensible'
    BY <1>1 DEF AddressDefensible
  <1>17. QED
    BY <1>6, <1>11, <1>14, <1>15, <1>16 DEF AddrInv

\* An entry is read: gone or empty it is none, and that of no published daemon.
LEMMA ReadEntryKept ==
  ASSUME AddrInv, ReadEntry, Remember
  PROVE  AddrInv'
  <1>1. LookType /\ World /\ PastInv /\ look.at = "read" /\ ClientStep
    BY DEF AddrInv, ReadEntry, ClientStep
  <1>2. look.dirs # <<>> /\ look.names \subseteq PidSpace /\ look.names # {}
    BY <1>1 DEF LookType, AddrInv, ReadInvs
  <1>3. DEFINE p == Min(look.names)
               c == file[Head(look.dirs)][p]
  <1>4. CASE c # "absent" /\ DefaultStays("unreadable")
    BY <1>1, <1>4, LookEnds DEF DefaultStays
  <1>5. CASE c \in Daemons /\ dials' = dials
             /\ look' = [look EXCEPT !.at = "probe", !.names = look.names \ {p},
                              !.seen = look.seen \cup {p}, !.found = Append(look.found, c)]
    <2>1. target' = target /\ ambiguity' = ambiguity /\ c \in Daemons
      BY <1>5 DEF dials
    <2>2. look' = [look EXCEPT !.at = "probe", !.names = look.names \ {p},
                              !.seen = look.seen \cup {p}, !.found = Append(look.found, c)]
      BY <1>5
    <2>3. QED
      BY ONLY AddrInv, Remember, <1>1, <2>1, <2>2, EntryFound, ZenonT(30)
  <1>6. CASE c \notin Daemons /\ dials' = dials
             /\ look' = [look EXCEPT !.at = "probe", !.names = look.names \ {p}]
    <2>1. p \in look.names /\ p \in PidSpace
      BY <1>2, LeastMember, AddrAssumption
    <2>2. /\ look' \in [at : {"idle", "list", "probe", "read", "done"}, dirs : Seq(Tiers),
                        names : SUBSET PidSpace, seen : SUBSET PidSpace, found : Seq(Daemons)]
          /\ look'.at = "probe" /\ look'.seen = look.seen /\ look'.found = look.found
          /\ look'.dirs = look.dirs /\ look'.names = look.names \ {p}
      BY <1>1, <1>6 DEF LookType
    <2>3. LookType'
      BY <2>2 DEF LookType
    <2>4. there' = there /\ UNCHANGED daemonPart
      BY <1>1, ClientFrame
    <2>5. entry' = entry /\ dpid' = dpid
      BY <2>4 DEF daemonPart
    <2>6. ASSUME NEW d \in there'
          PROVE  ComesTo(d)'
      <3>1. d \in Published /\ ComesTo(d)
        BY <1>1, <2>4, <2>6 DEF PastInv
      <3>2. d \in Daemons /\ file[entry[d]][dpid[d]] = d
        BY <1>1, <3>1, PublishedIsFiled
      <3>3. ~(entry[d] = Head(look.dirs) /\ dpid[d] = p)
        BY <1>6, <3>2
      <3>4. QED
        BY <1>1, <2>2, <2>5, <3>1, <3>3 DEF ComesTo
    <2>7. QED
      BY <1>1, <1>2, <1>6, <2>2, <2>3, <2>6, LookGoesOn
  <1>7. QED
    BY <1>4, <1>5, <1>6 DEF ReadEntry

\* What the client does with the addresses it has found.
LEMMA AnswerIs ==
  ASSUME ReadControlAddr
  PROVE  /\ look' = [look EXCEPT !.at = "done"]
         /\ \/ Len(look.found) = 0 /\ target' = "default" /\ ambiguity' = "none"
            \/ Len(look.found) = 1 /\ target' = look.found[1] /\ ambiguity' = ambiguity
            \/ Len(look.found) \notin {0, 1} /\ target' = "default" /\ ambiguity' = "several"
  <1>1. CASE Len(look.found) = 0
    BY <1>1 DEF ReadControlAddr, DefaultStays
  <1>2. CASE Len(look.found) = 1
    BY <1>2 DEF ReadControlAddr, DefaultStays
  <1>3. CASE Len(look.found) # 0 /\ Len(look.found) # 1
    BY <1>3 DEF ReadControlAddr, DefaultStays
  <1>4. QED
    BY <1>1, <1>2, <1>3

\* The answer: several addresses are no choice; the only one is that of every
\* daemon that was published all along, and where none was read none was.
LEMMA ReadControlAddrKept ==
  ASSUME AddrInv, ReadControlAddr, Remember
  PROVE  AddrInv'
  <1>1. /\ LookType /\ World /\ ReadInvs /\ PastInv /\ look.at = "list" /\ look.dirs = <<>>
        /\ ClientStep /\ look.found \in Seq(Daemons)
    BY DEF AddrInv, ReadControlAddr, ClientStep, LookType
  <1>a. look' = [look EXCEPT !.at = "done"]
    BY AnswerIs
  <1>2. /\ there' = there /\ lived' = lived /\ UNCHANGED daemonPart /\ World'
        /\ Held' \subseteq lived' /\ lived' \subseteq Daemons /\ there' \subseteq Published'
    BY <1>1, ClientFrame
  <1>3. dpid' = dpid /\ reused' = reused
    BY <1>2 DEF daemonPart
  <1>4. /\ look' \in [at : {"idle", "list", "probe", "read", "done"}, dirs : Seq(Tiers),
                      names : SUBSET PidSpace, seen : SUBSET PidSpace, found : Seq(Daemons)]
        /\ look'.at = "done" /\ look'.seen = look.seen /\ look'.found = look.found
    BY <1>1, <1>a DEF LookType
  <1>5. LookType' /\ PastInv'
    BY <1>2, <1>4 DEF LookType, PastInv
  <1>6. ReadInvs'
    <2>1. /\ \A q \in look.seen : \E i \in 1..Len(look.found) : dpid[look.found[i]] = q
          /\ \A i \in 1..Len(look.found) :
                /\ dpid[look.found[i]] # 0 /\ dpid[look.found[i]] \in look.seen
                /\ dpid[look.found[i]] \in reused \/ look.found[i] \in lived
      BY <1>1 DEF ReadInvs
    <2>2. /\ \A q \in look'.seen : \E i \in 1..Len(look'.found) : dpid'[look'.found[i]] = q
          /\ \A i \in 1..Len(look'.found) :
                /\ dpid'[look'.found[i]] # 0 /\ dpid'[look'.found[i]] \in look'.seen
                /\ dpid'[look'.found[i]] \in reused' \/ look'.found[i] \in lived'
      BY <1>2, <1>3, <1>4, <2>1
    <2>3. \A i, j \in 1..Len(look'.found) : i # j => dpid'[look'.found[i]] # dpid'[look'.found[j]]
      BY <1>1, <1>3, <1>4 DEF ReadInvs
    <2>4. QED
      BY ONLY <1>4, <2>2, <2>3 DEF ReadInvs
  <1>7. \A d \in there : d \in Daemons /\ \E i \in 1..Len(look.found) : dpid[look.found[i]] = dpid[d]
    <2>1. ASSUME NEW d \in there
          PROVE  d \in Daemons /\ dpid[d] \in look.seen
      <3>1. d \in Published /\ ComesTo(d)
        BY <1>1, <2>1 DEF PastInv
      <3>2. entry[d] \notin Ahead(look.dirs)
        BY <1>1, AheadSplits
      <3>3. QED
        BY <1>1, <3>1, <3>2, PublishedIsFiled DEF ComesTo
    <2>2. QED
      BY <1>1, <2>1 DEF ReadInvs
  <1>8. AddressDefensible'
    <2>1. CASE Len(look.found) = 0 /\ target' = "default" /\ ambiguity' = "none"
      <3>1. \A i : i \notin 1..0
        OBVIOUS
      <3>2. \A i : i \notin 1..Len(look.found)
        BY ONLY <2>1, <3>1, Zenon
      <3>3. there = {}
        BY ONLY <1>7, <3>2, Zenon
      <3>4. QED
        BY <1>2, <2>1, <3>3, AddrAssumption DEF AddressDefensible
    <2>2. CASE Len(look.found) = 1 /\ target' = look.found[1] /\ ambiguity' = ambiguity
      <3>1. 1 \in 1..1 /\ \A i \in 1..1 : i = 1
        OBVIOUS
      <3>2. 1 \in 1..Len(look.found) /\ \A i \in 1..Len(look.found) : i = 1
        BY ONLY <2>2, <3>1, Zenon
      <3>3. target' \in Daemons /\ dpid[target'] # 0
            /\ (dpid[target'] \in reused \/ target' \in lived)
        <4>1. look.found[1] \in Daemons
          BY <1>1, <3>2
        <4>2. QED
          BY <1>1, <2>2, <3>2, <4>1, Zenon DEF ReadInvs
      <3>4. \A d \in there : d \in Daemons /\ dpid[d] = dpid[target']
        BY ONLY <1>7, <2>2, <3>2, Zenon
      <3>5. dpid[target'] \notin reused => there \subseteq {target'}
        BY <1>1, <3>3, <3>4 DEF World, OwnerInv
      <3>6. target' # "default" /\ ambiguity' = "none"
        BY <1>1, <2>2, <3>3, AddrAssumption DEF ReadInvs
      <3>7. QED
        BY <1>2, <1>3, <3>3, <3>5, <3>6 DEF AddressDefensible
    <2>3. CASE Len(look.found) \notin {0, 1} /\ target' = "default" /\ ambiguity' = "several"
      \* The first two addresses read are those of two daemons.
      <3>0. Len(look.found) \in Nat
        BY <1>1
      <3>a. \A n \in Nat : n \notin {0, 1} => 1 \in 1..n /\ 2 \in 1..n
        OBVIOUS
      <3>1. 1 \in 1..Len(look.found) /\ 2 \in 1..Len(look.found)
        BY ONLY <2>3, <3>0, <3>a, Zenon
      <3>2. dpid[look.found[1]] # dpid[look.found[2]]
        BY <1>1, <3>1 DEF ReadInvs
      <3>3. reused = {} => look.found[1] \in lived /\ look.found[2] \in lived
        BY <1>1, <3>1 DEF ReadInvs
      <3>4. reused' = {} => \E d, e \in lived' : d # e
        BY <1>2, <1>3, <3>2, <3>3
      <3>5. QED
        BY <2>3, <3>4, AddrAssumption DEF AddressDefensible
    <2>4. QED
      BY <2>1, <2>2, <2>3, AnswerIs
  <1>9. QED
    BY <1>2, <1>5, <1>6, <1>8 DEF AddrInv

\* Nobody is there at first.
LEMMA AddrInitInv ==
  ASSUME AddrInit
  PROVE  AddrInv
  <1>1. AddrFunctions
    BY DEF AddrInit, AddrFunctions
  <1>2. Held = {}
    BY DEF AddrInit, Held
  <1>3. OwnerInv
    BY <1>2, AddrAssumption DEF AddrInit, OwnerInv, Nobody, Other
  <1>4. FileInv
    BY AddrAssumption DEF AddrInit, FileInv
  <1>5. <<>> \in Seq(Tiers) /\ <<>> \in Seq(Daemons) /\ \A i : i \notin 1..Len(<<>>)
    OBVIOUS
  <1>6. look = [at |-> "idle", dirs |-> <<>>, names |-> {}, seen |-> {}, found |-> <<>>]
        /\ target = "none" /\ there = {} /\ lived = {}
    BY DEF AddrInit
  <1>13. ambiguity = "none"
    BY DEF AddrInit
  <1>7. LookType
    BY <1>5, <1>6 DEF LookType
  <1>8. look.at = "idle" /\ look.found = <<>> /\ look.seen = {}
    BY <1>6
  <1>9. ReadInvs
    <2>1. \A i : i \notin 1..Len(look.found)
      BY <1>5, <1>8
    <2>2. QED
      BY <1>6, <1>8, <1>13, <2>1 DEF ReadInvs
  <1>10. PastInv
    BY <1>2, <1>6, <1>8 DEF PastInv
  <1>11. AddressDefensible
    BY <1>6, <1>13, AddrAssumption DEF AddressDefensible
  <1>12. QED
    BY <1>1, <1>3, <1>4, <1>7, <1>9, <1>10, <1>11 DEF AddrInv, World

\* The address a client finds by itself is the only defensible choice, however
\* many daemons and PIDs there are and wherever between two system calls a
\* daemon binds, publishes, leaves or is killed (pkg/cli/control_target.go,
\* core/config/control_addr.go).
THEOREM ControlAddressDefensible == AddrSpec => []AddressDefensible
  <1>1. AddrInit => AddrInv
    BY AddrInitInv
  <1>2. ASSUME AddrInv, [AddrNext]_addrVars
        PROVE  AddrInv'
    <2>1. CASE UNCHANGED addrVars
      <3>1. UNCHANGED <<owner, reused, dpc, dpid, todo, entry, file, look, target,
                       ambiguity, there, lived>>
        BY <2>1 DEF addrVars
      <3>2. Held' = Held
        BY <3>1 DEF Held
      <3>3. Published' = Published
        BY <3>1, <3>2 DEF Published, Running
      <3>4. AddrFunctions' /\ OwnerInv' /\ FileInv'
        BY <1>2, <3>1, <3>2 DEF AddrInv, World, AddrFunctions, OwnerInv, FileInv
      <3>5. LookType' /\ ReadInvs' /\ AddressDefensible'
        BY <1>2, <3>1 DEF AddrInv, LookType, ReadInvs, AddressDefensible
      <3>6. \A d : ComesTo(d)' <=> ComesTo(d)
        BY <3>1 DEF ComesTo
      <3>7. PastInv'
        BY <1>2, <3>1, <3>2, <3>3, <3>6 DEF AddrInv, PastInv
      <3>8. QED
        BY <3>4, <3>5, <3>7 DEF AddrInv, World
    <2>2. CASE AddrNext
      <3>1. look.at # "done" /\ Remember /\ World
        BY <1>2, <2>2 DEF AddrNext, AddrInv
      <3>2. CASE DaemonStep
        <4>1. World' /\ Stable
          BY <3>1, <3>2, DaemonStepKept
        <4>2. UNCHANGED <<look, dials>>
          BY <3>2 DEF DaemonStep
        <4>3. QED
          BY <1>2, <3>1, <4>1, <4>2, LookStays
      <3>3. CASE ClientStep
        BY <1>2, <3>1, <3>3, ResolveKept, ListDirKept, ProbeKept, ReadEntryKept, NextDirKept,
           ReadControlAddrKept DEF ClientStep
      <3>4. QED
        BY <2>2, <3>2, <3>3 DEF AddrNext
    <2>3. QED
      BY <1>2, <2>1, <2>2
  <1>3. AddrInv => AddressDefensible
    BY DEF AddrInv
  <1>4. QED
    BY <1>1, <1>2, <1>3, PTL DEF AddrSpec
=============================================================================
