--------------------------- MODULE EventBusProofs ---------------------------
(***************************************************************************)
(* Proofs about the event bus, for any number of publishers, events and    *)
(* subscriptions of any kind, and any depth of the queues.                 *)
(***************************************************************************)
EXTENDS EventBus, Integers, TLAPS

-----------------------------------------------------------------------------
(* Queues.                                                                 *)

\* Taking the oldest event moves every other one up by one place.
LEMMA QueueTail ==
  ASSUME NEW S, NEW q \in Seq(S), q # <<>>
  PROVE  /\ Len(q) \in Nat \ {0} /\ Head(q) = q[1] /\ q[1] \in S
         /\ Tail(q) \in Seq(S) /\ Len(Tail(q)) = Len(q) - 1
         /\ \A i \in 1..(Len(q) - 1) : Tail(q)[i] = q[i + 1]
  OBVIOUS

\* Enqueue leaves what is queued in its place.
LEMMA QueueAppend ==
  ASSUME NEW S, NEW q \in Seq(S), NEW e \in S
  PROVE  /\ Enqueue(q, e) \in Seq(S) /\ Len(Enqueue(q, e)) = Len(q) + 1
         /\ Len(q) \in Nat /\ \A i \in 1..Len(q) : Enqueue(q, e)[i] = q[i]
         /\ Enqueue(q, e)[Len(q) + 1] = e
  BY DEF Enqueue

\* What a queue holds are numbered events of publishers.
LEMMA QueueEvents ==
  ASSUME NEW q \in Seq(Events), NEW i \in 1..Len(q)
  PROVE  q[i] \in Events /\ q[i].from \in Publishers /\ q[i].n \in Nat
  <1>1. q[i] \in Events
    OBVIOUS
  <1> QED BY <1>1, BusAssumption DEF Events

-----------------------------------------------------------------------------
(* Type correctness.  A publisher inside a dispatch has an event, and one  *)
(* about to increment a drop counter knows whose.                          *)

MidDispatch ==
    \A p \in Publishers :
        /\ ppc[p] # "idle" => ev[p] \in Events /\ ev[p].from = p
                                               /\ ev[p].n = published[p]
        /\ ppc[p] = "dropping" => dropCount[p] \in Subs \X Nat

TypeInv == TypeOK /\ MidDispatch

\* The initial state.
LEMMA TypeInit == Init => TypeInv
  <1> SUFFICES ASSUME Init PROVE TypeInv
    OBVIOUS
  <1> USE BusAssumption DEF Init
  <1>1. TypeSubs
    BY DEF TypeSubs
  <1>2. TypeQueues
    BY DEF TypeQueues
  <1>3. TypePublishers
    BY DEF TypePublishers
  <1>4. MidDispatch
    BY DEF MidDispatch
  <1> QED BY <1>1, <1>2, <1>3, <1>4 DEF TypeInv, TypeOK

\* A publisher's own steps.
LEMMA TypeDispatch ==
  ASSUME TypeInv, NEW p \in Publishers, Publish(p) \/ Dispatch(p)
  PROVE  TypeInv'
  <1> USE BusAssumption DEF Publish, Dispatch, Send, DropRead, DropWrite,
        EndDispatch, busVars
  <1>1. TypeSubs'
    <2>1. CASE DropWrite(p)
      <3>1. dropCount[p][1] \in Subs /\ dropCount[p][2] + 1 \in Nat
        <4>1. dropCount[p] \in Subs \X Nat
          BY <2>1 DEF TypeInv, MidDispatch
        <4> QED BY ONLY <4>1
      <3>2. drops' \in [Subs -> Nat]
        BY <2>1, <3>1 DEF TypeInv, TypeOK, TypeSubs
      <3> QED BY <2>1, <3>2 DEF TypeInv, TypeOK, TypeSubs
    <2>2. CASE ~DropWrite(p)
      <3>1. lost' \in [Subs -> Nat]
        BY <2>2 DEF TypeInv, TypeOK, TypeSubs, TypePublishers
      <3>2. UNCHANGED <<closed, registered, sub, removing, fired, left, drops>>
        BY <2>2
      <3> QED BY <3>1, <3>2 DEF TypeInv, TypeOK, TypeSubs
    <2> QED BY <2>1, <2>2
  <1>2. TypeQueues'
    <2>1. CASE Send(p)
      <3>1. PICK s \in todo[p] : /\ ~Full(s)
                                 /\ queue' = [queue EXCEPT ![s] = Enqueue(@, ev[p])]
        BY <2>1
      <3>2. s \in Subs /\ ev[p] \in Events /\ queue[s] \in Seq(Events)
        BY <2>1 DEF TypeInv, TypeOK, TypePublishers, TypeQueues, MidDispatch
      <3>3. /\ Enqueue(queue[s], ev[p]) \in Seq(Events)
            /\ Len(Enqueue(queue[s], ev[p])) = Len(queue[s]) + 1
        BY ONLY <3>2, QueueAppend
      <3>4. Len(queue[s]) \in Nat /\ Len(queue[s]) < Depth
        BY ONLY <3>1, <3>2, BusAssumption DEF Full
      <3>5. queue \in [Subs -> Seq(Events)] /\ \A x \in Subs : Len(queue[x]) <= Depth
        BY DEF TypeInv, TypeOK, TypeQueues
      <3>6. queue' \in [Subs -> Seq(Events)]
        BY ONLY <3>1, <3>2, <3>3, <3>5
      <3>7. \A x \in Subs : Len(queue'[x]) <= Depth
        BY ONLY <3>1, <3>2, <3>3, <3>4, <3>5, BusAssumption
      <3> QED BY <2>1, <3>6, <3>7 DEF TypeInv, TypeOK, TypeQueues
    <2>2. CASE ~Send(p)
      <3>1. UNCHANGED <<queue, seen>>
        BY <2>2
      <3> QED BY <3>1 DEF TypeInv, TypeOK, TypeQueues
    <2> QED BY <2>1, <2>2
  <1>3. TypePublishers' /\ MidDispatch'
    <2>1. CASE Publish(p)
      BY <2>1 DEF TypeInv, TypeOK, TypePublishers, TypeSubs, MidDispatch, Events
    <2>2. CASE Send(p) \/ EndDispatch(p)
      <3>1. /\ UNCHANGED <<dropCount, published>>
            /\ \A q \in Publishers \ {p} : ppc'[q] = ppc[q] /\ ev'[q] = ev[q]
            /\ ppc'[p] = "idle" \/ (ppc'[p] = "sending" /\ UNCHANGED ev)
        BY <2>2 DEF TypeInv, TypeOK, TypePublishers
      <3>2. TypePublishers'
        BY <2>2 DEF TypeInv, TypeOK, TypePublishers
      <3>3. MidDispatch'
        BY <3>1 DEF TypeInv, TypeOK, TypePublishers, MidDispatch
      <3> QED BY <3>2, <3>3
    <2>3. CASE DropRead(p)
      <3>1. PICK s \in todo[p] :
              /\ dropCount' = [dropCount EXCEPT ![p] = <<s, drops[s]>>]
              /\ todo' = [todo EXCEPT ![p] = @ \ {s}]
        BY <2>3
      <3>2. <<s, drops[s]>> \in Subs \X Nat
        BY DEF TypeInv, TypeOK, TypePublishers, TypeSubs
      <3> QED
        BY <2>3, <3>1, <3>2 DEF TypeInv, TypeOK, TypePublishers, MidDispatch
    <2>4. CASE DropWrite(p)
      BY <2>4 DEF TypeInv, TypeOK, TypePublishers, MidDispatch
    <2> QED BY <2>1, <2>2, <2>3, <2>4
  <1> QED BY <1>1, <1>2, <1>3 DEF TypeInv, TypeOK

\* A subscription comes or goes, or the bus closes.
LEMMA TypeLifetime ==
  ASSUME TypeInv, NEW s \in Subs,
         Lifetime(s) \/ RemoveSelf(s) \/ Close
  PROVE  TypeInv'
  <1> USE DEF Lifetime, Subscribe, Unsubscribe, EndContext, RemoveSelf, Close,
        RemoveByID, Drop, Own, Alike
  <1>1. UNCHANGED <<queue, seen, ppc, ev, todo, dropCount, published>>
    BY DEF pubVars
  <1>2. TypeSubs'
    BY DEF TypeInv, TypeOK, TypeSubs
  <1> QED
    BY <1>1, <1>2 DEF TypeInv, TypeOK, TypeQueues, TypePublishers, MidDispatch

\* A handler is given the next event.
LEMMA TypeDeliver ==
  ASSUME TypeInv, NEW s \in Subs, Deliver(s)
  PROVE  TypeInv'
  <1>1. UNCHANGED <<closed, registered, sub, left, drops, lost>> /\ UNCHANGED pubVars
    BY DEF Deliver
  <1>2. queue[s] \in Seq(Events) /\ queue[s] # <<>>
    BY DEF TypeInv, TypeOK, TypeQueues, Deliver
  <1>3. Head(queue[s]) \in Events /\ Tail(queue[s]) \in Seq(Events)
    BY <1>2, QueueTail
  <1>4. Len(Tail(queue[s])) = Len(queue[s]) - 1 /\ Len(queue[s]) \in Nat
    BY <1>2, QueueTail
  <1>5. queue' \in [Subs -> Seq(Events)] /\ \A x \in Subs : Len(queue'[x]) <= Depth
    BY <1>3, <1>4, BusAssumption DEF TypeInv, TypeOK, TypeQueues, Deliver
  <1>6. seen' \in [Subs -> [Publishers -> 0..MaxEvents]]
    <2> DEFINE e == Head(queue[s])
    <2>1. e.from \in Publishers /\ e.n \in 0..MaxEvents
      BY <1>3, BusAssumption DEF Events
    <2>2. seen[s] \in [Publishers -> 0..MaxEvents]
      BY DEF TypeInv, TypeOK, TypeQueues
    <2>3. [seen[s] EXCEPT ![e.from] = e.n] \in [Publishers -> 0..MaxEvents]
      BY <2>1, <2>2
    <2>4. \/ seen' = [seen EXCEPT ![s] = [seen[s] EXCEPT ![e.from] = e.n]]
          \/ seen' = seen
      BY DEF Deliver
    <2> QED BY <2>3, <2>4 DEF TypeInv, TypeOK, TypeQueues
  <1>7. removing' \subseteq Subs /\ fired' \subseteq Subs
    BY DEF TypeInv, TypeOK, TypeSubs, Deliver
  <1> QED
    BY <1>1, <1>5, <1>6, <1>7
    DEF TypeInv, TypeOK, TypeSubs, TypeQueues, TypePublishers, MidDispatch, pubVars

\* Every step keeps the types.
LEMMA TypeStep == TypeInv /\ [Next]_vars => TypeInv'
  <1> SUFFICES ASSUME TypeInv, [Next]_vars PROVE TypeInv'
    OBVIOUS
  <1>1. ASSUME NEW p \in Publishers, Publish(p) \/ Dispatch(p) PROVE TypeInv'
    BY <1>1, TypeDispatch
  <1>2. ASSUME NEW s \in Subs, Lifetime(s) \/ RemoveSelf(s) PROVE TypeInv'
    BY <1>2, TypeLifetime
  <1>3. ASSUME NEW s \in Subs, Deliver(s) PROVE TypeInv'
    BY <1>3, TypeDeliver
  <1>4. CASE Close
    <2>1. UNCHANGED <<queue, seen, ppc, ev, todo, dropCount, published>>
      BY <1>4 DEF Close, pubVars
    <2>2. TypeSubs'
      BY <1>4 DEF Close, TypeInv, TypeOK, TypeSubs
    <2> QED
      BY <2>1, <2>2 DEF TypeInv, TypeOK, TypeQueues, TypePublishers, MidDispatch
  <1>5. CASE UNCHANGED vars
    BY <1>5 DEF vars, busVars, pubVars, TypeInv, TypeOK, TypeSubs, TypeQueues,
                TypePublishers, MidDispatch
  <1> QED BY <1>1, <1>2, <1>3, <1>4, <1>5 DEF Next, Delivery

\* The bus keeps its types and never holds more than Depth events for a
\* subscriber, whoever publishes, subscribes and leaves at the same time.
THEOREM BusTypeCorrect == Spec => []TypeOK
  <1>1. Init => TypeInv
    BY TypeInit
  <1>2. TypeInv /\ [Next]_vars => TypeInv'
    BY TypeStep
  <1> QED BY <1>1, <1>2, PTL DEF Spec, TypeInv

-----------------------------------------------------------------------------
(* No send on a closed queue.  NoSendOnClosed is not inductive: that a     *)
(* writer finds no dispatch under way says nothing about todo unless an    *)
(* idle publisher has nothing left to send, and a dispatch that starts     *)
(* finds only open queues because nothing else is registered.              *)

LockInv ==
    /\ \A p \in Publishers : ppc[p] = "idle" => todo[p] = {}
    /\ \A s \in registered : sub[s] = "open"
    /\ NoSendOnClosed

\* Every step keeps the lock's protection.
LEMMA LockStep == TypeOK /\ LockInv /\ [Next]_vars => LockInv'
  <1> SUFFICES ASSUME TypeOK, LockInv, [Next]_vars PROVE LockInv'
    OBVIOUS
  <1> USE DEF LockInv, NoSendOnClosed
  <1>1. ASSUME NEW p \in Publishers, Publish(p) PROVE LockInv'
    BY <1>1 DEF Publish, busVars, TypeOK, TypePublishers, TypeSubs
  <1>2. ASSUME NEW p \in Publishers, Dispatch(p) PROVE LockInv'
    <2>1. /\ UNCHANGED busVars
          /\ \A q \in Publishers : todo'[q] \subseteq todo[q]
          /\ \A q \in Publishers : ppc'[q] = "idle" => todo'[q] = {}
      BY <1>2 DEF Dispatch, Send, DropRead, DropWrite, EndDispatch, TypeOK,
                  TypePublishers
    <2> QED BY <2>1 DEF busVars
  <1>3. ASSUME NEW s \in Subs, Lifetime(s) \/ RemoveSelf(s) PROVE LockInv'
    <2>1. UNCHANGED <<ppc, todo>> /\ WriteLock
      BY <1>3 DEF Lifetime, Subscribe, Unsubscribe, EndContext, RemoveSelf,
                  RemoveByID, pubVars
    <2>2. \A p \in Publishers : todo[p] = {}
      BY <2>1 DEF WriteLock
    <2>3. \/ registered' = registered \cup {s} /\ sub' = [sub EXCEPT ![s] = "open"]
          \/ \E x \in registered : Drop(x)
          \/ UNCHANGED <<registered, sub>>
      BY <1>3 DEF Lifetime, Subscribe, Unsubscribe, EndContext, RemoveSelf,
                  RemoveByID, Own, Alike
    <2>4. \A x \in registered' : sub'[x] = "open"
      BY <2>3 DEF Drop, TypeOK, TypeSubs
    <2> QED BY <2>1, <2>2, <2>4
  <1>4. ASSUME NEW s \in Subs, Deliver(s) PROVE LockInv'
    BY <1>4 DEF Deliver, pubVars
  <1>5. CASE Close
    BY <1>5 DEF Close, WriteLock, pubVars
  <1>6. CASE UNCHANGED vars
    BY <1>6 DEF vars, busVars, pubVars
  <1> QED BY <1>1, <1>2, <1>3, <1>4, <1>5, <1>6 DEF Next, Delivery

\* stop's rule "THE CALLER MUST HOLD THE BUS WRITE LOCK" is enough: a send
\* never meets a closed channel.
THEOREM SendsAreSafe == Spec => []NoSendOnClosed
  <1>1. Init => LockInv
    BY DEF Init, LockInv, NoSendOnClosed
  <1>2. TypeOK /\ LockInv /\ [Next]_vars => LockInv'
    BY LockStep
  <1> QED BY <1>1, <1>2, BusTypeCorrect, PTL DEF Spec, LockInv

-----------------------------------------------------------------------------
(* Per-subscriber order.  OrderKept needs to know that what a dispatch is  *)
(* about to enqueue is newer than everything its subscriber was given      *)
(* before: all of that was published earlier by the same publisher.        *)

\* s was given nothing newer than the n-th event of p.
AtMost(s, p, n) ==
    /\ seen[s][p] <= n
    /\ \A i \in 1..Len(queue[s]) : queue[s][i].from = p => queue[s][i].n <= n

OrderInv ==
    /\ \A p \in Publishers, s \in Subs :
          /\ AtMost(s, p, published[p])
          /\ s \in todo[p] => AtMost(s, p, published[p] - 1)
    /\ \A p \in Publishers : ppc[p] = "idle" => todo[p] = {}
    /\ OrderKept

\* An event newer than all of the queue goes to its end.
LEMMA OrderSend ==
  ASSUME TypeInv, OrderInv, NEW p \in Publishers, Send(p)
  PROVE  OrderInv'
  <1>1. PICK s \in todo[p] :
          /\ queue' = [queue EXCEPT ![s] = Enqueue(@, ev[p])]
          /\ todo' = [todo EXCEPT ![p] = @ \ {s}]
    BY DEF Send
  <1>2. UNCHANGED <<ppc, published, seen>> /\ ppc[p] = "sending"
    BY DEF Send
  <1>3. /\ s \in Subs /\ queue[s] \in Seq(Events) /\ ev[p] \in Events
        /\ ev[p].from = p /\ ev[p].n = published[p] /\ published[p] \in Nat
    BY <1>2, BusAssumption DEF TypeInv, TypeOK, TypePublishers, TypeQueues, MidDispatch
  <1>4. /\ \A x \in Subs \ {s} : queue'[x] = queue[x]
        /\ queue'[s] = Enqueue(queue[s], ev[p])
    BY <1>1, <1>3 DEF TypeInv, TypeOK, TypeQueues
  <1>5. /\ Len(queue'[s]) = Len(queue[s]) + 1 /\ Len(queue[s]) \in Nat
        /\ \A i \in 1..Len(queue[s]) : queue'[s][i] = queue[s][i]
        /\ queue'[s][Len(queue[s]) + 1] = ev[p]
    <2> DEFINE q == queue[s]
               e == ev[p]
    <2>1. /\ Len(Enqueue(q, e)) = Len(q) + 1 /\ Len(q) \in Nat
          /\ \A i \in 1..Len(q) : Enqueue(q, e)[i] = q[i]
          /\ Enqueue(q, e)[Len(q) + 1] = e
      <3>1. q \in Seq(Events) /\ e \in Events
        BY <1>3
      <3> HIDE DEF q, e
      <3> QED BY ONLY <3>1, QueueAppend
    <2> QED BY ONLY <1>4, <2>1
  <1>6. \A i \in 1..Len(queue[s]) :
          /\ queue[s][i].from \in Publishers /\ queue[s][i].n \in Nat
          /\ seen[s][queue[s][i].from] \in Nat
    <2>1. seen[s] \in [Publishers -> Nat]
      BY <1>3, BusAssumption DEF TypeInv, TypeOK, TypeQueues
    <2> QED BY ONLY <1>3, <2>1, QueueEvents
  <1>7. AtMost(s, p, published[p] - 1)
    BY <1>3 DEF OrderInv
  <1>8. todo' \in [Publishers -> SUBSET Subs] /\ s \notin todo'[p]
        /\ \A q \in Publishers : todo'[q] \subseteq todo[q]
    BY <1>1 DEF TypeInv, TypeOK, TypePublishers
  <1>9. OrderKept'
    <2>1. ASSUME NEW x \in Subs \ {s}, NEW i \in 1..Len(queue'[x])
          PROVE  /\ queue'[x][i].n > seen'[x][queue'[x][i].from]
                 /\ \A j \in 1..Len(queue'[x]) :
                      j < i /\ queue'[x][j].from = queue'[x][i].from
                      => queue'[x][j].n < queue'[x][i].n
      BY <1>2, <1>4 DEF OrderInv, OrderKept
    <2>2. ASSUME NEW i \in 1..Len(queue'[s])
          PROVE  /\ queue'[s][i].n > seen'[s][queue'[s][i].from]
                 /\ \A j \in 1..Len(queue'[s]) :
                      j < i /\ queue'[s][j].from = queue'[s][i].from
                      => queue'[s][j].n < queue'[s][i].n
      <3>1. CASE i \in 1..Len(queue[s])
        <4>1. /\ queue[s][i].n > seen[s][queue[s][i].from]
              /\ \A j \in 1..Len(queue[s]) :
                    j < i /\ queue[s][j].from = queue[s][i].from
                    => queue[s][j].n < queue[s][i].n
          BY <1>3, <3>1 DEF OrderInv, OrderKept
        <4>2. \A j \in 1..Len(queue'[s]) : j < i => j \in 1..Len(queue[s])
          BY ONLY <1>5, <3>1
        <4> QED BY ONLY <1>2, <1>5, <3>1, <4>1, <4>2
      <3>2. CASE i = Len(queue[s]) + 1
        <4>1. queue'[s][i].n > seen'[s][queue'[s][i].from]
          <5>1. seen[s][p] <= published[p] - 1 /\ seen[s][p] \in Nat
            BY <1>3, <1>7, BusAssumption DEF AtMost, TypeInv, TypeOK, TypeQueues
          <5>2. queue'[s][i] = ev[p]
            BY ONLY <1>5, <3>2
          <5> QED BY ONLY <1>2, <1>3, <5>1, <5>2
        <4>2. \A j \in 1..Len(queue[s]) :
                queue[s][j].from = p => queue[s][j].n < published[p]
          BY <1>3, <1>6, <1>7 DEF AtMost
        <4> QED BY ONLY <1>3, <1>5, <3>2, <4>1, <4>2
      <3> QED BY ONLY <1>5, <2>2, <3>1, <3>2
    <2> QED BY <2>1, <2>2 DEF OrderKept
  <1>10. ASSUME NEW q \in Publishers, NEW x \in Subs
         PROVE  /\ AtMost(x, q, published[q])'
                /\ x \in todo'[q] => AtMost(x, q, published[q] - 1)'
    <2>1. CASE x # s
      BY <1>2, <1>4, <1>8, <2>1 DEF OrderInv, AtMost
    <2>2. CASE x = s
      <3>1. AtMost(s, q, published[q])
        BY <1>3 DEF OrderInv
      <3>2. ASSUME NEW n \in Int, AtMost(s, q, n), q = p => published[p] <= n
            PROVE  AtMost(s, q, n)'
        <4>1. seen'[s][q] <= n
          BY ONLY <1>2, <3>2 DEF AtMost
        <4>2. ASSUME NEW i \in 1..Len(queue'[s]), queue'[s][i].from = q
              PROVE  queue'[s][i].n <= n
          <5>1. CASE i \in 1..Len(queue[s])
            BY ONLY <1>5, <3>2, <4>2, <5>1 DEF AtMost
          <5>2. CASE i = Len(queue[s]) + 1
            BY ONLY <1>3, <1>5, <3>2, <4>2, <5>2
          <5> QED BY ONLY <1>5, <4>2, <5>1, <5>2
        <4> QED BY ONLY <4>1, <4>2 DEF AtMost
      <3>3. published' = published /\ published[q] \in Nat
        BY <1>2, BusAssumption DEF TypeInv, TypeOK, TypePublishers
      <3>4. AtMost(s, q, published[q])'
        BY ONLY <3>1, <3>2, <3>3 DEF AtMost
      <3>5. ASSUME s \in todo'[q] PROVE AtMost(s, q, published[q] - 1)'
        <4>1. q # p /\ AtMost(s, q, published[q] - 1)
          BY <1>3, <1>8, <3>5 DEF OrderInv
        <4> QED BY ONLY <3>2, <3>3, <4>1 DEF AtMost
      <3> QED BY <2>2, <3>4, <3>5
    <2> QED BY <2>1, <2>2
  <1> QED BY <1>2, <1>8, <1>9, <1>10 DEF OrderInv

\* The handler is given the oldest event of the queue.
LEMMA OrderDeliver ==
  ASSUME TypeInv, OrderInv, NEW s \in Subs, Deliver(s)
  PROVE  OrderInv'
  <1>1. UNCHANGED <<ppc, todo, published>>
    BY DEF Deliver, pubVars
  <1>2. queue[s] \in Seq(Events) /\ queue[s] # <<>>
    BY DEF Deliver, TypeInv, TypeOK, TypeQueues
  <1>3. /\ \A x \in Subs \ {s} : queue'[x] = queue[x] /\ seen'[x] = seen[x]
        /\ queue'[s] = Tail(queue[s])
    BY DEF Deliver, TypeInv, TypeOK, TypeQueues
  <1>4. /\ Len(queue[s]) \in Nat \ {0} /\ Head(queue[s]) = queue[s][1]
        /\ queue[s][1] \in Events /\ Len(queue'[s]) = Len(queue[s]) - 1
        /\ \A i \in 1..(Len(queue[s]) - 1) : queue'[s][i] = queue[s][i + 1]
    BY ONLY <1>2, <1>3, QueueTail
  <1> DEFINE e == queue[s][1]
  <1>5. /\ e.from \in Publishers /\ e.n \in Nat
        /\ \A i \in 1..Len(queue[s]) :
              queue[s][i].from \in Publishers /\ queue[s][i].n \in Nat
    BY ONLY <1>2, <1>4, QueueEvents
  <1>6. seen[s] \in [Publishers -> Nat] /\ published \in [Publishers -> Nat]
    BY BusAssumption DEF TypeInv, TypeOK, TypeQueues, TypePublishers
  <1>7. \/ seen'[s] = seen[s]
        \/ seen'[s] = [seen[s] EXCEPT ![e.from] = e.n]
    BY <1>4 DEF Deliver, TypeInv, TypeOK, TypeQueues
  <1>8. \A q \in Publishers :
          seen'[s][q] = seen[s][q] \/ (q = e.from /\ seen'[s][q] = e.n)
    BY ONLY <1>5, <1>6, <1>7
  <1>9. \A i \in 1..Len(queue[s]) :
          /\ queue[s][i].n > seen[s][queue[s][i].from]
          /\ \A j \in 1..Len(queue[s]) :
                j < i /\ queue[s][j].from = queue[s][i].from
                => queue[s][j].n < queue[s][i].n
    BY DEF OrderInv, OrderKept
  <1>10. OrderKept'
    <2>1. ASSUME NEW i \in 1..Len(queue'[s])
          PROVE  /\ queue'[s][i].n > seen'[s][queue'[s][i].from]
                 /\ \A j \in 1..Len(queue'[s]) :
                      j < i /\ queue'[s][j].from = queue'[s][i].from
                      => queue'[s][j].n < queue'[s][i].n
      <3>1. i + 1 \in 1..Len(queue[s]) /\ queue'[s][i] = queue[s][i + 1]
        BY ONLY <1>4, <2>1
      <3>2. queue'[s][i].n > seen'[s][queue'[s][i].from]
        <4>1. queue[s][i + 1].from = e.from => e.n < queue[s][i + 1].n
          BY ONLY <1>4, <1>9, <2>1, <3>1
        <4> QED BY ONLY <1>5, <1>8, <1>9, <3>1, <4>1
      <3>3. \A j \in 1..Len(queue'[s]) :
              j < i /\ queue'[s][j].from = queue'[s][i].from
              => queue'[s][j].n < queue'[s][i].n
        BY ONLY <1>4, <1>9, <2>1, <3>1
      <3> QED BY <3>2, <3>3
    <2>2. ASSUME NEW x \in Subs \ {s}, NEW i \in 1..Len(queue'[x])
          PROVE  /\ queue'[x][i].n > seen'[x][queue'[x][i].from]
                 /\ \A j \in 1..Len(queue'[x]) :
                      j < i /\ queue'[x][j].from = queue'[x][i].from
                      => queue'[x][j].n < queue'[x][i].n
      BY <1>3 DEF OrderInv, OrderKept
    <2> QED BY <2>1, <2>2 DEF OrderKept
  <1>11. ASSUME NEW q \in Publishers, NEW x \in Subs, NEW n \in Int, AtMost(x, q, n)
         PROVE  AtMost(x, q, n)'
    <2>1. CASE x # s
      BY <1>3, <1>11, <2>1 DEF AtMost
    <2>2. CASE x = s
      <3>1. seen[s][q] <= n /\ (e.from = q => e.n <= n)
        BY ONLY <1>4, <1>11, <2>2 DEF AtMost
      <3>2. seen'[s][q] <= n
        BY ONLY <1>8, <3>1
      <3>3. \A i \in 1..Len(queue'[s]) :
              i + 1 \in 1..Len(queue[s]) /\ queue'[s][i] = queue[s][i + 1]
        BY ONLY <1>4
      <3>4. \A i \in 1..Len(queue[s]) : queue[s][i].from = q => queue[s][i].n <= n
        BY ONLY <1>11, <2>2 DEF AtMost
      <3>5. \A i \in 1..Len(queue'[s]) : queue'[s][i].from = q => queue'[s][i].n <= n
        BY ONLY <3>3, <3>4
      <3> QED BY ONLY <2>2, <3>2, <3>5 DEF AtMost
    <2> QED BY <2>1, <2>2
  <1>12. \A q \in Publishers : published[q] \in Int /\ published[q] - 1 \in Int
    BY <1>6
  <1>13. ASSUME NEW q \in Publishers, NEW x \in Subs
         PROVE  /\ AtMost(x, q, published[q])'
                /\ x \in todo'[q] => AtMost(x, q, published[q] - 1)'
    BY <1>1, <1>11, <1>12 DEF OrderInv, AtMost
  <1> QED BY <1>1, <1>10, <1>13 DEF OrderInv

\* Every step keeps the order.
LEMMA OrderStep == TypeInv /\ OrderInv /\ [Next]_vars => OrderInv'
  <1> SUFFICES ASSUME TypeInv, OrderInv, [Next]_vars PROVE OrderInv'
    OBVIOUS
  <1>1. ASSUME NEW p \in Publishers, Publish(p) PROVE OrderInv'
    <2>1. /\ UNCHANGED <<queue, seen>> /\ published'[p] = published[p] + 1
          /\ \A q \in Publishers \ {p} : published'[q] = published[q] /\ todo'[q] = todo[q]
      BY <1>1 DEF Publish, TypeInv, TypeOK, TypePublishers
    <2>2. \A q \in Publishers : ppc'[q] = "idle" => todo'[q] = {}
      BY <1>1, <2>1 DEF Publish, OrderInv, TypeInv, TypeOK, TypePublishers
    <2>3. OrderKept'
      BY <2>1 DEF OrderInv, OrderKept
    <2>4. \A s \in Subs, q \in Publishers : seen[s][q] \in Nat /\ published[q] \in Nat
      BY BusAssumption DEF TypeInv, TypeOK, TypeQueues, TypePublishers
    <2>5. \A s \in Subs : \A i \in 1..Len(queue[s]) : queue[s][i].n \in Nat
      <3>1. TAKE s \in Subs
      <3>2. queue[s] \in Seq(Events)
        BY DEF TypeInv, TypeOK, TypeQueues
      <3> QED BY <3>2, QueueEvents
    <2>6. ASSUME NEW q \in Publishers, NEW s \in Subs
          PROVE  /\ AtMost(s, q, published[q])'
                 /\ s \in todo'[q] => AtMost(s, q, published[q] - 1)'
      <3>1. AtMost(s, q, published[q]) /\ (s \in todo[q] => AtMost(s, q, published[q] - 1))
        BY DEF OrderInv
      <3>2. CASE q # p
        BY <2>1, <3>1, <3>2 DEF AtMost
      <3>3. CASE q = p
        BY <2>1, <2>4, <2>5, <3>1, <3>3 DEF AtMost
      <3> QED BY <3>2, <3>3
    <2> QED BY <2>2, <2>3, <2>6 DEF OrderInv
  <1>2. ASSUME NEW p \in Publishers, Dispatch(p), ~Send(p) PROVE OrderInv'
    <2>1. /\ UNCHANGED <<queue, seen, published>>
          /\ \A q \in Publishers : todo'[q] \subseteq todo[q]
          /\ \A q \in Publishers : ppc'[q] = "idle" => todo'[q] = {}
      <3>1. CASE DropRead(p) \/ DropWrite(p)
        <4>1. /\ UNCHANGED <<queue, seen, published>>
              /\ \A q \in Publishers \ {p} : ppc'[q] = ppc[q] /\ todo'[q] = todo[q]
              /\ ppc'[p] # "idle" /\ todo'[p] \subseteq todo[p]
          BY <3>1 DEF DropRead, DropWrite, TypeInv, TypeOK, TypePublishers
        <4> QED BY <4>1 DEF OrderInv
      <3>2. CASE EndDispatch(p)
        BY <3>2 DEF EndDispatch, OrderInv, TypeInv, TypeOK, TypePublishers
      <3> QED BY <1>2, <3>1, <3>2 DEF Dispatch
    <2> QED BY <2>1 DEF OrderInv, OrderKept, AtMost
  <1>3. ASSUME NEW s \in Subs, Lifetime(s) \/ RemoveSelf(s) PROVE OrderInv'
    <2>1. UNCHANGED <<queue, seen, ppc, todo, published>>
      BY <1>3 DEF Lifetime, Subscribe, Unsubscribe, EndContext, RemoveSelf, pubVars
    <2> QED BY <2>1 DEF OrderInv, OrderKept, AtMost
  <1>4. CASE Close \/ UNCHANGED vars
    <2>1. UNCHANGED <<queue, seen, ppc, todo, published>>
      BY <1>4 DEF Close, vars, pubVars
    <2> QED BY <2>1 DEF OrderInv, OrderKept, AtMost
  <1> QED
    BY <1>1, <1>2, <1>3, <1>4, OrderSend, OrderDeliver DEF Next, Delivery

\* What a subscriber's handler is given by one publisher comes in the order
\* of publication: one goroutine and one queue per subscription are enough.
THEOREM OrderIsKept == Spec => []OrderKept
  <1>1. Init => OrderInv
    BY DEF Init, OrderInv, OrderKept, AtMost
  <1>2. TypeInv /\ OrderInv /\ [Next]_vars => OrderInv'
    BY OrderStep
  <1> QED BY <1>1, <1>2, TypeInit, TypeStep, PTL DEF Spec, OrderInv

-----------------------------------------------------------------------------
(* One-shot subscriptions.                                                 *)

\* Only s itself, or Close, ends the one-shot s: removal by id picks no other
\* entry, and Unsubscribe's comparison of handlers never meets a wrapper.
LEMMA LeavesStep == TypeOK /\ LeavesForItself /\ [Next]_vars => LeavesForItself'
  <1> SUFFICES ASSUME TypeOK, LeavesForItself, [Next]_vars PROVE LeavesForItself'
    OBVIOUS
  <1> USE DEF LeavesForItself, TypeOK, TypeSubs
  <1>1. ASSUME NEW p \in Publishers, Publish(p) \/ Dispatch(p)
        PROVE  LeavesForItself'
    <2>1. UNCHANGED <<sub, left, closed>>
      BY <1>1 DEF Publish, Dispatch, Send, DropRead, DropWrite, EndDispatch, busVars
    <2> QED BY <2>1
  <1>2. ASSUME NEW s \in Subs, Subscribe(s) \/ Deliver(s) PROVE LeavesForItself'
    BY <1>2 DEF Subscribe, Deliver
  <1>3. ASSUME NEW s \in Subs, EndContext(s) \/ RemoveSelf(s) PROVE LeavesForItself'
    BY <1>3 DEF EndContext, RemoveSelf, RemoveByID, Own, Drop
  <1>4. ASSUME NEW s \in Subs, Unsubscribe(s) PROVE LeavesForItself'
    <2>1. \A x \in Alike(s) : Kind[x] \notin OneShot
      BY DEF Alike, ByHandler, OneShot
    <2> QED BY <1>4, <2>1 DEF Unsubscribe, Alike, Drop
  <1>5. CASE Close
    BY <1>5 DEF Close
  <1>6. CASE UNCHANGED vars
    BY <1>6 DEF vars, busVars
  <1> QED
    BY <1>1, <1>2, <1>3, <1>4, <1>5, <1>6 DEF Next, Lifetime, Delivery

\* Concurrent callers never take each other's reply subscription away.
THEOREM OneShotsLeaveAlone == Spec => []LeavesForItself
  <1>1. Init => LeavesForItself
    BY DEF Init, LeavesForItself
  <1> QED BY <1>1, LeavesStep, BusTypeCorrect, PTL DEF Spec
=============================================================================
