------------------------------ MODULE EventBus ------------------------------
(***************************************************************************)
(* The event bus (core/eventbus): publishers that dispatch under the bus's *)
(* read lock, subscriptions with a bounded queue and a delivery goroutine  *)
(* each, the one-shot subscriptions that remove themselves, and Close.     *)
(*                                                                         *)
(* The bus mutex is kept as what it excludes: a dispatch holds it for      *)
(* reading from Publish to EndDispatch, and a writer's step is atomic and  *)
(* waits for every dispatch to end.                                        *)
(***************************************************************************)
EXTENDS Naturals, Sequences

CONSTANTS
    Publishers,     \* goroutines that publish, the transport's included
    Subs,           \* subscriptions, each made at most once
    Topics, IDs,    \* topics, event identities
    Kind,           \* the call that made a subscription
    Watches,        \* the topics it matches: one, or those with its prefix
    CorrID,         \* the identity a correlated subscription waits for
    Site,           \* the code site of its handler
    Depth,          \* deliveryQueueDepth (256 in the code)
    MaxEvents       \* bound: events one publisher publishes

ByHandler == {"exact", "prefix", "context"}   \* fn is the caller's handler
OneShot   == {"once", "correlated", "waitFor"}   \* fn wraps it in a sync.Once

ASSUME BusAssumption ==
    /\ Kind \in [Subs -> ByHandler \cup OneShot]
    /\ Watches \in [Subs -> SUBSET Topics] /\ CorrID \in [Subs -> IDs]
    /\ Depth \in Nat \ {0} /\ MaxEvents \in Nat

\* The n-th event of a publisher.
Events == [from : Publishers, n : 1..MaxEvents, topic : Topics, id : IDs]

VARIABLES
    closed,       \* EventBus.closed
    registered,   \* the entries of subs and prefixSubs
    sub,          \* life of a subscription: its queue is made, then closed
    queue,        \* delivery.q
    removing,     \* its goroutine waits for the lock in removeSubByID
    fired,        \* the once of a one-shot subscription is spent
    drops,        \* delivery.drops
    ppc, ev,      \* a publisher's program counter and event
    todo,         \* subscriptions it still has to send to
    dropCount,    \* the counter's owner and value it read, to increment
    published,    \* events it has published so far
    \* history
    seen,         \* number of the last event of each publisher handled
    left,         \* subscriptions given up by whoever made them
    lost          \* events a subscription's full queue refused

busVars == <<closed, registered, sub, removing, fired, left>>
pubVars == <<ppc, ev, todo, dropCount, published>>
vars    == <<busVars, pubVars, queue, drops, seen, lost>>

-----------------------------------------------------------------------------
(* Publish and dispatch.                                                   *)

\* An event that does not validate is refused before anything happens; what
\* the transport answers does not keep the event from local dispatch.
Publish(p) ==
    /\ ppc[p] = "idle" /\ published[p] < MaxEvents
    /\ \E t \in Topics, i \in IDs :
          /\ ev' = [ev EXCEPT ![p] = [from |-> p, n |-> published[p] + 1,
                                      topic |-> t, id |-> i]]
          /\ todo' = [todo EXCEPT ![p] = {s \in registered : t \in Watches[s]}]
    /\ published' = [published EXCEPT ![p] = @ + 1]
    /\ ppc' = [ppc EXCEPT ![p] = "sending"]
    /\ UNCHANGED <<busVars, dropCount, queue, drops, seen, lost>>

Full(s) == Len(queue[s]) >= Depth

\* Mutant of Enqueue: the newest event is served first.
EnqueueFront(q, e) == <<e>> \o q

Enqueue(q, e) == Append(q, e)

\* delivery.send into a queue with room.
Send(p) ==
    /\ ppc[p] = "sending"
    /\ \E s \in todo[p] :
          /\ ~Full(s)
          /\ queue' = [queue EXCEPT ![s] = Enqueue(@, ev[p])]
          /\ todo' = [todo EXCEPT ![p] = @ \ {s}]
    /\ UNCHANGED <<busVars, ppc, ev, dropCount, published, drops, seen, lost>>

\* delivery.send into a full queue: d.drops++ is a read and a write, and two
\* publishers hold the read lock together.
DropRead(p) ==
    /\ ppc[p] = "sending"
    /\ \E s \in todo[p] :
          /\ Full(s)
          /\ dropCount' = [dropCount EXCEPT ![p] = <<s, drops[s]>>]
          /\ todo' = [todo EXCEPT ![p] = @ \ {s}]
          /\ lost' = [lost EXCEPT ![s] = @ + 1]
    /\ ppc' = [ppc EXCEPT ![p] = "dropping"]
    /\ UNCHANGED <<busVars, ev, published, queue, drops, seen>>

DropWrite(p) ==
    /\ ppc[p] = "dropping"
    /\ drops' = [drops EXCEPT ![dropCount[p][1]] = dropCount[p][2] + 1]
    /\ ppc' = [ppc EXCEPT ![p] = "sending"]
    /\ dropCount' = [dropCount EXCEPT ![p] = <<>>]
    /\ UNCHANGED <<busVars, ev, todo, published, queue, seen, lost>>

EndDispatch(p) ==
    /\ ppc[p] = "sending" /\ todo[p] = {}
    /\ ppc' = [ppc EXCEPT ![p] = "idle"]
    /\ ev' = [ev EXCEPT ![p] = <<>>]
    /\ UNCHANGED <<busVars, todo, dropCount, published, queue, drops, seen, lost>>

-----------------------------------------------------------------------------
(* Subscriptions come and go under the write lock.                         *)

\* Mutant of WriteLock: the removal takes no lock.
NoLock == TRUE

WriteLock == \A p \in Publishers : ppc[p] = "idle"

\* Subscribe, SubscribePrefix, SubscribePrefixWithContext, SubscribeOnce,
\* SubscribeCorrelated, WaitForTopic: an entry with a queue and a delivery
\* goroutine.
Subscribe(s) ==
    /\ sub[s] = "new" /\ ~closed /\ WriteLock
    /\ registered' = registered \cup {s}
    /\ sub' = [sub EXCEPT ![s] = "open"]
    /\ UNCHANGED <<closed, removing, fired, left, pubVars, queue, drops, seen,
                   lost>>

\* The entry x leaves its map and its queue is closed.
Drop(x) ==
    /\ registered' = registered \ {x}
    /\ sub' = [sub EXCEPT ![x] = "stopped"]

\* Mutant of Own: entries are told apart by their handler's code, which every
\* wrapper made at one place shares.
OwnSameSite(s) == {x \in registered : Kind[x] = Kind[s]}

\* The entry with the subscription's unique id, if it is still there.
Own(s) == {s} \cap registered

\* removeSubByID, removePrefixSubByID.
RemoveByID(s) ==
    /\ WriteLock
    /\ \/ \E x \in Own(s) : Drop(x)
       \/ Own(s) = {} /\ UNCHANGED <<registered, sub>>

\* The entries Unsubscribe and UnsubscribePrefix cannot tell from s: the same
\* key and a handler with the same code pointer.
Alike(s) ==
    {x \in registered : /\ Kind[x] \in ByHandler
                        /\ (Kind[x] = "exact") = (Kind[s] = "exact")
                        /\ Watches[x] = Watches[s] /\ Site[x] = Site[s]}

\* Unsubscribe and UnsubscribePrefix remove the first such entry; which one
\* is first is left open here.
Unsubscribe(s) ==
    /\ Kind[s] \in {"exact", "prefix"} /\ sub[s] # "new" /\ s \notin left
    /\ WriteLock
    /\ left' = left \cup {s}
    /\ \/ \E x \in Alike(s) : Drop(x)
       \/ Alike(s) = {} /\ UNCHANGED <<registered, sub>>
    /\ UNCHANGED <<closed, removing, fired, pubVars, queue, drops, seen, lost>>

\* The context of SubscribePrefixWithContext ends, or WaitForTopic is over
\* (the topic fired, its context ended, its timeout expired).
EndContext(s) ==
    /\ Kind[s] \in {"context", "waitFor"} /\ sub[s] # "new" /\ s \notin left
    /\ left' = left \cup {s}
    /\ RemoveByID(s)
    /\ UNCHANGED <<closed, removing, fired, pubVars, queue, drops, seen, lost>>

Close ==
    /\ ~closed /\ WriteLock
    /\ closed' = TRUE
    /\ sub' = [s \in Subs |-> IF s \in registered THEN "stopped" ELSE sub[s]]
    /\ registered' = {}
    /\ UNCHANGED <<removing, fired, left, pubVars, queue, drops, seen, lost>>

-----------------------------------------------------------------------------
(* The delivery goroutine of a subscription: for e := range d.q { fn(e) }. *)

\* Mutant of Invoked: the sync.Once is forgotten.
InvokedAlways(s, e) == Kind[s] = "correlated" => e.id = CorrID[s]

\* The wrapper of a one-shot calls the handler once, a correlated one only
\* for its own identity.
Invoked(s, e) ==
    /\ Kind[s] \in OneShot => s \notin fired
    /\ Kind[s] = "correlated" => e.id = CorrID[s]

\* Mutant of Consuming: the goroutine ends as soon as its queue is closed.
ConsumingOpen(s) == sub[s] = "open"

\* A closed channel still yields what it holds.
Consuming(s) == sub[s] # "new"

\* fn(e) for the next event.  After its handler a SubscribeOnce or a
\* SubscribeCorrelated goes on to remove itself.
Deliver(s) ==
    /\ Consuming(s) /\ s \notin removing /\ queue[s] # <<>>
    /\ queue' = [queue EXCEPT ![s] = Tail(@)]
    /\ LET e == Head(queue[s]) IN
       IF Invoked(s, e)
         THEN /\ seen' = [seen EXCEPT ![s] = [@ EXCEPT ![e.from] = e.n]]
              /\ fired' = IF Kind[s] \in OneShot THEN fired \cup {s} ELSE fired
              /\ removing' = IF Kind[s] \in {"once", "correlated"}
                               THEN removing \cup {s} ELSE removing
         ELSE UNCHANGED <<seen, fired, removing>>
    /\ UNCHANGED <<closed, registered, sub, left, pubVars, drops, lost>>

\* A one-shot removes its own entry from inside its wrapper.
RemoveSelf(s) ==
    /\ s \in removing
    /\ removing' = removing \ {s}
    /\ left' = left \cup {s}
    /\ RemoveByID(s)
    /\ UNCHANGED <<closed, fired, pubVars, queue, drops, seen, lost>>

-----------------------------------------------------------------------------
Init ==
    /\ closed = FALSE /\ registered = {} /\ removing = {} /\ fired = {}
    /\ left = {}
    /\ sub = [s \in Subs |-> "new"] /\ queue = [s \in Subs |-> <<>>]
    /\ drops = [s \in Subs |-> 0] /\ lost = [s \in Subs |-> 0]
    /\ seen = [s \in Subs |-> [p \in Publishers |-> 0]]
    /\ ppc = [p \in Publishers |-> "idle"] /\ ev = [p \in Publishers |-> <<>>]
    /\ todo = [p \in Publishers |-> {}]
    /\ dropCount = [p \in Publishers |-> <<>>]
    /\ published = [p \in Publishers |-> 0]

Dispatch(p) == Send(p) \/ DropRead(p) \/ DropWrite(p) \/ EndDispatch(p)
Lifetime(s) == Subscribe(s) \/ Unsubscribe(s) \/ EndContext(s)
Delivery(s) == Deliver(s) \/ RemoveSelf(s)

Next ==
    \/ \E p \in Publishers : Publish(p) \/ Dispatch(p)
    \/ \E s \in Subs : Lifetime(s) \/ Delivery(s)
    \/ Close

Spec == Init /\ [][Next]_vars

\* A dispatch never blocks and a delivery goroutine runs; a mutex that keeps
\* being released is eventually obtained (Go's writers go before readers that
\* arrive later).
Fairness ==
    /\ \A p \in Publishers : WF_vars(Dispatch(p))
    /\ \A s \in Subs : WF_vars(Deliver(s)) /\ SF_vars(RemoveSelf(s))

FairSpec == Spec /\ Fairness

-----------------------------------------------------------------------------
(* Properties.                                                             *)

TypeSubs ==
    /\ closed \in BOOLEAN /\ registered \subseteq Subs
    /\ sub \in [Subs -> {"new", "open", "stopped"}]
    /\ removing \subseteq Subs /\ fired \subseteq Subs /\ left \subseteq Subs
    /\ drops \in [Subs -> Nat] /\ lost \in [Subs -> Nat]

TypeQueues ==
    /\ queue \in [Subs -> Seq(Events)] /\ \A s \in Subs : Len(queue[s]) <= Depth
    /\ seen \in [Subs -> [Publishers -> 0..MaxEvents]]

TypePublishers ==
    /\ ppc \in [Publishers -> {"idle", "sending", "dropping"}]
    /\ ev \in [Publishers -> Events \cup {<<>>}]
    /\ todo \in [Publishers -> SUBSET Subs]
    /\ dropCount \in [Publishers -> (Subs \X Nat) \cup {<<>>}]
    /\ published \in [Publishers -> 0..MaxEvents]

\* The types; no queue is longer than its depth.
TypeOK == TypeSubs /\ TypeQueues /\ TypePublishers

\* A dispatch never sends on a closed queue, which would end the process:
\* what it still has to send to is registered and open.
NoSendOnClosed ==
    \A p \in Publishers : \A s \in todo[p] : s \in registered /\ sub[s] = "open"

\* Per-subscriber order: whatever waits in a subscription's queue is newer
\* than what its handler has already been given by the same publisher, and
\* the queue holds each publisher's events in the order of publication.
OrderKept ==
    \A s \in Subs : \A i \in 1..Len(queue[s]) :
        /\ queue[s][i].n > seen[s][queue[s][i].from]
        /\ \A j \in 1..Len(queue[s]) :
              j < i /\ queue[s][j].from = queue[s][i].from
              => queue[s][j].n < queue[s][i].n

\* A one-shot subscription leaves the bus for a cause of its own, or because
\* the bus closed: neither another one-shot nor an Unsubscribe by handler
\* takes its entry away.
LeavesForItself ==
    \A s \in Subs : Kind[s] \in OneShot /\ sub[s] = "stopped"
                    => s \in left \/ closed

\* "An overflow is dropped and COUNTED": between two drops the counter is
\* the number of events the queue refused.
DropsCounted ==
    (\A p \in Publishers : ppc[p] # "dropping") => drops = lost

\* stop ends the goroutine "after it has drained what is queued": what was
\* accepted is handled, even when the subscription is removed or the bus
\* closed in the meantime; but a one-shot calls its handler for one event only,
\* though more of them may be queued before it has left the bus.
AcceptedIsHandled ==
    /\ \A s \in Subs : queue[s] # <<>> ~> queue[s] = <<>>
    /\ [][\A s \in Subs : Kind[s] \in OneShot /\ s \in fired
                          => seen'[s] = seen[s]]_vars
=============================================================================
