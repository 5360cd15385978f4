---------------------------- MODULE StartOrder ------------------------------
(***************************************************************************)
(* internal/toposort: the order in which agents are started, and in        *)
(* reverse stopped.  An agent is a number, so that the order of numbers is *)
(* the lexicographic order of the ids; an edge <<n, d>> says that n        *)
(* depends on d.  Hard edges order and reject cycles, soft edges order and *)
(* are dropped.                                                            *)
(***************************************************************************)
EXTENDS Naturals, Sequences, FiniteSets, SequencesExt

\* sort.Strings.
Sorted(S) == CHOOSE s \in [1..Cardinality(S) -> S] : \A i, j \in DOMAIN s : i < j => s[i] < s[j]

DepsOfNode(edges, n) == {e[2] : e \in {x \in edges : x[1] = n}}

\* Unknown dependencies and self-edges do not count.
EdgeSet(known, deps) ==
    {e \in deps : e[1] \in known /\ e[2] \in known /\ e[1] # e[2]}

\* Mutant of Unlocked: a node is ready as soon as one dependency is placed.
UnlockedByAny(known, edges, placed, id) ==
    {n \in known \ placed : DepsOfNode(edges, n) \cap placed = {id}}

\* The dependents whose last outstanding dependency was id: the in-degree
\* that kahn counts down is the number of dependencies not yet placed.
Unlocked(known, edges, placed, id) ==
    {n \in known : <<n, id>> \in edges
                     /\ DepsOfNode(edges, n) \subseteq placed}

\* The first of the ready nodes is placed, and what it unlocks becomes ready.
KahnStep(known, edges, s) ==
    LET id == Head(s.ready)
        order == Append(s.order, id)
    IN  IF s.ready = <<>> THEN s
        ELSE [order |-> order,
              ready |-> Tail(s.ready) \o Sorted(Unlocked(known, edges, ToSet(order), id))]

\* Kahn's algorithm with a first-in first-out ready list; what is left
\* unplaced waits for a cycle.
Kahn(known, edges) ==
    LET after[i \in 0..Cardinality(known)] ==
          IF i = 0
            THEN [order |-> <<>>,
                  ready |-> Sorted({n \in known : DepsOfNode(edges, n) = {}})]
            ELSE KahnStep(known, edges, after[i - 1])
    IN  after[Cardinality(known)].order

StuckNodes(known, edges) == known \ ToSet(Kahn(known, edges))

\* What Sort returns with an error.
Cycle == [err |-> TRUE, order |-> <<>>]
Ordered(order) == [err |-> FALSE, order |-> order]

\* The soft edges among the nodes that stay unplaced are dropped.
DropSoft(known, hardEdges, softEdges) ==
    LET stuck == StuckNodes(known, hardEdges \cup softEdges)
    IN  softEdges \ (stuck \X stuck)

\* Phase 1 rejects a hard cycle.  Phase 2 orders by both kinds of edge; each
\* time nodes stay unplaced it drops the soft edges among them and retries.
Sort(known, hard, soft) ==
    LET hardEdges == EdgeSet(known, hard)
        softAfter[i \in 0..Cardinality(soft)] ==
          IF i = 0 THEN EdgeSet(known, soft)
                   ELSE DropSoft(known, hardEdges, softAfter[i - 1])
        placed(i) == Kahn(known, hardEdges \cup softAfter[i])
        done == {i \in 0..Cardinality(soft) : Len(placed(i)) = Cardinality(known)}
    IN  IF StuckNodes(known, hardEdges) # {} \/ done = {}
          THEN Cycle
          ELSE Ordered(placed(CHOOSE i \in done : \A j \in done : i <= j))

-----------------------------------------------------------------------------
(* Reference definitions.                                                  *)

\* n waits for a cycle: it lies in a set each member of which depends on
\* another member.
WaitsForCycle(known, edges, n) ==
    \E S \in SUBSET known :
        n \in S /\ \A m \in S : DepsOfNode(edges, m) \cap S # {}

Before(order, a, b) ==
    \E i, j \in DOMAIN order : i < j /\ order[i] = a /\ order[j] = b

\* The order a caller may rely on: an error exactly when the hard edges have a
\* cycle; otherwise every node once, hard dependencies first, and soft
\* dependencies first unless the dependency itself waits for a cycle.
IsStartOrder(r, known, hard, soft) ==
    LET hardEdges == EdgeSet(known, hard)
        all == hardEdges \cup EdgeSet(known, soft)
    IN  IF \E n \in known : WaitsForCycle(known, hardEdges, n)
          THEN r.err
          ELSE /\ ~r.err
               /\ Len(r.order) = Cardinality(known)
               /\ ToSet(r.order) = known
               /\ \A e \in hardEdges : Before(r.order, e[2], e[1])
               /\ \A e \in EdgeSet(known, soft) :
                    WaitsForCycle(known, all, e[2]) \/ Before(r.order, e[2], e[1])
=============================================================================
