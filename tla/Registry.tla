------------------------------ MODULE Registry ------------------------------
(***************************************************************************)
(* The agent registry (internal/agentreg) over the hybrid store            *)
(* (internal/db): Register's sequence of writes, GetDependencies, the sort *)
(* with its syncGraph, and the graph's ShortestPath, which reads one node's*)
(* edges per transaction while others may add some.                        *)
(*                                                                         *)
(* A description is reduced to its id and its four lists; one bbolt        *)
(* transaction is one step.  The nodes and the stored paths, which are     *)
(* written and which nothing reads back, are left out.                     *)
(***************************************************************************)
EXTENDS Integers, Sequences, SequencesExt, FiniteSets, FiniteSetsExt

CONSTANTS
    Ids,            \* agents and graph nodes
    Registrars,     \* concurrent callers of Register
    Descriptions,   \* what they may register
    Arcs,           \* pairs of nodes the path searches are tried on
    Weights,        \* edge weights
    MaxRegisters    \* bound: calls of Register

EdgeKinds == {"requires", "wants"}

ASSUME RegistryAssumption ==
    /\ Weights \subseteq Nat /\ MaxRegisters \in Nat /\ Arcs \subseteq Ids \X Ids
    /\ \A d \in Descriptions :
         /\ d.id \in Ids
         /\ \A f \in {"requires", "wants", "wantedBy", "requiredBy"} :
              d[f] \subseteq Ids /\ IsFiniteSet(d[f])

VARIABLES
    records,    \* the agents bucket: id to description
    stored,     \* the edges bucket: key <<from, kind, to>> to weight
    reg,        \* Register calls: where each is, its description, edges to add
    nodeMu,     \* who holds the registry's mutex, or free
    registers,  \* calls so far
    synced,     \* the sort has run since the last write of Register
    complete,   \* history: descriptions whose Register returned nil
    query,      \* a GetDependencies call: its id, what it has read
    search,     \* a ShortestPath call: its queue, visited nodes, result
    touched     \* history: an edge was put while the search ran

regVars == <<records, stored, reg, nodeMu, registers, synced, complete, query, search,
             touched>>

Free == "free"

-----------------------------------------------------------------------------
(* Register.                                                               *)

\* The edges a description stands for: its own, and reversed the inferred ones.
Mine(d) ==
    {<<d.id, "requires", t>> : t \in d.requires} \cup
    {<<d.id, "wants", t>>    : t \in d.wants}

Inferred(d) ==
    {<<t, "wants", d.id>>    : t \in d.wantedBy} \cup
    {<<t, "requires", d.id>> : t \in d.requiredBy}

EdgesOf(d) == Mine(d) \cup Inferred(d)

\* AddEdge: the key is the whole triple, and Put overwrites the weight.
PutEdge(es, k, w) == [x \in DOMAIN es \cup {k} |-> IF x = k THEN w ELSE es[x]]

Register(c, d) ==
    /\ reg[c].at = "idle" /\ registers < MaxRegisters /\ registers' = registers + 1
    /\ reg' = [reg EXCEPT ![c] = [at |-> "lock", d |-> d, todo |-> <<>>]]
    /\ UNCHANGED <<records, stored, nodeMu, synced, complete, query, search, touched>>

\* The signature check may refuse the agent; otherwise the record is written.
SetRecord(c) ==
    /\ reg[c].at = "lock" /\ nodeMu = Free
    /\ \/ /\ reg' = [reg EXCEPT ![c].at = "idle"]
          /\ UNCHANGED <<nodeMu, records, synced>>
       \/ /\ nodeMu' = c /\ synced' = FALSE
          /\ records' = [x \in DOMAIN records \cup {reg[c].d.id} |->
                           IF x = reg[c].d.id THEN reg[c].d ELSE records[x]]
          /\ reg' = [reg EXCEPT ![c].at = "edges",
                                ![c].todo = SetToSeq(Mine(reg[c].d))
                                              \o SetToSeq(Inferred(reg[c].d))]
    /\ UNCHANGED <<stored, registers, complete, query, search, touched>>

AddEdge(c) ==
    /\ reg[c].at = "edges" /\ reg[c].todo # <<>>
    /\ stored' = PutEdge(stored, Head(reg[c].todo), 0)
    /\ reg' = [reg EXCEPT ![c].todo = Tail(@)]
    /\ UNCHANGED <<records, nodeMu, registers, synced, complete, query, search, touched>>

\* Register returns and the deferred unlock runs.
Registered(c) ==
    /\ reg[c].at = "edges" /\ reg[c].todo = <<>>
    /\ reg' = [reg EXCEPT ![c].at = "idle"] /\ nodeMu' = Free
    /\ complete' = complete \cup {reg[c].d}
    /\ UNCHANGED <<records, stored, registers, synced, query, search, touched>>

-----------------------------------------------------------------------------
(* The sort's syncGraph and GetDependencies: neither takes nodeMu.         *)

\* syncGraph asks whether the store can clear its graph; the hybrid store has
\* no ClearGraph.
IsGraphWriter == FALSE

SyncGraph(rs, es) ==
    IF IsGraphWriter
    THEN [k \in UNION {EdgesOf(rs[a]) : a \in DOMAIN rs} |-> 0] ELSE es

SortSyncs ==
    /\ ~synced /\ nodeMu = Free /\ synced' = TRUE
    /\ stored' = SyncGraph(records, stored)
    /\ UNCHANGED <<records, reg, nodeMu, registers, complete, query, search, touched>>

\* Mutant of Neighbors: only what the node requires.
NeighborsRequires(es, id, kind) == {k \in DOMAIN es : k[1] = id /\ k[2] = "requires"}

\* The keys with the prefix id|kind|.
Neighbors(es, id, kind) == {k \in DOMAIN es : k[1] = id /\ k[2] = kind}

Targets(ks) == {k[3] : k \in ks}

\* GetDependencies reads the requires edges in one transaction, the wants in
\* the next.
GetDependencies(id) ==
    /\ query.at = "idle"
    /\ query' = [at |-> "wants", id |-> id,
                all |-> Targets(Neighbors(stored, id, "requires")), owed |-> complete]
    /\ UNCHANGED <<records, stored, reg, nodeMu, registers, synced, complete, search, touched>>

GetWants ==
    /\ query.at = "wants"
    /\ query' = [query EXCEPT !.at = "done",
                            !.all = @ \cup Targets(Neighbors(stored, query.id, "wants"))]
    /\ UNCHANGED <<records, stored, reg, nodeMu, registers, synced, complete, search, touched>>

-----------------------------------------------------------------------------
(* ShortestPath: Dijkstra with a heap of whole paths.                      *)

ShortestPath(s, e) ==
    /\ search.at = "idle"
    /\ search' = [at |-> "pop", from |-> s, to |-> e, visited |-> {},
                  pq |-> {[cost |-> 0, path |-> <<s>>]}, found |-> <<>>, cost |-> 0]
    /\ touched' = FALSE
    /\ UNCHANGED <<records, stored, reg, nodeMu, registers, synced, complete, query>>

\* Mutant of Cheapest: the heap's Less is turned round.
Dearest == {it \in search.pq : \A o \in search.pq : it.cost >= o.cost}

\* heap.Pop yields an item of least cost; which of several is the heap's choice.
Cheapest == {it \in search.pq : \A o \in search.pq : it.cost <= o.cost}

\* One turn of the loop: skip a settled node, stop at the end, or settle the
\* node and push what its edges reach.
Settle ==
    /\ search.at = "pop" /\ search.pq # {}
    /\ \E it \in Cheapest :
         LET n == Last(it.path) rest == search.pq \ {it} IN
         \/ /\ n \in search.visited
            /\ search' = [search EXCEPT !.pq = rest]
         \/ /\ n \notin search.visited /\ n = search.to
            /\ search' = [search EXCEPT !.at = "found", !.found = it.path,
                                        !.cost = it.cost]
         \/ /\ n \notin search.visited /\ n # search.to
            /\ search' = [search EXCEPT
                 !.visited = @ \cup {n},
                 !.pq = rest \cup
                   {[cost |-> it.cost + stored[k], path |-> Append(it.path, k[3])] :
                      k \in {j \in Neighbors(stored, n, "requires") :
                               j[3] \notin search.visited \cup {n}}}]
    /\ UNCHANGED <<records, stored, reg, nodeMu, registers, synced, complete, query, touched>>

NoPath ==
    /\ search.at = "pop" /\ search.pq = {}
    /\ search' = [search EXCEPT !.at = "none"]
    /\ UNCHANGED <<records, stored, reg, nodeMu, registers, synced, complete, query, touched>>

\* Another caller of the store puts an edge between two turns.
EdgePut(k, w) ==
    /\ search.at = "pop" /\ ~touched /\ touched' = TRUE
    /\ stored' = PutEdge(stored, k, w)
    /\ UNCHANGED <<records, reg, nodeMu, registers, synced, complete, query, search>>

-----------------------------------------------------------------------------
NoEdges == [k \in {} |-> 0]
Keys(arcs) == {<<a[1], "requires", a[2]>> : a \in arcs}

StoredGraphs == {NoEdges} \cup UNION {[Keys(A) -> Weights] : A \in SUBSET Arcs}

RegistryOn(graphs) ==
    /\ records = [x \in {} |-> 0] /\ stored \in graphs
    /\ reg = [c \in Registrars |-> [at |-> "idle", d |-> CHOOSE d \in Descriptions : TRUE,
                                    todo |-> <<>>]]
    /\ nodeMu = Free /\ registers = 0 /\ synced = TRUE /\ complete = {}
    /\ query = [at |-> "idle", id |-> CHOOSE i \in Ids : TRUE, all |-> {}, owed |-> {}]
    /\ search = [at |-> "idle", from |-> CHOOSE i \in Ids : TRUE,
                 to |-> CHOOSE i \in Ids : TRUE, visited |-> {}, pq |-> {},
                 found |-> <<>>, cost |-> 0]
    /\ touched = FALSE

RegistryInit == RegistryOn(StoredGraphs)

\* A behaviour exercises the registry from an empty store, or the path search
\* on one of the graphs.
Searching == stored # NoEdges /\ records = [x \in {} |-> 0] /\ registers = 0

RegisterNext ==
    /\ ~Searching
    /\ \/ \E c \in Registrars :
            \/ \E d \in Descriptions : Register(c, d)
            \/ SetRecord(c) \/ AddEdge(c) \/ Registered(c)
       \/ SortSyncs \/ \E i \in Ids : GetDependencies(i)
       \/ GetWants

SearchNext ==
    /\ Searching
    /\ \/ \E a \in Arcs : ShortestPath(a[1], a[2])
       \/ Settle \/ NoPath
       \/ \E k \in Keys(Arcs), w \in Weights : EdgePut(k, w)

RegistryNext == RegisterNext \/ SearchNext

RegistrySpec == RegistryInit /\ [][RegistryNext]_regVars

-----------------------------------------------------------------------------
RegistryTypeOK ==
    /\ DOMAIN records \subseteq Ids /\ \A i \in DOMAIN records : records[i] \in Descriptions
    /\ DOMAIN stored \subseteq Ids \X EdgeKinds \X Ids
    /\ \A k \in DOMAIN stored : stored[k] \in Nat
    /\ nodeMu \in Registrars \cup {Free}

\* Simple paths of the graph, each with its cost.
PathCost(p) ==
    LET upTo[i \in 1..Len(p)] ==
          IF i = 1 THEN 0 ELSE upTo[i - 1] + stored[<<p[i - 1], "requires", p[i]>>]
    IN  upTo[Len(p)]
IsPath(p) == \A i \in 1..(Len(p) - 1) : <<p[i], "requires", p[i + 1]>> \in DOMAIN stored
SimplePaths(s, e) ==
    {p \in UNION {[1..n -> Ids] : n \in 1..Cardinality(Ids)} :
       p[1] = s /\ p[Len(p)] = e /\ IsPath(p) /\ Cardinality({p[i] : i \in 1..Len(p)}) = Len(p)}

\* What ShortestPath returns is a path of the graph; and if no edge was put
\* meanwhile, no path is cheaper, and none exists when it says so.
PathIsShortest ==
    /\ search.at = "found" =>
         /\ search.found[1] = search.from /\ Last(search.found) = search.to
         /\ IsPath(search.found)
         /\ ~touched => /\ search.cost = PathCost(search.found)
                        /\ \A p \in SimplePaths(search.from, search.to) :
                             search.cost <= PathCost(p)
    /\ search.at = "none" /\ ~touched => SimplePaths(search.from, search.to) = {}

\* GetDependencies leaves out nothing that was registered before the call, from
\* either side and whoever registers meanwhile, although it reads the two kinds
\* in two transactions and without the mutex.
DependenciesComplete ==
    query.at = "done" =>
      \A d \in query.owed : \A k \in EdgesOf(d) : k[1] = query.id => k[3] \in query.all

\* After a sort the graph is what the records stand for: the comment on
\* syncGraph says it "rebuilds the graph so it matches exactly what Register
\* writes".  A re-registration that drops a dependency leaves its edge behind.
GraphMatchesRecords ==
    synced /\ nodeMu = Free /\ ~Searching /\ (\A c \in Registrars : reg[c].at = "idle") =>
      DOMAIN stored = UNION {EdgesOf(records[a]) : a \in DOMAIN records}
=============================================================================
