-------------------------- MODULE SupervisorProofs --------------------------
(***************************************************************************)
(* Proofs about the registry (Registry) and the supervisor (Boot).         *)
(***************************************************************************)
EXTENDS Boot, Registry, FiniteSetTheorems, SequenceTheorems, NaturalsInduction, TLAPS

-----------------------------------------------------------------------------
(* The registry.                                                           *)

Triples == Ids \X EdgeKinds \X Ids

Blank == CHOOSE d \in Descriptions : TRUE
NoId  == CHOOSE i \in Ids : TRUE

RegEntries == [at : {"idle", "lock", "edges"}, d : Descriptions \cup {Blank},
               todo : Seq(Triples)]

RegShape ==
    /\ reg \in [Registrars -> RegEntries]
    /\ \A c \in Registrars : reg[c].at # "idle" => reg[c].d \in Descriptions
    /\ query \in [at : {"idle", "wants", "done"}, id : Ids \cup {NoId},
                  all : SUBSET Ids, owed : SUBSET complete]
    /\ complete \subseteq Descriptions

\* What is still to be written is in a registrar's list, and what a call that
\* returned has written is still there.
EdgesKept ==
    /\ \A c \in Registrars : reg[c].at = "edges" =>
         \A k \in EdgesOf(reg[c].d) :
            k \in DOMAIN stored \/ \E i \in DOMAIN reg[c].todo : reg[c].todo[i] = k
    /\ \A d \in complete : EdgesOf(d) \subseteq DOMAIN stored

\* The half that GetDependencies has read already.
RequiresRead ==
    query.at = "wants" =>
      \A d \in query.owed : \A k \in EdgesOf(d) :
         k[1] = query.id /\ k[2] = "requires" => k[3] \in query.all

RegInv == RegistryTypeOK /\ RegShape /\ EdgesKept /\ RequiresRead /\ DependenciesComplete

\* A list made of a finite set (the loops over a description's slices) has the
\* elements of the set, each somewhere.
LEMMA ListOfSet ==
    ASSUME NEW S, IsFiniteSet(S)
    PROVE  /\ SetToSeq(S) \in Seq(S)
           /\ \A x \in S : \E i \in DOMAIN SetToSeq(S) : SetToSeq(S)[i] = x
<1> DEFINE n == Cardinality(S)
           f == SetToSeq(S)
<1>1. n \in Nat /\ ExistsBijection(1..n, S)
  BY FS_CardinalityType
<1>2. \E g \in [1..n -> S] : IsInjective(g)
  BY <1>1 DEF ExistsBijection, Bijection, Injection
<1>3. f \in [1..n -> S] /\ IsInjective(f)
  BY <1>2 DEF SetToSeq
<1>4. f \in Injection(1..n, S)
  BY <1>3 DEF Injection
<1>5. Cardinality(1..n) = n
  BY <1>1, FS_Interval
<1>6. f \in Surjection(1..n, S)
  BY <1>4, <1>5, FS_Injection
<1>7. \A x \in S : \E i \in 1..n : f[i] = x
  BY <1>6 DEF Surjection
<1>8. DOMAIN f = 1..n /\ f \in Seq(S)
  BY <1>1, <1>3
<1> QED
  BY <1>7, <1>8

\* The edges a description stands for are finitely many triples of the store.
LEMMA DescriptionEdges ==
    ASSUME NEW d \in Descriptions
    PROVE  /\ IsFiniteSet(Mine(d)) /\ IsFiniteSet(Inferred(d))
           /\ Mine(d) \subseteq Triples /\ Inferred(d) \subseteq Triples
<1> USE RegistryAssumption
<1>1. /\ IsFiniteSet(d.requires) /\ IsFiniteSet(d.wants)
      /\ IsFiniteSet(d.wantedBy) /\ IsFiniteSet(d.requiredBy)
  OBVIOUS
<1>2. IsFiniteSet(Mine(d))
  <2>1. IsFiniteSet({<<d.id, "requires", t>> : t \in d.requires})
    <3> DEFINE T == d.requires
               U == {<<d.id, "requires", t>> : t \in T}
               g == [t \in T |-> <<d.id, "requires", t>>]
    <3>1. g \in Surjection(T, U)
      BY DEF Surjection
    <3> HIDE DEF U, g
    <3>2. IsFiniteSet(U)
      BY <1>1, <3>1, FS_Surjection
    <3> QED
      BY <3>2 DEF U
  <2>2. IsFiniteSet({<<d.id, "wants", t>> : t \in d.wants})
    <3> DEFINE T == d.wants
               U == {<<d.id, "wants", t>> : t \in T}
               g == [t \in T |-> <<d.id, "wants", t>>]
    <3>1. g \in Surjection(T, U)
      BY DEF Surjection
    <3> HIDE DEF U, g
    <3>2. IsFiniteSet(U)
      BY <1>1, <3>1, FS_Surjection
    <3> QED
      BY <3>2 DEF U
  <2> QED
    BY ONLY <2>1, <2>2, FS_Union DEF Mine
<1>3. IsFiniteSet(Inferred(d))
  <2>1. IsFiniteSet({<<t, "wants", d.id>> : t \in d.wantedBy})
    <3> DEFINE T == d.wantedBy
               U == {<<t, "wants", d.id>> : t \in T}
               g == [t \in T |-> <<t, "wants", d.id>>]
    <3>1. g \in Surjection(T, U)
      BY DEF Surjection
    <3> HIDE DEF U, g
    <3>2. IsFiniteSet(U)
      BY <1>1, <3>1, FS_Surjection
    <3> QED
      BY <3>2 DEF U
  <2>2. IsFiniteSet({<<t, "requires", d.id>> : t \in d.requiredBy})
    <3> DEFINE T == d.requiredBy
               U == {<<t, "requires", d.id>> : t \in T}
               g == [t \in T |-> <<t, "requires", d.id>>]
    <3>1. g \in Surjection(T, U)
      BY DEF Surjection
    <3> HIDE DEF U, g
    <3>2. IsFiniteSet(U)
      BY <1>1, <3>1, FS_Surjection
    <3> QED
      BY <3>2 DEF U
  <2> QED
    BY ONLY <2>1, <2>2, FS_Union DEF Inferred
<1>4. Mine(d) \subseteq Triples /\ Inferred(d) \subseteq Triples
  BY DEF Mine, Inferred, Triples, EdgeKinds
<1> QED
  BY <1>2, <1>3, <1>4

\* What SetRecord leaves to be written: every edge of the description.
LEMMA ListOfEdges ==
    ASSUME NEW d \in Descriptions
    PROVE  LET l == SetToSeq(Mine(d)) \o SetToSeq(Inferred(d))
           IN  /\ l \in Seq(Triples)
               /\ \A k \in EdgesOf(d) : \E i \in DOMAIN l : l[i] = k
<1> DEFINE m == SetToSeq(Mine(d))
           r == SetToSeq(Inferred(d))
<1>1. /\ m \in Seq(Mine(d)) /\ \A x \in Mine(d) : \E i \in DOMAIN m : m[i] = x
      /\ r \in Seq(Inferred(d)) /\ \A x \in Inferred(d) : \E i \in DOMAIN r : r[i] = x
  BY ListOfSet, DescriptionEdges
<1>2. m \in Seq(Triples) /\ r \in Seq(Triples)
  <2>1. \A i \in 1..Len(m) : m[i] \in Triples
    BY <1>1, DescriptionEdges, ElementOfSeq
  <2>2. \A i \in 1..Len(r) : r[i] \in Triples
    BY <1>1, DescriptionEdges, ElementOfSeq
  <2> HIDE DEF m, r
  <2> QED
    BY <1>1, <2>1, <2>2
<1> HIDE DEF m, r
<1>3. m \o r \in Seq(Triples) /\ DOMAIN (m \o r) = 1..(Len(m) + Len(r))
      /\ DOMAIN m = 1..Len(m) /\ DOMAIN r = 1..Len(r) /\ Len(m) \in Nat /\ Len(r) \in Nat
  BY <1>2
<1>4. \A i \in DOMAIN m : i \in DOMAIN (m \o r) /\ (m \o r)[i] = m[i]
  BY <1>2, <1>3
<1>5. \A i \in DOMAIN r : i + Len(m) \in DOMAIN (m \o r) /\ (m \o r)[i + Len(m)] = r[i]
  BY <1>2, <1>3
<1>6. \A k \in EdgesOf(d) : \E i \in DOMAIN (m \o r) : (m \o r)[i] = k
  BY <1>1, <1>4, <1>5 DEF EdgesOf
<1> QED
  BY <1>3, <1>6 DEF m, r

\* Putting an edge keeps the others, and the weights natural numbers.
LEMMA EdgeIsPut ==
    ASSUME NEW es, NEW k \in Triples, NEW w \in Nat,
           DOMAIN es \subseteq Triples, \A j \in DOMAIN es : es[j] \in Nat
    PROVE  /\ DOMAIN PutEdge(es, k, w) = DOMAIN es \cup {k}
           /\ \A j \in DOMAIN PutEdge(es, k, w) : PutEdge(es, k, w)[j] \in Nat
BY DEF PutEdge

\* The registry's invariant holds in the first states.
LEMMA RegistryInitInv == RegistryInit => RegInv
<1> SUFFICES ASSUME RegistryInit PROVE RegInv
  OBVIOUS
<1> USE DEF RegistryInit, RegistryOn
<1>1. stored = NoEdges \/ \E A \in SUBSET Arcs : stored \in [Keys(A) -> Weights]
  BY DEF StoredGraphs
<1>2. \A A \in SUBSET Arcs : Keys(A) \subseteq Triples
  <2> SUFFICES ASSUME NEW A \in SUBSET Arcs, NEW a \in A
               PROVE  <<a[1], "requires", a[2]>> \in Triples
    BY DEF Keys
  <2> QED
    BY RegistryAssumption DEF Triples, EdgeKinds
<1>3. DOMAIN stored \subseteq Triples /\ \A k \in DOMAIN stored : stored[k] \in Nat
  <2>1. CASE stored = NoEdges
    BY <2>1 DEF NoEdges
  <2>2. CASE \E A \in SUBSET Arcs : stored \in [Keys(A) -> Weights]
    BY <2>2, <1>2, RegistryAssumption
  <2> QED
    BY <1>1, <2>1, <2>2
<1>4. RegistryTypeOK
  BY <1>3 DEF RegistryTypeOK, Triples
<1>5. RegShape
  BY DEF RegShape, RegEntries, Blank, NoId
<1>6. EdgesKept /\ RequiresRead /\ DependenciesComplete
  BY DEF EdgesKept, RequiresRead, DependenciesComplete
<1> QED
  BY <1>4, <1>5, <1>6 DEF RegInv

\* A step that at most adds edges leaves every call where it was: the sort, the
\* searches and a foreign AddEdge.
LEMMA StoreGrows ==
    ASSUME RegInv, DOMAIN stored \subseteq DOMAIN stored', DOMAIN stored' \subseteq Triples,
           \A k \in DOMAIN stored' : stored'[k] \in Nat,
           UNCHANGED <<records, reg, nodeMu, complete, query>>
    PROVE  RegInv'
<1> USE DEF RegInv
<1>1. RegistryTypeOK'
  BY DEF RegistryTypeOK, Triples
<1>2. RegShape'
  BY DEF RegShape
<1>3. EdgesKept'
  BY DEF EdgesKept
<1>4. RequiresRead' /\ DependenciesComplete'
  BY DEF RequiresRead, DependenciesComplete
<1> QED
  BY <1>1, <1>2, <1>3, <1>4

\* What a step of Register makes of the locals of the call.
LEMMA EntryChange ==
    ASSUME NEW e \in RegEntries, NEW a \in {"idle", "lock", "edges"}, NEW q \in Seq(Triples)
    PROVE  /\ [e EXCEPT !.at = a] \in RegEntries /\ [e EXCEPT !.at = a].at = a
           /\ [e EXCEPT !.todo = q] \in RegEntries
           /\ [e EXCEPT !.todo = q].d = e.d /\ [e EXCEPT !.todo = q].at = e.at
           /\ [e EXCEPT !.at = a, !.todo = q] \in RegEntries
           /\ [e EXCEPT !.at = a, !.todo = q].d = e.d
BY DEF RegEntries

\* Every step of Register keeps the invariant.
LEMMA RegisterStep ==
    ASSUME RegInv, NEW c \in Registrars
    PROVE  /\ \A d \in Descriptions : Register(c, d) => RegInv'
           /\ SetRecord(c) \/ AddEdge(c) \/ Registered(c) => RegInv'
<1> USE DEF RegInv
<1>a. DOMAIN stored \subseteq Triples /\ \A k \in DOMAIN stored : stored[k] \in Nat
  BY DEF RegistryTypeOK, Triples
<1>b. reg[c].at # "idle" => reg[c].d \in Descriptions
  BY DEF RegShape
<1>1. ASSUME NEW d \in Descriptions, Register(c, d) PROVE RegInv'
  <2> USE <1>1 DEF Register
  <2>1. RegistryTypeOK'
    BY DEF RegistryTypeOK
  <2>2. RegShape'
    <3>1. [at |-> "lock", d |-> d, todo |-> <<>>] \in RegEntries
      BY DEF RegEntries
    <3> QED
      BY <3>1 DEF RegShape
  <2>3. EdgesKept'
    BY DEF EdgesKept, RegShape
  <2>4. RequiresRead' /\ DependenciesComplete'
    BY DEF RequiresRead, DependenciesComplete
  <2> QED
    BY <2>1, <2>2, <2>3, <2>4
<1>2. ASSUME SetRecord(c) PROVE RegInv'
  <2> DEFINE l == SetToSeq(Mine(reg[c].d)) \o SetToSeq(Inferred(reg[c].d))
  <2>0. /\ reg[c].d \in Descriptions /\ reg[c].d.id \in Ids /\ l \in Seq(Triples)
        /\ \A k \in EdgesOf(reg[c].d) : \E i \in DOMAIN l : l[i] = k
    BY <1>2, <1>b, ListOfEdges, RegistryAssumption DEF SetRecord
  <2> HIDE DEF l
  <2>r. \/ reg' = [reg EXCEPT ![c].at = "idle"] /\ UNCHANGED <<nodeMu, records>>
        \/ /\ nodeMu' = c
           /\ records' = [x \in DOMAIN records \cup {reg[c].d.id} |->
                            IF x = reg[c].d.id THEN reg[c].d ELSE records[x]]
           /\ reg' = [reg EXCEPT ![c].at = "edges", ![c].todo = l]
    BY <1>2 DEF SetRecord, l
  <2>u. UNCHANGED <<stored, complete, query>>
    BY <1>2 DEF SetRecord
  <2>1. RegistryTypeOK'
    BY <2>0, <2>r, <2>u DEF RegistryTypeOK
  <2>2. RegShape'
    <3>0. /\ reg \in [Registrars -> RegEntries] /\ reg[c] \in RegEntries
          /\ \A b \in Registrars : reg[b].at # "idle" => reg[b].d \in Descriptions
      BY DEF RegShape
    <3>a. \/ reg' = [reg EXCEPT ![c] = [reg[c] EXCEPT !.at = "idle"]]
          \/ reg' = [reg EXCEPT ![c] = [reg[c] EXCEPT !.at = "edges", !.todo = l]]
      BY <2>r, <3>0
    <3>b. /\ [reg[c] EXCEPT !.at = "idle"] \in RegEntries
          /\ [reg[c] EXCEPT !.at = "idle"].at = "idle"
          /\ [reg[c] EXCEPT !.at = "edges", !.todo = l] \in RegEntries
          /\ [reg[c] EXCEPT !.at = "edges", !.todo = l].d = reg[c].d
      BY <2>0, <3>0, EntryChange
    <3>c. /\ reg' \in [Registrars -> RegEntries]
          /\ \A b \in Registrars : b # c => reg'[b] = reg[b]
          /\ reg'[c].at = "idle" \/ reg'[c].d = reg[c].d
      BY <3>0, <3>a, <3>b
    <3>2. \A b \in Registrars : reg'[b].at # "idle" => reg'[b].d \in Descriptions
      BY <2>0, <3>0, <3>c
    <3> QED
      BY <3>c, <3>2, <2>u DEF RegShape
  <2>3. EdgesKept'
    <3>1. ASSUME NEW b \in Registrars, reg'[b].at = "edges", NEW k \in EdgesOf(reg'[b].d)
          PROVE  k \in DOMAIN stored \/ \E i \in DOMAIN reg'[b].todo : reg'[b].todo[i] = k
      <4>1. CASE b = c
        <5>1. reg'[c].d = reg[c].d /\ reg'[c].todo = l
          BY <2>r, <3>1, <4>1 DEF RegShape, RegEntries
        <5> QED
          BY <5>1, <3>1, <4>1, <2>0
      <4>2. CASE b # c
        <5>1. reg'[b] = reg[b]
          BY <2>r, <4>2 DEF RegShape
        <5> QED
          BY <5>1, <3>1 DEF EdgesKept
      <4> QED
        BY <4>1, <4>2
    <3> QED
      BY <3>1, <2>u DEF EdgesKept
  <2>4. RequiresRead' /\ DependenciesComplete'
    BY <2>u DEF RequiresRead, DependenciesComplete
  <2> QED
    BY <2>1, <2>2, <2>3, <2>4
<1>3. ASSUME AddEdge(c) PROVE RegInv'
  <2> DEFINE td == reg[c].todo
             h == Head(reg[c].todo)
  <2>0. td \in Seq(Triples) /\ td # <<>>
    BY <1>3 DEF AddEdge, RegShape, RegEntries
  <2> HIDE DEF td
  <2>s. /\ Head(td) \in Triples /\ Tail(td) \in Seq(Triples)
        /\ \A i \in DOMAIN td : td[i] = Head(td) \/ \E j \in DOMAIN Tail(td) : Tail(td)[j] = td[i]
    <3>1. /\ Head(td) \in Triples /\ Tail(td) \in Seq(Triples)
          /\ Len(Tail(td)) = Len(td) - 1
          /\ \A i \in 1..Len(Tail(td)) : Tail(td)[i] = td[i + 1]
      BY ONLY <2>0, HeadTailProperties
    <3>2. Head(td) = td[1] /\ DOMAIN td = 1..Len(td) /\ Len(td) \in Nat
          /\ DOMAIN Tail(td) = 1..Len(Tail(td))
      BY <2>0, <3>1
    <3>3. ASSUME NEW i \in DOMAIN td, i # 1
          PROVE  i - 1 \in DOMAIN Tail(td) /\ Tail(td)[i - 1] = td[i]
      <4>1. i - 1 \in 1..Len(Tail(td)) /\ (i - 1) + 1 = i
        BY <3>1, <3>2, <3>3
      <4> QED
        BY <4>1, <3>1, <3>2
    <3> QED
      BY <3>1, <3>2, <3>3
  <2>r. reg' = [reg EXCEPT ![c].todo = Tail(td)] /\ reg[c].at = "edges"
        /\ stored' = PutEdge(stored, Head(td), 0) /\ UNCHANGED <<records, nodeMu, complete, query>>
    BY <1>3 DEF AddEdge, td
  <2>p. /\ DOMAIN stored' = DOMAIN stored \cup {Head(td)}
        /\ \A k \in DOMAIN stored' : stored'[k] \in Nat
    BY <1>a, <2>s, <2>r, EdgeIsPut
  <2>1. RegistryTypeOK'
    BY <2>p, <2>r, <2>s DEF RegistryTypeOK, Triples
  <2>2. RegShape'
    <3>0. /\ reg \in [Registrars -> RegEntries] /\ reg[c] \in RegEntries
          /\ \A b \in Registrars : reg[b].at # "idle" => reg[b].d \in Descriptions
      BY DEF RegShape
    <3>a. reg' = [reg EXCEPT ![c] = [reg[c] EXCEPT !.todo = Tail(td)]]
      BY <2>r, <3>0
    <3>b. /\ [reg[c] EXCEPT !.todo = Tail(td)] \in RegEntries
          /\ [reg[c] EXCEPT !.todo = Tail(td)].at = reg[c].at
          /\ [reg[c] EXCEPT !.todo = Tail(td)].d = reg[c].d
      BY <2>s, <3>0, EntryChange
    <3>1. reg' \in [Registrars -> RegEntries]
      BY <3>0, <3>a, <3>b
    <3>2. \A b \in Registrars : reg'[b].at # "idle" => reg'[b].d \in Descriptions
      BY <3>0, <3>a, <3>b
    <3> QED
      BY <3>1, <3>2, <2>r DEF RegShape
  <2>3. EdgesKept'
    <3>1. ASSUME NEW b \in Registrars, reg'[b].at = "edges", NEW k \in EdgesOf(reg'[b].d)
          PROVE  k \in DOMAIN stored' \/ \E i \in DOMAIN reg'[b].todo : reg'[b].todo[i] = k
      <4>1. CASE b = c
        <5>1. reg'[c].d = reg[c].d /\ reg'[c].todo = Tail(td) /\ reg[c].todo = td
          BY <2>r, <3>1, <4>1 DEF RegShape, td
        <5>2. k \in DOMAIN stored \/ \E i \in DOMAIN td : td[i] = k
          BY <5>1, <3>1, <4>1, <2>r DEF EdgesKept
        <5> QED
          BY <5>1, <5>2, <2>s, <2>p, <4>1
      <4>2. CASE b # c
        <5>1. reg'[b] = reg[b]
          BY <2>r, <4>2 DEF RegShape
        <5> QED
          BY <5>1, <3>1, <2>p DEF EdgesKept
      <4> QED
        BY <4>1, <4>2
    <3> QED
      BY <3>1, <2>r, <2>p DEF EdgesKept
  <2>4. RequiresRead' /\ DependenciesComplete'
    BY <2>r DEF RequiresRead, DependenciesComplete
  <2> QED
    BY <2>1, <2>2, <2>3, <2>4
<1>4. ASSUME Registered(c) PROVE RegInv'
  <2>r. /\ reg' = [reg EXCEPT ![c].at = "idle"] /\ reg[c].at = "edges" /\ reg[c].todo = <<>>
        /\ complete' = complete \cup {reg[c].d} /\ nodeMu' = Free
        /\ UNCHANGED <<records, stored, query>>
    BY <1>4 DEF Registered
  <2>1. RegistryTypeOK'
    BY <2>r DEF RegistryTypeOK
  <2>2. RegShape'
    BY <2>r, <1>b DEF RegShape, RegEntries
  <2>3. EdgesKept'
    <3>1. EdgesOf(reg[c].d) \subseteq DOMAIN stored
      BY <2>r DEF EdgesKept
    <3> QED
      BY <3>1, <2>r DEF EdgesKept, RegShape
  <2>4. RequiresRead' /\ DependenciesComplete'
    BY <2>r DEF RequiresRead, DependenciesComplete
  <2> QED
    BY <2>1, <2>2, <2>3, <2>4
<1> QED
  BY <1>1, <1>2, <1>3, <1>4

\* Every step of GetDependencies keeps the invariant: what a call that returned
\* has stored is read by one of the two transactions.
LEMMA QueryStep ==
    ASSUME RegInv
    PROVE  /\ \A i \in Ids : GetDependencies(i) => RegInv'
           /\ GetWants => RegInv'
<1> USE DEF RegInv
<1>k. \A k \in Triples : k[1] \in Ids /\ k[3] \in Ids /\ k[2] \in {"requires", "wants"}
  BY DEF Triples, EdgeKinds
<1>t. \A i : \A kind : Targets(Neighbors(stored, i, kind)) \subseteq Ids
  BY <1>k DEF Targets, Neighbors, RegistryTypeOK, Triples
<1>1. ASSUME NEW i \in Ids, GetDependencies(i) PROVE RegInv'
  <2>r. /\ query' = [at |-> "wants", id |-> i,
                     all |-> Targets(Neighbors(stored, i, "requires")), owed |-> complete]
        /\ UNCHANGED <<records, stored, reg, nodeMu, complete>>
    BY <1>1 DEF GetDependencies
  <2>1. RegistryTypeOK' /\ EdgesKept'
    BY <2>r DEF RegistryTypeOK, EdgesKept
  <2>2. RegShape'
    BY <2>r, <1>t DEF RegShape
  <2>3. RequiresRead'
    BY <2>r DEF RequiresRead, EdgesKept, Targets, Neighbors
  <2>4. DependenciesComplete'
    BY <2>r DEF DependenciesComplete
  <2> QED
    BY <2>1, <2>2, <2>3, <2>4
<1>2. ASSUME GetWants PROVE RegInv'
  <2>r. /\ query.at = "wants"
        /\ query' = [query EXCEPT !.at = "done",
                       !.all = query.all \cup Targets(Neighbors(stored, query.id, "wants"))]
        /\ UNCHANGED <<records, stored, reg, nodeMu, complete>>
    BY <1>2 DEF GetWants
  <2>q. /\ query'.at = "done" /\ query'.id = query.id /\ query'.owed = query.owed
        /\ query'.all = query.all \cup Targets(Neighbors(stored, query.id, "wants"))
    BY <2>r DEF RegShape
  <2>1. RegistryTypeOK' /\ EdgesKept'
    BY <2>r DEF RegistryTypeOK, EdgesKept
  <2>2. RegShape'
    BY <2>r, <1>t DEF RegShape
  <2>3. RequiresRead'
    BY <2>q DEF RequiresRead
  <2>4. DependenciesComplete'
    <3> SUFFICES ASSUME NEW d \in query.owed, NEW k \in EdgesOf(d), k[1] = query.id
                 PROVE  k[3] \in query.all \cup Targets(Neighbors(stored, query.id, "wants"))
      BY <2>q DEF DependenciesComplete
    <3>1. k \in DOMAIN stored /\ k \in Triples
      BY DEF EdgesKept, RegShape, RegistryTypeOK, Triples
    <3>2. CASE k[2] = "requires"
      BY <3>2, <2>r DEF RequiresRead
    <3>3. CASE k[2] = "wants"
      BY <3>1, <3>3 DEF Targets, Neighbors
    <3> QED
      BY <3>1, <3>2, <3>3, <1>k
  <2> QED
    BY <2>1, <2>2, <2>3, <2>4
<1> QED
  BY <1>1, <1>2

\* The registry's invariant is inductive.
LEMMA RegistryStepInv == RegInv /\ [RegistryNext]_regVars => RegInv'
<1> SUFFICES ASSUME RegInv, [RegistryNext]_regVars PROVE RegInv'
  OBVIOUS
<1>a. DOMAIN stored \subseteq Triples /\ \A k \in DOMAIN stored : stored[k] \in Nat
  BY DEF RegInv, RegistryTypeOK, Triples
<1>1. CASE RegisterNext
  <2>1. CASE \E c \in Registrars : \/ \E d \in Descriptions : Register(c, d)
                                   \/ SetRecord(c) \/ AddEdge(c) \/ Registered(c)
    BY <2>1, RegisterStep
  <2>2. CASE SortSyncs
    <3>1. UNCHANGED <<stored, records, reg, nodeMu, complete, query>>
      BY <2>2 DEF SortSyncs, SyncGraph, IsGraphWriter
    <3> QED
      BY <3>1, <1>a, StoreGrows
  <2>3. CASE (\E i \in Ids : GetDependencies(i)) \/ GetWants
    BY <2>3, QueryStep
  <2> QED
    BY <1>1, <2>1, <2>2, <2>3 DEF RegisterNext
<1>2. CASE SearchNext
  <2>1. CASE (\E a \in Arcs : ShortestPath(a[1], a[2])) \/ Settle \/ NoPath
    <3>1. UNCHANGED <<stored, records, reg, nodeMu, complete, query>>
      BY <2>1 DEF ShortestPath, Settle, NoPath
    <3> QED
      BY <3>1, <1>a, StoreGrows
  <2>2. ASSUME NEW k \in Keys(Arcs), NEW w \in Weights, EdgePut(k, w) PROVE RegInv'
    <3>1. k \in Triples /\ w \in Nat
      BY RegistryAssumption DEF Keys, Triples, EdgeKinds
    <3>2. stored' = PutEdge(stored, k, w) /\ UNCHANGED <<records, reg, nodeMu, complete, query>>
      BY <2>2 DEF EdgePut
    <3>3. /\ DOMAIN stored' = DOMAIN stored \cup {k}
          /\ \A j \in DOMAIN stored' : stored'[j] \in Nat
      BY <3>1, <3>2, <1>a, EdgeIsPut
    <3> QED
      BY <3>1, <3>2, <3>3, <1>a, StoreGrows
  <2> QED
    BY <1>2, <2>1, <2>2 DEF SearchNext
<1>3. CASE UNCHANGED regVars
  BY <1>3, <1>a, StoreGrows DEF regVars
<1> QED
  BY <1>1, <1>2, <1>3 DEF RegistryNext

\* For any number of registrars and any descriptions with finite lists:
\* GetDependencies leaves out nothing that was registered before the call.
THEOREM RegistryDependenciesComplete == RegistrySpec => []DependenciesComplete
<1>1. RegInv => DependenciesComplete
  BY DEF RegInv
<1> QED
  BY <1>1, RegistryInitInv, RegistryStepInv, PTL DEF RegistrySpec

-----------------------------------------------------------------------------
(* The supervisor.                                                         *)

Frames == [obj : Objects, hard : SUBSET Agents, soft : SUBSET Agents,
           dep : Agents \cup {0}, pc : {"deps", "await", "stale"}]

Distinct(s) == \A i, j \in DOMAIN s : i # j => s[i] # s[j]

BootShape ==
    /\ scene \in Scene /\ overlap \in BOOLEAN
    /\ cur \in [Agents -> 0..MaxGen] /\ sm \in [Objects -> States]
    /\ stack \in [Goroutines -> Seq(Frames)]
    /\ ret \in [Goroutines -> {"none", "ok", "err"}]
    /\ halting = [g \in Goroutines |-> halting[g]]
    /\ setup = [pc |-> setup.pc, started |-> setup.started, todo |-> setup.todo]
    /\ phase \in {"setup", "serving", "stopping", "exited"}

\* An agent is constructed once for boot and once for each reload.
GenInv ==
    /\ \A a \in Agents : cur[a] + scene.reloads <= MaxGen
    /\ setup.pc = "discover" =>
         /\ setup.todo \in Seq(Agents) /\ Distinct(setup.todo)
         /\ \A i \in DOMAIN setup.todo : cur[setup.todo[i]] + scene.reloads < MaxGen

\* Where the two goroutines that run setupAgents are; who stops does not start.
PlaceInv ==
    /\ Inside(Main) => phase = "setup" /\ setup.pc = "called"
    /\ ret[Main] # "none" => (phase = "setup" /\ setup.pc = "called") \/ phase = "stopping"
    /\ halting[Main] # NoObject => phase = "stopping"
    /\ Inside(Reloader) \/ ret[Reloader] # "none" => phase # "setup" /\ setup.pc = "called"
    /\ halting[Reloader] = NoObject
    /\ \A g \in Goroutines : halting[g] # NoObject => ~Inside(g)

InStack(o) == \E g \in Goroutines : \E i \in DOMAIN stack[g] : stack[g][i].obj = o
Awaited(o) == \E g \in Goroutines : \E i \in DOMAIN stack[g] :
                stack[g][i].obj = o /\ stack[g][i].pc # "deps"

\* A goroutine is inside of one start of an agent; what is marked as in flight,
\* or is in state starting, is the start of somebody.
StackInv ==
    /\ \A g \in Goroutines : \A i, j \in DOMAIN stack[g] :
         i # j => stack[g][i].obj[1] # stack[g][j].obj[1]
    /\ \A g \in Goroutines : \A i \in DOMAIN stack[g] :
         stack[g][i].dep # 0 => stack[g][i].pc = "deps"
    /\ \A o \in starting : InStack(o)
    /\ \A o \in Objects : sm[o] = "starting" => Awaited(o)

OneBusy == \A g, h \in Goroutines : Busy(g) /\ Busy(h) => g = h

Runs(d) == d \in Known /\ sm[Latest(d)] = "running"

\* The nested starts of a goroutine that works alone: each is the start of what
\* the one below it waits for, none is of a running agent, and what a start is
\* done with among its hard dependencies runs.
NestInv ==
    /\ \A g \in Goroutines : \A i \in DOMAIN stack[g] :
         /\ i + 1 \in DOMAIN stack[g] =>
              stack[g][i].dep \in Known /\ Latest(stack[g][i].dep) = stack[g][i + 1].obj
         /\ sm[stack[g][i].obj] # "running"
         /\ \A d \in Requires(stack[g][i].obj[1]) \ stack[g][i].hard : Runs(d)
    /\ \A g \in Goroutines : Inside(g) /\ ret[g] = "ok" => Runs(Top(g).dep)

BootInv == BootShape /\ GenInv /\ PlaceInv /\ StackInv /\ (~overlap => OneBusy /\ NestInv)

\* A finite set of numbers has its ascending list: the place of an element is
\* the number of smaller ones.
LEMMA SortedList ==
    ASSUME NEW S \in SUBSET Nat, IsFiniteSet(S)
    PROVE  /\ Sorted(S) \in [1..Cardinality(S) -> S] /\ Cardinality(S) \in Nat
           /\ \A i, j \in DOMAIN Sorted(S) : i < j => Sorted(S)[i] < Sorted(S)[j]
<1> DEFINE n == Cardinality(S)
           Below(x) == {y \in S : y < x}
           r == [x \in S |-> Cardinality(Below(x)) + 1]
<1>1. n \in Nat
  BY FS_CardinalityType
<1>2. \A x \in S : IsFiniteSet(Below(x)) /\ Cardinality(Below(x)) \in Nat
  BY FS_Subset, FS_CardinalityType
<1>3. \A x \in S : Cardinality(Below(x)) + 1 \in 1..n
  <2> TAKE x \in S
  <2>1. Cardinality(Below(x)) <= n /\ (n = Cardinality(Below(x)) => S = Below(x))
    BY FS_Subset
  <2>2. x \notin Below(x)
    BY SMT
  <2>3. S # Below(x)
    BY <2>2
  <2> HIDE DEF Below, n
  <2> QED
    BY <1>1, <1>2, <2>1, <2>3
<1>4. \A x, y \in S : x < y => Cardinality(Below(x)) < Cardinality(Below(y))
  <2> SUFFICES ASSUME NEW x \in S, NEW y \in S, x < y
               PROVE  Cardinality(Below(x)) < Cardinality(Below(y))
    OBVIOUS
  <2>0. \A z \in S : z \in Nat
    OBVIOUS
  <2>z. \A z \in S : z < x => z < y
    BY <2>0
  <2>1. Below(x) \in SUBSET Below(y) /\ x \in Below(y) /\ x \notin Below(x)
    <3>1. Below(x) \subseteq Below(y)
      BY <2>z
    <3>2. x \in Below(y)
      OBVIOUS
    <3>3. x \notin Below(x)
      BY SMT
    <3> QED
      BY <3>1, <3>2, <3>3
  <2> HIDE DEF Below
  <2>2. /\ Cardinality(Below(x)) <= Cardinality(Below(y))
        /\ Cardinality(Below(y)) = Cardinality(Below(x)) => Below(y) = Below(x)
    BY <1>2, <2>1, FS_Subset
  <2> QED
    BY <1>2, <2>1, <2>2
<1> HIDE DEF Below
<1>5. r \in [S -> 1..n] /\ \A x, y \in S : x < y => r[x] < r[y]
  <2>1. r \in [S -> 1..n]
    BY <1>3
  <2>2. \A x, y \in S : x < y => r[x] < r[y]
    BY <1>2, <1>4
  <2> QED
    BY <2>1, <2>2
<1> HIDE DEF r
<1>6. \A x, y \in S : r[x] = r[y] => x = y
  <2> SUFFICES ASSUME NEW x \in S, NEW y \in S, x # y PROVE r[x] # r[y]
    OBVIOUS
  <2>1. x < y \/ y < x
    BY SMT
  <2>2. r[x] \in 1..n /\ r[y] \in 1..n
    BY <1>5
  <2> QED
    BY <1>1, <1>5, <2>1, <2>2
<1>7. r \in Injection(S, 1..n)
  BY <1>5, <1>6 DEF Injection, IsInjective
<1>8. IsFiniteSet(1..n) /\ Cardinality(1..n) = n
  BY <1>1, FS_Interval
<1>f. Cardinality(S) = Cardinality(1..n)
  BY <1>8
<1>g. r \in Surjection(S, 1..n)
  BY <1>7, <1>8, <1>f, FS_Injection
<1>9. \A i \in 1..n : \E x \in S : r[x] = i
  BY <1>g DEF Surjection
<1> DEFINE t == [i \in 1..n |-> CHOOSE x \in S : r[x] = i]
<1>10. t \in [1..n -> S] /\ \A i \in 1..n : r[t[i]] = i
  BY <1>9
<1> HIDE DEF t
<1>11. \A i, j \in DOMAIN t : i < j => t[i] < t[j]
  <2> SUFFICES ASSUME NEW i \in 1..n, NEW j \in 1..n, i < j, ~(t[i] < t[j]) PROVE FALSE
    BY <1>10
  <2>1. t[i] \in S /\ t[j] \in S /\ r[t[i]] = i /\ r[t[j]] = j
    BY <1>10
  <2>2. t[i] \in Nat /\ t[j] \in Nat /\ i \in Nat /\ j \in Nat
    <3>1. t[i] \in Nat /\ t[j] \in Nat
      BY <2>1
    <3>2. i \in Nat /\ j \in Nat
      BY <1>1
    <3> QED
      BY <3>1, <3>2
  <2>3. CASE t[i] = t[j]
    BY <2>1, <2>2, <2>3
  <2>4. CASE t[j] < t[i]
    <3>1. r[t[j]] < r[t[i]]
      BY <1>5, <2>1, <2>4
    <3> QED
      BY <3>1, <2>1, <2>2
  <2> QED
    BY <2>2, <2>3, <2>4
<1>12. \E s \in [1..n -> S] : \A i, j \in DOMAIN s : i < j => s[i] < s[j]
  BY <1>10, <1>11
<1> QED
  BY <1>1, <1>12 DEF Sorted

\* What discovery goes through: every agent once.
LEMMA DiscoveryList ==
    /\ Sorted(Agents) \in Seq(Agents) /\ Distinct(Sorted(Agents))
<1> DEFINE s == Sorted(Agents)
           n == Cardinality(Agents)
<1>1. /\ s \in [1..n -> Agents] /\ n \in Nat
      /\ \A i, j \in DOMAIN s : i < j => s[i] < s[j]
  BY SortedList, AgentsAssumption
<1> HIDE DEF s, n
<1>2. s \in Seq(Agents)
  BY <1>1
<1>3. \A i, j \in DOMAIN s : i # j => s[i] # s[j]
  <2> SUFFICES ASSUME NEW i \in 1..n, NEW j \in 1..n, i # j PROVE s[i] # s[j]
    BY <1>1
  <2>1. i < j \/ j < i
    BY <1>1
  <2>2. s[i] \in Nat /\ s[j] \in Nat
    BY <1>1, AgentsAssumption
  <2> QED
    BY <1>1, <2>1, <2>2
<1> QED
  BY <1>2, <1>3 DEF s, Distinct

\* A stack and what is left of it when its top returns.
LEMMA FrontOf ==
    ASSUME NEW S, NEW s \in Seq(S), s # <<>>
    PROVE  /\ Len(s) \in Nat \ {0} /\ DOMAIN s = 1..Len(s)
           /\ Last(s) = s[Len(s)] /\ Last(s) \in S
           /\ Front(s) \in Seq(S) /\ Len(Front(s)) = Len(s) - 1
           /\ DOMAIN Front(s) = 1..(Len(s) - 1)
           /\ \A i \in 1..(Len(s) - 1) : Front(s)[i] = s[i]
<1>1. Len(s) \in Nat \ {0} /\ DOMAIN s = 1..Len(s)
  BY EmptySeq, LenProperties
<1>2. s[Len(s)] \in S
  BY <1>1
<1>3. /\ SubSeq(s, 1, Len(s) - 1) \in Seq(S)
      /\ Len(SubSeq(s, 1, Len(s) - 1)) = Len(s) - 1
      /\ \A i \in 1..(Len(s) - 1) : SubSeq(s, 1, Len(s) - 1)[i] = s[i]
  BY <1>1
<1> QED
  BY <1>1, <1>2, <1>3 DEF Front, Last

\* A stack with one more frame.
LEMMA Pushed ==
    ASSUME NEW S, NEW s \in Seq(S), NEW f \in S
    PROVE  /\ Append(s, f) \in Seq(S) /\ Append(s, f) # <<>>
           /\ Len(Append(s, f)) = Len(s) + 1 /\ Len(s) \in Nat
           /\ DOMAIN Append(s, f) = 1..(Len(s) + 1)
           /\ Append(s, f)[Len(s) + 1] = f
           /\ \A i \in 1..Len(s) : Append(s, f)[i] = s[i]
OBVIOUS

\* A stack with another top frame.
LEMMA Retopped ==
    ASSUME NEW S, NEW s \in Seq(S), s # <<>>, NEW f \in S
    PROVE  LET t == Append(Front(s), f)
           IN  /\ t \in Seq(S) /\ t # <<>> /\ Len(t) = Len(s) /\ DOMAIN t = DOMAIN s
               /\ t[Len(s)] = f /\ Last(t) = f
               /\ \A i \in DOMAIN s : i # Len(s) => t[i] = s[i]
<1> DEFINE t == Append(Front(s), f)
<1>1. /\ Len(s) \in Nat \ {0} /\ DOMAIN s = 1..Len(s)
      /\ Front(s) \in Seq(S) /\ Len(Front(s)) = Len(s) - 1
      /\ \A i \in 1..(Len(s) - 1) : Front(s)[i] = s[i]
  BY FrontOf
<1>2. /\ t \in Seq(S) /\ t # <<>> /\ Len(t) = Len(Front(s)) + 1
      /\ DOMAIN t = 1..(Len(Front(s)) + 1)
      /\ t[Len(Front(s)) + 1] = f
      /\ \A i \in 1..Len(Front(s)) : t[i] = Front(s)[i]
  <2> DEFINE fr == Front(s)
  <2>1. fr \in Seq(S)
    BY <1>1
  <2> HIDE DEF fr
  <2>2. /\ Append(fr, f) \in Seq(S) /\ Append(fr, f) # <<>>
        /\ Len(Append(fr, f)) = Len(fr) + 1
        /\ DOMAIN Append(fr, f) = 1..(Len(fr) + 1)
        /\ Append(fr, f)[Len(fr) + 1] = f
        /\ \A i \in 1..Len(fr) : Append(fr, f)[i] = fr[i]
    BY <2>1, Pushed
  <2> QED
    BY <2>2 DEF fr
<1> HIDE DEF t
<1>3. Len(t) = Len(s) /\ DOMAIN t = DOMAIN s /\ t[Len(s)] = f
  BY <1>1, <1>2
<1>4. \A i \in DOMAIN s : i # Len(s) => t[i] = s[i]
  BY <1>1, <1>2
<1> QED
  BY <1>2, <1>3, <1>4 DEF t, Last

\* What the manager's map holds are objects.
LEMMA LatestType ==
    ASSUME BootShape, NEW d \in Known
    PROVE  Latest(d) \in Objects /\ Latest(d)[1] = d /\ d \in Agents
<1>1. d \in Agents /\ cur[d] \in 0..MaxGen /\ cur[d] # 0
  BY DEF BootShape, Known
<1>2. cur[d] \in Gens
  BY <1>1, BoundsAssumption DEF Gens
<1> QED
  BY <1>1, <1>2 DEF Latest, Objects

\* The frame of a new start.
LEMMA FrameType ==
    ASSUME scene \in Scene, NEW o \in Objects
    PROVE  /\ Frame(o) \in Frames /\ Frame(o).obj = o /\ Frame(o).pc = "deps"
           /\ Frame(o).dep = 0 /\ Frame(o).hard = Requires(o[1])
<1>1. Requires(o[1]) \subseteq Agents /\ Wants(o[1]) \subseteq Agents
  <2>1. \A x \in scene.graph : x[3] \in Agents
    BY DEF Scene
  <2> QED
    BY <2>1 DEF Requires, Wants, Named
<1> QED
  BY <1>1 DEF Frame, Frames

-----------------------------------------------------------------------------
(* How a step changes the nested starts.                                   *)

\* Whoever works alone and is not inside of a start leaves no start at all.
LEMMA AllQuiet ==
    ASSUME BootInv, ~overlap, NEW g \in Goroutines, Busy(g), ~Inside(g)
    PROVE  \A h \in Goroutines : stack[h] = <<>>
BY DEF BootInv, OneBusy, Busy, Idle, Inside

\* Whoever is inside of a start while there was no overlap is the only one.
LEMMA Alone ==
    ASSUME BootInv, ~overlap, NEW g \in Goroutines, Inside(g)
    PROVE  \A h \in Goroutines : h # g => stack[h] = <<>>
BY DEF BootInv, OneBusy, Busy, Idle, Inside

\* Without any start under way there is nothing to say of nested ones.
LEMMA NoNest ==
    ASSUME \A h \in Goroutines : stack[h] = <<>>
    PROVE  NestInv
BY DEF NestInv, Inside

\* A step that concerns no start: what is said of them stays true.
LEMMA FramesKept ==
    ASSUME BootInv, UNCHANGED <<stack, starting, sm, cur>>, scene'.graph = scene.graph,
           \A g \in Goroutines : Inside(g) => ret'[g] = ret[g]
    PROVE  StackInv' /\ (NestInv => NestInv')
<1>1. StackInv'
  BY DEF BootInv, StackInv, InStack, Awaited
<1>2. /\ Known' = Known /\ (\A d : Latest(d)' = Latest(d)) /\ (\A d : Runs(d)' = Runs(d))
      /\ \A a : Requires(a)' = Requires(a)
  BY DEF Known, Latest, Runs, Requires, Named
<1>3. \A g \in Goroutines : Inside(g)' = Inside(g) /\ Top(g)' = Top(g)
  BY DEF Inside, Top
<1>4. ASSUME NestInv PROVE NestInv'
  BY <1>2, <1>3, <1>4 DEF NestInv
<1> QED
  BY <1>1, <1>4

\* A step that only makes states other than starting.
LEMMA StatesChange ==
    ASSUME BootInv, UNCHANGED <<stack, starting>>,
           \A o \in Objects : sm'[o] = "starting" => sm[o] = "starting"
    PROVE  StackInv'
BY DEF BootInv, StackInv, InStack, Awaited

\* The goroutine's innermost start returns res and leaves its object in state v.
LEMMA Leaves ==
    ASSUME BootInv, NEW g \in Goroutines, Inside(g), NEW res, NEW v \in States,
           LeaveStart(g, res), sm' = [sm EXCEPT ![Top(g).obj] = v],
           cur' = cur, scene' = scene, overlap' = overlap,
           v = "starting" => Top(g).pc = "deps" /\ sm[Top(g).obj] = "starting",
           res = "ok" => v = "running"
    PROVE  StackInv' /\ (~overlap' => NestInv')
<1> DEFINE s == stack[g]
           n == Len(stack[g])
           o == Top(g).obj
<1>1. s \in Seq(Frames) /\ s # <<>>
  BY DEF BootInv, BootShape, Inside
<1>2. /\ n \in Nat \ {0} /\ DOMAIN s = 1..n /\ Top(g) = s[n] /\ s[n] \in Frames
      /\ DOMAIN Front(s) = 1..(n - 1) /\ \A i \in 1..(n - 1) : Front(s)[i] = s[i]
      /\ Front(s) \in Seq(Frames) /\ Len(Front(s)) = n - 1
  BY <1>1, FrontOf DEF Top
<1>3. o \in Objects /\ o = s[n].obj
  BY <1>2 DEF Frames
<1>4. /\ stack' = [stack EXCEPT ![g] = Front(s)] /\ starting' = starting \ {o}
      /\ ret' = [ret EXCEPT ![g] = res]
  BY DEF LeaveStart
<1>5. stack'[g] = Front(s) /\ \A h \in Goroutines : h # g => stack'[h] = stack[h]
  BY <1>4 DEF BootInv, BootShape
<1>6. sm'[o] = v /\ \A x \in Objects : x # o => sm'[x] = sm[x]
  BY <1>3 DEF BootInv, BootShape
<1> HIDE DEF s, n, o
<1>7. \A h \in Goroutines : \A i \in DOMAIN stack'[h] :
         i \in DOMAIN stack[h] /\ stack'[h][i] = stack[h][i] /\ (h = g => i < n)
  BY <1>2, <1>5 DEF s
<1>8. \A h \in Goroutines : \A i \in DOMAIN stack[h] :
         (h = g /\ i = n) \/ (i \in DOMAIN stack'[h] /\ stack'[h][i] = stack[h][i])
  BY <1>2, <1>5 DEF s
<1>9. StackInv'
  <2>1. \A h \in Goroutines : \A i, j \in DOMAIN stack'[h] :
          i # j => stack'[h][i].obj[1] # stack'[h][j].obj[1]
    BY <1>7 DEF BootInv, StackInv
  <2>2. \A h \in Goroutines : \A i \in DOMAIN stack'[h] :
          stack'[h][i].dep # 0 => stack'[h][i].pc = "deps"
    BY <1>7 DEF BootInv, StackInv
  <2>3. \A x \in starting' : InStack(x)'
    <3> SUFFICES ASSUME NEW x \in starting, x # o
                 PROVE  \E h \in Goroutines : \E i \in DOMAIN stack'[h] : stack'[h][i].obj = x
      BY <1>4 DEF InStack
    <3>w1. PICK h \in Goroutines : \E i \in DOMAIN stack[h] :
             stack[h][i].obj = x
      BY DEF BootInv, StackInv, InStack
    <3>1. PICK i \in DOMAIN stack[h] : stack[h][i].obj = x
      BY <3>w1
    <3> QED
      BY <3>1, <1>8, <1>3 DEF s
  <2>4. \A x \in Objects : sm'[x] = "starting" => Awaited(x)'
    <3> SUFFICES ASSUME NEW x \in Objects, sm'[x] = "starting"
                 PROVE  \E h \in Goroutines : \E i \in DOMAIN stack'[h] :
                          stack'[h][i].obj = x /\ stack'[h][i].pc # "deps"
      BY DEF Awaited
    <3>1. sm[x] = "starting" /\ (x = o => s[n].pc = "deps")
      BY <1>6, <1>2 DEF o
    <3>w2. PICK h \in Goroutines : \E i \in DOMAIN stack[h] :
             stack[h][i].obj = x /\ stack[h][i].pc # "deps"
      BY <3>1 DEF BootInv, StackInv, Awaited
    <3>2. PICK i \in DOMAIN stack[h] : stack[h][i].obj = x /\ stack[h][i].pc # "deps"
      BY <3>w2
    <3>3. ~(h = g /\ i = n)
      BY <3>1, <3>2, <1>3 DEF s
    <3> QED
      BY <3>2, <3>3, <1>8
  <2> QED
    BY <2>1, <2>2, <2>3, <2>4 DEF StackInv
<1>10. ASSUME ~overlap' PROVE NestInv'
  <2>0. ~overlap /\ NestInv
    BY <1>10 DEF BootInv
  <2>1. \A h \in Goroutines : h # g => stack[h] = <<>>
    BY <2>0, Alone
  <2>2. \A i \in DOMAIN s : i # n => s[i].obj # o /\ s[i] \in Frames
    <3> SUFFICES ASSUME NEW i \in DOMAIN s, i # n PROVE s[i].obj # o /\ s[i] \in Frames
      OBVIOUS
    <3>1. s[i].obj[1] # s[n].obj[1]
      BY <1>2 DEF BootInv, StackInv, s
    <3> QED
      BY <3>1, <1>3, <1>1
  <2>3. sm[o] # "running"
    BY <2>0, <1>2, <1>3 DEF NestInv, s
  <2>4. /\ Known' = Known /\ \A d : Latest(d)' = Latest(d)
        /\ \A a : Requires(a)' = Requires(a)
    BY DEF Known, Latest, Requires, Named
  <2>5. \A d : Runs(d) => Runs(d)'
    <3> SUFFICES ASSUME NEW d, Runs(d) PROVE Runs(d)'
      OBVIOUS
    <3>1. d \in Known /\ Latest(d) \in Objects /\ sm[Latest(d)] = "running"
      BY LatestType DEF Runs, BootInv
    <3> QED
      BY <3>1, <2>3, <2>4, <1>6 DEF Runs
  <2>6. \A h \in Goroutines : \A i \in DOMAIN stack'[h] :
          /\ h = g /\ i \in DOMAIN s /\ i # n /\ stack'[h][i] = s[i]
          /\ i + 1 \in DOMAIN stack'[h] => i + 1 \in DOMAIN s /\ stack'[h][i + 1] = s[i + 1]
    BY <1>2, <1>5, <2>1 DEF s
  <2>7. \A h \in Goroutines : \A i \in DOMAIN stack'[h] :
          /\ i + 1 \in DOMAIN stack'[h] =>
               /\ stack'[h][i].dep \in Known
               /\ Latest(stack'[h][i].dep) = stack'[h][i + 1].obj
          /\ sm'[stack'[h][i].obj] # "running"
          /\ \A d \in Requires(stack'[h][i].obj[1]) \ stack'[h][i].hard : Runs(d)'
    <3> SUFFICES ASSUME NEW i \in DOMAIN s, i # n
                 PROVE  /\ i + 1 \in DOMAIN s =>
                            s[i].dep \in Known /\ Latest(s[i].dep) = s[i + 1].obj
                        /\ sm'[s[i].obj] # "running"
                        /\ \A d \in Requires(s[i].obj[1]) \ s[i].hard : Runs(d)'
      BY <2>4, <2>6
    <3>1. /\ i + 1 \in DOMAIN s => s[i].dep \in Known /\ Latest(s[i].dep) = s[i + 1].obj
          /\ sm[s[i].obj] # "running"
          /\ \A d \in Requires(s[i].obj[1]) \ s[i].hard : Runs(d)
      BY <2>0 DEF NestInv, s
    <3>2. s[i].obj \in Objects /\ s[i].obj # o
      BY <2>2 DEF Frames
    <3> QED
      BY <3>1, <3>2, <2>5, <1>6
  <2>8. \A h \in Goroutines : Inside(h)' /\ ret'[h] = "ok" => Runs(Top(h).dep)'
    <3> SUFFICES ASSUME NEW h \in Goroutines, stack'[h] # <<>>, ret'[h] = "ok"
                 PROVE  Runs(Top(h).dep)'
      BY DEF Inside
    <3>1. h = g /\ stack'[h] = Front(s) /\ res = "ok"
      BY <2>1, <1>5, <1>4 DEF BootInv, BootShape
    <3>2. n - 1 \in DOMAIN s /\ n # 1 /\ Top(h)' = s[n - 1]
      <4>1. Front(s) # <<>> /\ Front(s) \in Seq(Frames)
        BY <3>1, <1>2
      <4>2. Len(Front(s)) # 0 /\ Last(Front(s)) = Front(s)[Len(Front(s))]
        BY <4>1, FrontOf
      <4> QED
        BY <4>2, <3>1, <1>2 DEF Top
    <3>3. s[n - 1].dep \in Known /\ Latest(s[n - 1].dep) = o
      <4>1. (n - 1) + 1 = n /\ n \in DOMAIN s
        BY <1>2
      <4> QED
        BY <4>1, <3>2, <2>0, <1>3 DEF NestInv, s
    <3> QED
      BY <3>1, <3>2, <3>3, <2>4, <1>6 DEF Runs
  <2> QED
    BY <2>7, <2>8 DEF NestInv, Known, Latest, Requires, Named
<1> QED
  BY <1>9, <1>10

\* The goroutine's innermost start goes on as f, with its object in state v.
LEMMA GoesOn ==
    ASSUME BootInv, NEW g \in Goroutines, Inside(g), NEW f \in Frames, NEW r, NEW v \in States,
           stack' = [stack EXCEPT ![g] = Append(Front(stack[g]), f)],
           ret' = [ret EXCEPT ![g] = r], sm' = [sm EXCEPT ![Top(g).obj] = v],
           starting' = starting, cur' = cur, scene' = scene, overlap' = overlap,
           f.obj = Top(g).obj, f.dep # 0 => f.pc = "deps",
           Top(g).pc = "deps" \/ f.pc # "deps",
           v = "starting" => f.pc # "deps" \/ sm[Top(g).obj] = "starting",
           v = "running" => sm[Top(g).obj] = "running",
           ~overlap => /\ r = "ok" => Runs(f.dep)
                       /\ \A d \in Requires(f.obj[1]) \ f.hard : Runs(d)
    PROVE  StackInv' /\ (~overlap' => NestInv')
<1> DEFINE s == stack[g]
           n == Len(stack[g])
           o == Top(g).obj
           t == Append(Front(stack[g]), f)
<1>1. s \in Seq(Frames) /\ s # <<>>
  BY DEF BootInv, BootShape, Inside
<1>2. /\ n \in Nat \ {0} /\ DOMAIN s = 1..n /\ Top(g) = s[n] /\ s[n] \in Frames
  BY <1>1, FrontOf DEF Top
<1>3. /\ t \in Seq(Frames) /\ t # <<>> /\ DOMAIN t = DOMAIN s
      /\ t[n] = f /\ Last(t) = f /\ \A i \in DOMAIN s : i # n => t[i] = s[i]
  BY <1>1, Retopped
<1>4. o \in Objects /\ o = s[n].obj /\ f.obj = o
  BY <1>2 DEF Frames
<1>5. stack'[g] = t /\ \A h \in Goroutines : h # g => stack'[h] = stack[h]
  BY DEF BootInv, BootShape
<1>6. sm'[o] = v /\ \A x \in Objects : x # o => sm'[x] = sm[x]
  BY <1>4 DEF BootInv, BootShape
<1>p. s[n].pc = "deps" \/ f.pc # "deps"
  BY <1>2
<1> HIDE DEF s, n, o, t
<1>7. \A h \in Goroutines :
         /\ DOMAIN stack'[h] = DOMAIN stack[h]
         /\ \A i \in DOMAIN stack[h] :
              /\ stack'[h][i].obj = stack[h][i].obj
              /\ ~(h = g /\ i = n) => stack'[h][i] = stack[h][i]
  BY <1>3, <1>4, <1>5 DEF s
<1>8. StackInv'
  <2>1. \A h \in Goroutines : \A i, j \in DOMAIN stack'[h] :
          i # j => stack'[h][i].obj[1] # stack'[h][j].obj[1]
    BY <1>7 DEF BootInv, StackInv
  <2>2. \A h \in Goroutines : \A i \in DOMAIN stack'[h] :
          stack'[h][i].dep # 0 => stack'[h][i].pc = "deps"
    BY <1>7, <1>3, <1>5 DEF BootInv, StackInv
  <2>3. \A x \in starting' : InStack(x)'
    BY <1>7 DEF BootInv, StackInv, InStack
  <2>4. \A x \in Objects : sm'[x] = "starting" => Awaited(x)'
    <3> SUFFICES ASSUME NEW x \in Objects, sm'[x] = "starting"
                 PROVE  \E h \in Goroutines : \E i \in DOMAIN stack'[h] :
                          stack'[h][i].obj = x /\ stack'[h][i].pc # "deps"
      BY DEF Awaited
    <3>1. CASE x = o /\ f.pc # "deps"
      BY <3>1, <1>2, <1>3, <1>4, <1>5
    <3>2. CASE ~(x = o /\ f.pc # "deps")
      <4>1. sm[x] = "starting"
        BY <3>2, <1>6 DEF o
      <4>w2. PICK h \in Goroutines : \E i \in DOMAIN stack[h] :
               stack[h][i].obj = x /\ stack[h][i].pc # "deps"
        BY <4>1 DEF BootInv, StackInv, Awaited
      <4>2. PICK i \in DOMAIN stack[h] : stack[h][i].obj = x /\ stack[h][i].pc # "deps"
        BY <4>w2
      <4>3. ~(h = g /\ i = n)
        BY <3>2, <4>2, <1>4, <1>p DEF s
      <4> QED
        BY <4>2, <4>3, <1>7
    <3> QED
      BY <3>1, <3>2
  <2> QED
    BY <2>1, <2>2, <2>3, <2>4 DEF StackInv
<1>9. ASSUME ~overlap' PROVE NestInv'
  <2>0. ~overlap /\ NestInv
    BY <1>9 DEF BootInv
  <2>1. \A h \in Goroutines : h # g => stack[h] = <<>>
    BY <2>0, Alone
  <2>3. sm[o] # "running" /\ v # "running"
    BY <2>0, <1>2, <1>4 DEF NestInv, s, o
  <2>4. /\ Known' = Known /\ \A d : Latest(d)' = Latest(d)
        /\ \A a : Requires(a)' = Requires(a)
    BY DEF Known, Latest, Requires, Named
  <2>5. \A d : Runs(d) => Runs(d)'
    <3> SUFFICES ASSUME NEW d, Runs(d) PROVE Runs(d)'
      OBVIOUS
    <3>1. d \in Known /\ Latest(d) \in Objects /\ sm[Latest(d)] = "running"
      BY LatestType DEF Runs, BootInv
    <3> QED
      BY <3>1, <2>3, <2>4, <1>6 DEF Runs
  <2>6. ASSUME NEW i \in DOMAIN s
        PROVE  /\ i + 1 \in DOMAIN s =>
                    t[i].dep \in Known /\ Latest(t[i].dep) = t[i + 1].obj
               /\ sm'[t[i].obj] # "running"
               /\ \A d \in Requires(t[i].obj[1]) \ t[i].hard : Runs(d)'
    <3>1. /\ i + 1 \in DOMAIN s => s[i].dep \in Known /\ Latest(s[i].dep) = s[i + 1].obj
          /\ sm[s[i].obj] # "running"
          /\ \A d \in Requires(s[i].obj[1]) \ s[i].hard : Runs(d)
      BY <2>0 DEF NestInv, s
    <3>2. s[i].obj \in Objects
      <4>1. s[i] \in Frames
        BY <1>1
      <4> QED
        BY <4>1 DEF Frames
    <3>3. i + 1 \in DOMAIN s => i # n /\ t[i + 1].obj = s[i + 1].obj
      BY <1>2, <1>3, <1>4
    <3>4. CASE i = n
      BY <3>3, <3>4, <2>0, <2>3, <2>5, <1>3, <1>4, <1>6
    <3>5. CASE i # n
      BY <3>1, <3>2, <3>3, <3>5, <2>3, <2>5, <1>3, <1>6
    <3> QED
      BY <3>4, <3>5
  <2>7. \A h \in Goroutines : \A i \in DOMAIN stack'[h] :
          /\ i + 1 \in DOMAIN stack'[h] =>
               /\ stack'[h][i].dep \in Known
               /\ Latest(stack'[h][i].dep) = stack'[h][i + 1].obj
          /\ sm'[stack'[h][i].obj] # "running"
          /\ \A d \in Requires(stack'[h][i].obj[1]) \ stack'[h][i].hard : Runs(d)'
    <3>1. \A h \in Goroutines : \A i \in DOMAIN stack'[h] : h = g /\ i \in DOMAIN s
      BY <1>7, <2>1 DEF s
    <3>2. stack'[g] = t /\ DOMAIN t = DOMAIN s
      BY <1>3, <1>5
    <3> QED
      BY <3>1, <3>2, <2>4, <2>6
  <2>8. \A h \in Goroutines : Inside(h)' /\ ret'[h] = "ok" => Runs(Top(h).dep)'
    <3> SUFFICES ASSUME NEW h \in Goroutines, stack'[h] # <<>>, ret'[h] = "ok"
                 PROVE  Runs(Top(h).dep)'
      BY DEF Inside
    <3>1. h = g /\ stack'[h] = t /\ r = "ok"
      BY <2>1, <1>5 DEF BootInv, BootShape
    <3>2. Top(h)' = f
      BY <3>1, <1>3 DEF Top
    <3>3. Runs(f.dep)
      BY <3>1, <2>0
    <3> QED
      BY <3>2, <3>3, <2>5
  <2> QED
    BY <2>7, <2>8 DEF NestInv, Known, Latest, Requires, Named
<1> QED
  BY <1>8, <1>9

\* A new start of o on top of the ones in t, which are the goroutine's own: the
\* innermost of them now waits for o.
LEMMA Begins ==
    ASSUME BootInv, NEW g \in Goroutines, NEW o \in Objects, NEW t \in Seq(Frames),
           ret[g] = "none", stack' = [stack EXCEPT ![g] = Append(t, Frame(o))],
           ret' = ret, sm' = sm, starting' = starting \cup {o}, cur' = cur,
           scene'.graph = scene.graph,
           ~Visited(t, o), ~AnsweredAtOnce(o),
           DOMAIN t = DOMAIN stack[g],
           \A i \in DOMAIN t : /\ t[i].obj = stack[g][i].obj /\ t[i].pc = stack[g][i].pc
                               /\ t[i].hard = stack[g][i].hard
                               /\ i # Len(t) => t[i] = stack[g][i],
           t # <<>> => /\ Last(t).dep \in Known /\ Latest(Last(t).dep) = o
                       /\ Last(t).pc = "deps"
    PROVE  StackInv' /\ (NestInv => NestInv')
<1> DEFINE n == Len(t)
           u == Append(t, Frame(o))
<1>0. /\ Frame(o) \in Frames /\ Frame(o).obj = o /\ Frame(o).pc = "deps"
      /\ Frame(o).dep = 0 /\ Frame(o).hard = Requires(o[1])
  BY FrameType DEF BootInv, BootShape
<1>1. /\ u \in Seq(Frames) /\ DOMAIN u = 1..(n + 1) /\ u[n + 1] = Frame(o) /\ n \in Nat
      /\ \A i \in 1..n : u[i] = t[i]
  BY <1>0, Pushed
<1>2. DOMAIN t = 1..n
  OBVIOUS
<1>3. stack'[g] = u /\ \A h \in Goroutines : h # g => stack'[h] = stack[h]
  BY DEF BootInv, BootShape
<1>t. n # 0 => t # <<>> /\ Last(t) = t[n]
  BY DEF Last
<1> HIDE DEF n, u
<1>4. \A i \in DOMAIN u : i = n + 1 \/ (i \in DOMAIN stack[g] /\ i \in 1..n /\ u[i] = t[i])
  BY <1>1, <1>2
<1>5. \A i \in DOMAIN stack[g] : /\ i \in DOMAIN u /\ u[i] = t[i]
                                  /\ u[i].obj = stack[g][i].obj /\ u[i].pc = stack[g][i].pc
  BY <1>1, <1>2
<1>6. StackInv'
  <2>1. \A h \in Goroutines : \A i, j \in DOMAIN stack'[h] :
          i # j => stack'[h][i].obj[1] # stack'[h][j].obj[1]
    <3> SUFFICES ASSUME NEW i \in DOMAIN u, NEW j \in DOMAIN u, i # j
                 PROVE  u[i].obj[1] # u[j].obj[1]
      BY <1>3 DEF BootInv, StackInv
    <3>1. CASE i # n + 1 /\ j # n + 1
      BY <3>1, <1>4 DEF BootInv, StackInv
    <3>2. \A k \in 1..n : u[k].obj[1] # o[1]
      BY <1>1, <1>2 DEF Visited
    <3> QED
      BY <3>1, <3>2, <1>0, <1>1, <1>4
  <2>2. \A h \in Goroutines : \A i \in DOMAIN stack'[h] :
          stack'[h][i].dep # 0 => stack'[h][i].pc = "deps"
    <3>1. \A i \in DOMAIN u : u[i].dep # 0 => u[i].pc = "deps"
      <4> SUFFICES ASSUME NEW i \in DOMAIN u, i # n + 1, u[i].dep # 0 PROVE u[i].pc = "deps"
        BY <1>0, <1>1
      <4>1. CASE i = n
        BY <4>1, <1>4, <1>t, <1>1
      <4>2. CASE i # n
        BY <4>2, <1>4 DEF BootInv, StackInv, n
      <4> QED
        BY <4>1, <4>2
    <3> QED
      BY <3>1, <1>3 DEF BootInv, StackInv
  <2>3. \A x \in starting' : InStack(x)'
    <3> SUFFICES ASSUME NEW x \in starting'
                 PROVE  \E h \in Goroutines : \E i \in DOMAIN stack'[h] : stack'[h][i].obj = x
      BY DEF InStack
    <3>1. CASE x = o
      BY <3>1, <1>0, <1>1, <1>3
    <3>2. CASE x # o
      <4>w1. PICK h \in Goroutines : \E i \in DOMAIN stack[h] :
               stack[h][i].obj = x
        BY <3>2 DEF BootInv, StackInv, InStack
      <4>1. PICK i \in DOMAIN stack[h] : stack[h][i].obj = x
        BY <4>w1
      <4> QED
        BY <4>1, <1>3, <1>5
    <3> QED
      BY <3>1, <3>2
  <2>4. \A x \in Objects : sm'[x] = "starting" => Awaited(x)'
    <3> SUFFICES ASSUME NEW x \in Objects, sm[x] = "starting"
                 PROVE  \E h \in Goroutines : \E i \in DOMAIN stack'[h] :
                          stack'[h][i].obj = x /\ stack'[h][i].pc # "deps"
      BY DEF Awaited
    <3>w1. PICK h \in Goroutines : \E i \in DOMAIN stack[h] :
             stack[h][i].obj = x /\ stack[h][i].pc # "deps"
      BY DEF BootInv, StackInv, Awaited
    <3>1. PICK i \in DOMAIN stack[h] : stack[h][i].obj = x /\ stack[h][i].pc # "deps"
      BY <3>w1
    <3>2. CASE h = g
      <4>1. /\ i \in DOMAIN stack'[g] /\ stack'[g][i].obj = x
            /\ stack'[g][i].pc # "deps"
        BY <3>1, <3>2, <1>3, <1>5
      <4> QED
        BY <4>1
    <3>3. CASE h # g
      <4>1. /\ i \in DOMAIN stack'[h] /\ stack'[h][i].obj = x
            /\ stack'[h][i].pc # "deps"
        BY <3>1, <3>3, <1>3
      <4> QED
        BY <4>1
    <3> QED
      BY <3>2, <3>3
  <2> QED
    BY <2>1, <2>2, <2>3, <2>4 DEF StackInv
<1>7. ASSUME NestInv PROVE NestInv'
  <2>4. /\ Known' = Known /\ (\A d : Latest(d)' = Latest(d)) /\ (\A d : Runs(d)' = Runs(d))
        /\ \A a : Requires(a)' = Requires(a)
    BY DEF Known, Latest, Runs, Requires, Named
  <2>5. ASSUME NEW i \in DOMAIN u
        PROVE  /\ i + 1 \in DOMAIN u =>
                    u[i].dep \in Known /\ Latest(u[i].dep) = u[i + 1].obj
               /\ sm[u[i].obj] # "running"
               /\ \A d \in Requires(u[i].obj[1]) \ u[i].hard : Runs(d)
    <3>1. CASE i = n + 1
      <4>1. i + 1 \notin DOMAIN u
        BY <3>1, <1>1
      <4> QED
        BY <4>1, <3>1, <1>0, <1>1 DEF AnsweredAtOnce
    <3>2. CASE i = n
      <4>1. i # n + 1 /\ i \in DOMAIN stack[g] /\ u[i] = t[i] /\ n # 0
        BY <3>2, <1>1, <1>4
      <4>2. u[i].dep \in Known /\ Latest(u[i].dep) = u[i + 1].obj
        BY <3>2, <4>1, <1>t, <1>0, <1>1
      <4> QED
        BY <4>1, <4>2, <1>7 DEF NestInv
    <3>3. CASE i # n + 1 /\ i # n
      <4>1. /\ i \in DOMAIN stack[g] /\ u[i] = stack[g][i]
            /\ i + 1 \in DOMAIN stack[g] /\ u[i + 1].obj = stack[g][i + 1].obj
        BY <3>3, <1>1, <1>2, <1>4, <1>5 DEF n
      <4> QED
        BY <4>1, <1>7 DEF NestInv
    <3> QED
      BY <3>1, <3>2, <3>3
  <2>6. \A h \in Goroutines : \A i \in DOMAIN stack'[h] :
          /\ i + 1 \in DOMAIN stack'[h] =>
               /\ stack'[h][i].dep \in Known
               /\ Latest(stack'[h][i].dep) = stack'[h][i + 1].obj
          /\ sm'[stack'[h][i].obj] # "running"
          /\ \A d \in Requires(stack'[h][i].obj[1]) \ stack'[h][i].hard : Runs(d)'
    <3> SUFFICES ASSUME NEW h \in Goroutines, NEW i \in DOMAIN stack'[h]
                 PROVE  /\ i + 1 \in DOMAIN stack'[h] =>
                             /\ stack'[h][i].dep \in Known
                             /\ Latest(stack'[h][i].dep) = stack'[h][i + 1].obj
                        /\ sm[stack'[h][i].obj] # "running"
                        /\ \A d \in Requires(stack'[h][i].obj[1]) \ stack'[h][i].hard : Runs(d)
      BY <2>4
    <3>1. CASE h = g
      BY <3>1, <1>3, <2>5
    <3>2. CASE h # g
      BY <3>2, <1>3, <1>7 DEF NestInv
    <3> QED
      BY <3>1, <3>2
  <2>7. \A h \in Goroutines : Inside(h)' /\ ret'[h] = "ok" => Runs(Top(h).dep)'
    <3> SUFFICES ASSUME NEW h \in Goroutines, stack'[h] # <<>>, ret[h] = "ok"
                 PROVE  Runs(Top(h).dep)'
      BY DEF Inside
    <3>1. h # g /\ stack'[h] = stack[h]
      BY <1>3
    <3>2. Top(h)' = Top(h) /\ Inside(h)
      BY <3>1 DEF Top, Inside
    <3> QED
      BY <3>2, <2>4, <1>7 DEF NestInv
  <2> QED
    BY <2>6, <2>7 DEF NestInv, Known, Latest, Requires, Named
<1> QED
  BY <1>6, <1>7

-----------------------------------------------------------------------------
(* The steps of a start.                                                   *)

\* A step of a goroutine inside of a start that concerns only its own stack.
LEMMA OwnStep ==
    ASSUME BootInv, NEW g \in Goroutines, Inside(g), NEW t \in Seq(Frames),
           NEW r \in {"none", "ok", "err"},
           stack' = [stack EXCEPT ![g] = t], ret' = [ret EXCEPT ![g] = r],
           sm' \in [Objects -> States],
           UNCHANGED <<scene, cur, halting, setup, phase, overlap>>,
           StackInv', ~overlap' => NestInv'
    PROVE  BootInv'
<1>1. BootShape'
  BY DEF BootInv, BootShape
<1>2. GenInv'
  BY DEF BootInv, GenInv
<1>3. /\ \A h \in Goroutines : h # g => stack'[h] = stack[h] /\ ret'[h] = ret[h]
      /\ stack[g] # <<>>
  BY DEF BootInv, BootShape, Inside
<1>4. PlaceInv'
  BY <1>3, GoroutinesAssumption DEF BootInv, PlaceInv, Inside, Goroutines
<1>5. \A h \in Goroutines : Busy(h)' => Busy(h)
  BY <1>3 DEF Busy, Idle, Inside
<1>6. ~overlap' => OneBusy'
  BY <1>5 DEF BootInv, OneBusy
<1> QED
  BY <1>1, <1>2, <1>4, <1>6 DEF BootInv

\* The innermost frame.
LEMMA TopFrame ==
    ASSUME BootInv, NEW g \in Goroutines, Inside(g)
    PROVE  /\ Top(g) \in Frames /\ Top(g).obj \in Objects
           /\ stack[g] \in Seq(Frames) /\ stack[g] # <<>>
           /\ Top(g).dep # 0 => Top(g).pc = "deps"
           /\ ~overlap => /\ sm[Top(g).obj] # "running"
                          /\ \A d \in Requires(Top(g).obj[1]) \ Top(g).hard : Runs(d)
<1>1. stack[g] \in Seq(Frames) /\ stack[g] # <<>>
  BY DEF BootInv, BootShape, Inside
<1>2. Len(stack[g]) \in DOMAIN stack[g] /\ Top(g) = stack[g][Len(stack[g])] /\ Top(g) \in Frames
  BY <1>1, FrontOf DEF Top
<1>3. Top(g).dep # 0 => Top(g).pc = "deps"
  BY <1>2 DEF BootInv, StackInv
<1>4. ~overlap => /\ sm[Top(g).obj] # "running"
                  /\ \A d \in Requires(Top(g).obj[1]) \ Top(g).hard : Runs(d)
  BY <1>2 DEF BootInv, NestInv
<1> QED
  BY <1>1, <1>2, <1>3, <1>4 DEF Frames

\* While nobody else is at work, a start that is answered at once without being
\* one of the goroutine's own is that of a running agent.
LEMMA AnsweredRuns ==
    ASSUME BootInv, NEW g \in Goroutines, \A h \in Goroutines : h # g => stack[h] = <<>>,
           NEW o \in Objects, NEW t, ~Visited(t, o), AnsweredAtOnce(o),
           \A i \in DOMAIN stack[g] : i \in DOMAIN t /\ t[i].obj = stack[g][i].obj
    PROVE  sm[o] = "running"
<1> SUFFICES ASSUME sm[o] = "starting" \/ o \in starting PROVE FALSE
  BY DEF AnsweredAtOnce
<1>w1. PICK h \in Goroutines : \E i \in DOMAIN stack[h] :
         stack[h][i].obj = o
  BY DEF BootInv, StackInv, InStack, Awaited
<1>1. PICK i \in DOMAIN stack[h] : stack[h][i].obj = o
  BY <1>w1
<1>2. h = g
  BY <1>1
<1> QED
  BY <1>1, <1>2 DEF Visited

\* EnsureStarted keeps the invariant.
LEMMA EnsureStartedStep ==
    ASSUME BootInv, NEW g \in Goroutines, EnsureStarted(g)
    PROVE  BootInv'
<1> DEFINE T == Top(g)
           o == Top(g).obj
<1>1. Inside(g) /\ ret[g] = "none" /\ T.pc = "deps"
      /\ UNCHANGED <<scene, cur, sm, halting, setup, phase, overlap>>
  BY DEF EnsureStarted, runVars, histVars
<1>2. /\ T \in Frames /\ o \in Objects /\ stack[g] \in Seq(Frames) /\ stack[g] # <<>>
      /\ ~overlap => \A d \in Requires(o[1]) \ T.hard : Runs(d)
  BY <1>1, TopFrame
<1>3. PICK d \in T.hard \cup T.soft :
        LET f == [T EXCEPT !.dep = d]
        IN  IF d \in Known
              THEN EnterStart(g, Append(Front(stack[g]), f), Latest(d))
              ELSE /\ SetTop(g, f) /\ ret' = [ret EXCEPT ![g] = "err"]
                   /\ UNCHANGED starting
  BY DEF EnsureStarted
<1> DEFINE f == [T EXCEPT !.dep = d]
           t == Append(Front(stack[g]), f)
<1>4. /\ f \in Frames /\ f.obj = o /\ f.dep = d /\ f.pc = "deps" /\ f.hard = T.hard
  BY <1>1, <1>2 DEF Frames
<1> HIDE DEF T, f
<1>5. /\ t \in Seq(Frames) /\ t # <<>> /\ Len(t) = Len(stack[g]) /\ DOMAIN t = DOMAIN stack[g]
      /\ t[Len(stack[g])] = f /\ Last(t) = f
      /\ \A i \in DOMAIN stack[g] : i # Len(stack[g]) => t[i] = stack[g][i]
  BY <1>2, <1>4, Retopped
<1>s. sm' = [sm EXCEPT ![Top(g).obj] = sm[o]] /\ sm[o] \in States /\ sm' \in [Objects -> States]
  BY <1>1, <1>2 DEF BootInv, BootShape
<1>l. Len(stack[g]) \in DOMAIN stack[g] /\ stack[g][Len(stack[g])] = T
  BY <1>2, FrontOf DEF T, Top
<1>o. \A i \in DOMAIN stack[g] :
        t[i].obj = stack[g][i].obj /\ t[i].pc = stack[g][i].pc /\ t[i].hard = stack[g][i].hard
  BY <1>1, <1>4, <1>5, <1>l DEF T
<1>6. ASSUME NEW r \in {"ok", "err"}, stack' = [stack EXCEPT ![g] = t],
             ret' = [ret EXCEPT ![g] = r], starting' = starting,
             ~overlap => (r = "ok" => Runs(d))
      PROVE  BootInv'
  <2>1. StackInv' /\ (~overlap' => NestInv')
    BY <1>1, <1>2, <1>4, <1>s, <1>6, GoesOn DEF T
  <2> QED
    BY <2>1, <1>1, <1>5, <1>6, <1>s, OwnStep
<1>7. CASE d \notin Known
  <2>1. stack' = [stack EXCEPT ![g] = t] /\ ret' = [ret EXCEPT ![g] = "err"] /\ starting' = starting
    BY <1>3, <1>7 DEF SetTop, f
  <2> QED
    BY <2>1, <1>6
<1>8. CASE d \in Known
  <2>0. EnterStart(g, t, Latest(d))
    BY <1>3, <1>8 DEF f
  <2>1. Latest(d) \in Objects
    BY <1>8, LatestType DEF BootInv
  <2>2. CASE Visited(t, Latest(d)) \/ AnsweredAtOnce(Latest(d))
    <3> DEFINE r == IF Visited(t, Latest(d)) THEN "err" ELSE "ok"
    <3>1. stack' = [stack EXCEPT ![g] = t] /\ ret' = [ret EXCEPT ![g] = r] /\ starting' = starting
      BY <2>0, <2>2 DEF EnterStart
    <3>2. ~overlap => (r = "ok" => Runs(d))
      <4> SUFFICES ASSUME ~overlap, ~Visited(t, Latest(d)) PROVE Runs(d)
        OBVIOUS
      <4>1. \A h \in Goroutines : h # g => stack[h] = <<>>
        BY <1>1, Alone
      <4>2. sm[Latest(d)] = "running"
        BY <2>1, <2>2, <4>1, <1>5, <1>o, AnsweredRuns
      <4> QED
        BY <4>2, <1>8 DEF Runs
    <3> QED
      BY <3>1, <3>2, <1>6
  <2>3. CASE ~(Visited(t, Latest(d)) \/ AnsweredAtOnce(Latest(d)))
    <3>1. /\ stack' = [stack EXCEPT ![g] = Append(t, Frame(Latest(d)))]
          /\ starting' = starting \cup {Latest(d)} /\ ret' = ret
      BY <2>0, <2>3 DEF EnterStart
    <3>2. StackInv' /\ (NestInv => NestInv')
      BY <3>1, <2>1, <2>3, <1>1, <1>4, <1>5, <1>8, <1>o, Begins
    <3>3. ~overlap' => NestInv'
      BY <3>2, <1>1 DEF BootInv
    <3>4. Append(t, Frame(Latest(d))) \in Seq(Frames)
      BY <1>5, <2>1, FrameType, Pushed DEF BootInv, BootShape
    <3>5. ret' = [ret EXCEPT ![g] = "none"]
      BY <3>1, <1>1 DEF BootInv, BootShape
    <3> QED
      BY <3>1, <3>2, <3>3, <3>4, <3>5, <1>1, <1>s, OwnStep
  <2> QED
    BY <2>2, <2>3
<1> QED
  BY <1>7, <1>8

\* A dependency's answer keeps the invariant: only a hard dependency that was
\* answered ok is taken off the list.
LEMMA DependencyReturnedStep ==
    ASSUME BootInv, NEW g \in Goroutines, DependencyReturned(g)
    PROVE  BootInv'
<1> DEFINE T == Top(g)
           o == Top(g).obj
<1>1. Inside(g) /\ ret[g] # "none" /\ T.dep # 0
      /\ UNCHANGED <<scene, cur, sm, halting, setup, phase, overlap>>
  BY DEF DependencyReturned, runVars, histVars
<1>2. /\ T \in Frames /\ o \in Objects /\ stack[g] \in Seq(Frames) /\ stack[g] # <<>>
      /\ T.pc = "deps"
      /\ ~overlap => \A d \in Requires(o[1]) \ T.hard : Runs(d)
  BY <1>1, TopFrame
<1>s. sm' = [sm EXCEPT ![Top(g).obj] = sm[o]] /\ sm[o] \in States /\ sm' \in [Objects -> States]
  BY <1>1, <1>2 DEF BootInv, BootShape
<1>3. CASE LeaveStart(g, "err")
  <2>1. StackInv' /\ (~overlap' => NestInv')
    BY <1>1, <1>2, <1>3, <1>s, Leaves
  <2>2. /\ stack' = [stack EXCEPT ![g] = Front(stack[g])] /\ Front(stack[g]) \in Seq(Frames)
        /\ ret' = [ret EXCEPT ![g] = "err"]
    BY <1>2, <1>3, FrontOf DEF LeaveStart
  <2> QED
    BY <2>1, <2>2, <1>1, <1>s, OwnStep
<1>4. CASE ~Blocks(T, ret[g]) /\ ret' = [ret EXCEPT ![g] = "none"] /\ starting' = starting
           /\ SetTop(g, IF T.dep \in T.hard
                          THEN [T EXCEPT !.hard = @ \ {T.dep}, !.dep = 0]
                          ELSE [T EXCEPT !.soft = @ \ {T.dep}, !.dep = 0])
  <2> DEFINE f == IF T.dep \in T.hard
                    THEN [T EXCEPT !.hard = @ \ {T.dep}, !.dep = 0]
                    ELSE [T EXCEPT !.soft = @ \ {T.dep}, !.dep = 0]
             t == Append(Front(stack[g]), f)
  <2>1. /\ f \in Frames /\ f.obj = o /\ f.dep = 0 /\ f.pc = "deps"
        /\ T.dep \in T.hard => f.hard = T.hard \ {T.dep}
        /\ T.dep \notin T.hard => f.hard = T.hard
    BY <1>2 DEF Frames
  <2>2. stack' = [stack EXCEPT ![g] = t]
    BY <1>4 DEF SetTop
  <2> HIDE DEF f
  <2>3. t \in Seq(Frames)
    BY <1>2, <2>1, Retopped
  <2>4. ~overlap => \A d \in Requires(f.obj[1]) \ f.hard : Runs(d)
    <3> SUFFICES ASSUME ~overlap, NEW d \in Requires(o[1]) \ f.hard PROVE Runs(d)
      BY <2>1
    <3>1. CASE d \notin T.hard
      BY <3>1, <1>2
    <3>2. CASE d \in T.hard
      <4>1. d = T.dep /\ T.dep \in T.hard
        BY <3>2, <2>1
      <4>2. ret[g] = "ok"
        BY <4>1, <1>1, <1>4 DEF Blocks, BootInv, BootShape
      <4> QED
        BY <4>1, <4>2, <1>1 DEF BootInv, NestInv
    <3> QED
      BY <3>1, <3>2
  <2>5. StackInv' /\ (~overlap' => NestInv')
    BY <1>1, <1>2, <1>4, <1>s, <2>1, <2>2, <2>4, GoesOn
  <2> QED
    BY <2>2, <2>3, <2>5, <1>1, <1>4, <1>s, OwnStep
<1> QED
  BY <1>3, <1>4 DEF DependencyReturned

\* The spawn keeps the invariant, and so do the four ways a start then ends.
LEMMA SpawnStep ==
    ASSUME BootInv, NEW g \in Goroutines,
           Spawn(g) \/ SpawnFailed(g) \/ BecameRunning(g) \/ StartTimedOut(g)
    PROVE  BootInv'
<1> DEFINE T == Top(g)
           o == Top(g).obj
<1>1. Inside(g) /\ UNCHANGED <<scene, cur, halting, setup, phase, overlap>>
  BY DEF Spawn, SpawnFailed, BecameRunning, StartTimedOut, AtSpawn, runVars, histVars
<1>2. /\ T \in Frames /\ o \in Objects /\ stack[g] \in Seq(Frames) /\ stack[g] # <<>>
      /\ ~overlap => \A d \in Requires(o[1]) \ T.hard : Runs(d)
  BY <1>1, TopFrame
<1>t. sm \in [Objects -> States] /\ sm[o] \in States
  BY <1>2 DEF BootInv, BootShape
<1>l. ASSUME NEW res \in {"ok", "err"}, NEW v \in States, LeaveStart(g, res),
             sm' = [sm EXCEPT ![Top(g).obj] = v],
             v = "starting" => T.pc = "deps" /\ sm[o] = "starting",
             res = "ok" => v = "running"
      PROVE  BootInv'
  <2>1. StackInv' /\ (~overlap' => NestInv')
    BY <1>1, <1>l, Leaves
  <2>2. /\ stack' = [stack EXCEPT ![g] = Front(stack[g])] /\ Front(stack[g]) \in Seq(Frames)
        /\ ret' = [ret EXCEPT ![g] = res]
    BY <1>2, <1>l, FrontOf DEF LeaveStart
  <2>3. sm' \in [Objects -> States]
    BY <1>l, <1>t
  <2> QED
    BY <2>1, <2>2, <2>3, <1>1, <1>l, OwnStep
<1>3. CASE Spawn(g)
  <2>1. AtSpawn(g) /\ T.pc = "deps" /\ T.dep = 0 /\ ret[g] = "none"
        /\ TransitionTo(o, "starting")
    BY <1>3 DEF Spawn, AtSpawn
  <2>2. CASE ~Allowed(sm[o], "starting")
    <3>1. sm' = [sm EXCEPT ![Top(g).obj] = sm[o]] /\ LeaveStart(g, "err")
      BY <1>3, <2>1, <2>2 DEF Spawn, TransitionTo
    <3> QED
      BY <3>1, <2>1, <1>t, <1>l
  <2>3. CASE Allowed(sm[o], "starting")
    <3> DEFINE f == [T EXCEPT !.pc = IF o \in children THEN "stale" ELSE "await"]
               t == Append(Front(stack[g]), f)
    <3>1. /\ f \in Frames /\ f.obj = o /\ f.dep = 0 /\ f.pc # "deps" /\ f.hard = T.hard
      BY <1>2, <2>1 DEF Frames
    <3>2. /\ stack' = [stack EXCEPT ![g] = t] /\ starting' = starting /\ ret' = ret
          /\ sm' = [sm EXCEPT ![Top(g).obj] = "starting"]
      BY <1>3, <2>1, <2>3 DEF Spawn, SetTop, TransitionTo
    <3> HIDE DEF f
    <3>3. ret' = [ret EXCEPT ![g] = "none"]
      BY <3>2, <2>1 DEF BootInv, BootShape
    <3>4. t \in Seq(Frames) /\ sm' \in [Objects -> States] /\ "starting" \in States
      BY <1>2, <1>t, <3>1, <3>2, Retopped DEF States
    <3>5. ~overlap => \A d \in Requires(f.obj[1]) \ f.hard : Runs(d)
      BY <1>2, <3>1
    <3>6. StackInv' /\ (~overlap' => NestInv')
      BY <1>1, <3>1, <3>2, <3>3, <3>4, <3>5, GoesOn
    <3> QED
      BY <3>2, <3>3, <3>4, <3>6, <1>1, OwnStep
  <2> QED
    BY <2>2, <2>3
<1>4. CASE SpawnFailed(g)
  <2> DEFINE v == IF Allowed(sm[o], "error") THEN "error" ELSE sm[o]
  <2>1. sm' = [sm EXCEPT ![Top(g).obj] = v] /\ LeaveStart(g, "err")
    BY <1>4 DEF SpawnFailed, TransitionTo
  <2>2. v \in States /\ v # "starting"
    BY <1>t DEF States, Allowed
  <2> QED
    BY <2>1, <2>2, <1>l
<1>5. CASE BecameRunning(g)
  <2> DEFINE v == IF Allowed(sm[o], "running") THEN "running" ELSE sm[o]
             r == IF Allowed(sm[o], "running") THEN "ok" ELSE "err"
  <2>1. sm' = [sm EXCEPT ![Top(g).obj] = v] /\ LeaveStart(g, r)
    BY <1>5 DEF BecameRunning, TransitionTo
  <2>2. v \in States /\ v # "starting" /\ r \in {"ok", "err"} /\ (r = "ok" => v = "running")
    BY <1>t DEF States, Allowed
  <2> HIDE DEF v, r
  <2> QED
    BY <2>1, <2>2, <1>l
<1>6. CASE StartTimedOut(g)
  <2> DEFINE v == IF Allowed(sm[o], "error") THEN "error" ELSE sm[o]
  <2>1. sm' = [sm EXCEPT ![Top(g).obj] = v] /\ LeaveStart(g, "err")
    BY <1>6 DEF StartTimedOut, TransitionTo
  <2>2. v \in States /\ v # "starting"
    BY <1>t DEF States, Allowed
  <2> QED
    BY <2>1, <2>2, <1>l
<1> QED
  BY <1>3, <1>4, <1>5, <1>6

-----------------------------------------------------------------------------
(* The other steps.                                                        *)

\* Work that begins without an overlap begins when nobody is at work.
LEMMA NobodyBusy ==
    ASSUME BootInv, Began, ~overlap'
    PROVE  ~overlap /\ \A h \in Goroutines : ~Busy(h)
BY DEF Began

\* The outermost start of a goroutine that was inside of none.
LEMMA FirstStart ==
    ASSUME BootInv, NEW g \in Goroutines, stack[g] = <<>>, ret[g] = "none",
           NEW o \in Objects, EnterStart(g, <<>>, o),
           cur' = cur, sm' = sm, scene'.graph = scene.graph
    PROVE  /\ StackInv' /\ (NestInv => NestInv')
           /\ stack' \in [Goroutines -> Seq(Frames)]
           /\ ret' \in [Goroutines -> {"none", "ok", "err"}]
           /\ \A h \in Goroutines : h # g => stack'[h] = stack[h] /\ ret'[h] = ret[h]
<1>t. stack \in [Goroutines -> Seq(Frames)] /\ ret \in [Goroutines -> {"none", "ok", "err"}]
  BY DEF BootInv, BootShape
<1>1. CASE Visited(<<>>, o) \/ AnsweredAtOnce(o)
  <2>1. /\ stack' = stack /\ starting' = starting
        /\ \E r \in {"ok", "err"} : ret' = [ret EXCEPT ![g] = r]
    BY <1>1, <1>t DEF EnterStart, Visited
  <2>2. \A h \in Goroutines : Inside(h) => ret'[h] = ret[h]
    BY <2>1, <1>t DEF Inside
  <2>3. StackInv' /\ (NestInv => NestInv')
    BY <2>1, <2>2, FramesKept
  <2> QED
    BY <2>1, <2>3, <1>t
<1>2. CASE ~(Visited(<<>>, o) \/ AnsweredAtOnce(o))
  <2>1. /\ stack' = [stack EXCEPT ![g] = Append(<<>>, Frame(o))] /\ ret' = ret
        /\ starting' = starting \cup {o}
    BY <1>2 DEF EnterStart
  <2>2. <<>> \in Seq(Frames) /\ DOMAIN <<>> = {}
    OBVIOUS
  <2>3. StackInv' /\ (NestInv => NestInv')
    BY <1>2, <2>1, <2>2, Begins
  <2>4. Append(<<>>, Frame(o)) \in Seq(Frames)
    BY <2>2, FrameType, Pushed DEF BootInv, BootShape
  <2> QED
    BY <2>1, <2>3, <2>4, <1>t
<1> QED
  BY <1>1, <1>2

\* A new object only takes the place of another while nobody is inside of a
\* start: discovery keeps the invariant, and the numbers within their bound.
LEMMA DiscoverStep == ASSUME BootInv, Discover PROVE BootInv'
<1> DEFINE a == Head(setup.todo)
           td == setup.todo
<1>1. /\ setup.pc = "discover" /\ td # <<>> /\ td \in Seq(Agents) /\ Distinct(td)
      /\ \A i \in DOMAIN td : cur[td[i]] + scene.reloads < MaxGen
  BY DEF Discover, AtAgent, BootInv, GenInv
<1>2. /\ cur' = [cur EXCEPT ![a] = IF Found(a) THEN cur[a] + 1 ELSE cur[a]]
      /\ setup' = [setup EXCEPT !.todo = Tail(td)]
      /\ UNCHANGED <<scene, sm, starting, stack, ret, halting, phase, overlap>>
  BY DEF Discover, callVars, histVars
<1>3. setup'.pc = "discover" /\ setup'.todo = Tail(td)
      /\ setup' = [pc |-> setup'.pc, started |-> setup'.started, todo |-> setup'.todo]
  BY <1>1, <1>2 DEF BootInv, BootShape
<1> HIDE DEF td
<1>4. /\ a = td[1] /\ 1 \in DOMAIN td /\ a \in Agents /\ Tail(td) \in Seq(Agents)
      /\ \A i \in DOMAIN Tail(td) : i + 1 \in DOMAIN td /\ i + 1 # 1 /\ Tail(td)[i] = td[i + 1]
  <2>1. /\ Tail(td) \in Seq(Agents) /\ Len(Tail(td)) = Len(td) - 1 /\ Head(td) \in Agents
        /\ \A i \in 1..Len(Tail(td)) : Tail(td)[i] = td[i + 1]
    BY ONLY <1>1, HeadTailProperties
  <2>2. Len(td) \in Nat \ {0} /\ DOMAIN td = 1..Len(td) /\ Head(td) = td[1]
        /\ DOMAIN Tail(td) = 1..Len(Tail(td))
    BY <1>1, <2>1, EmptySeq, LenProperties
  <2> QED
    BY <2>1, <2>2 DEF td
<1>n. /\ scene.reloads \in Nat /\ MaxGen \in Nat /\ \A b \in Agents : cur[b] \in Nat
      /\ cur \in [Agents -> 0..MaxGen]
  BY BoundsAssumption DEF BootInv, BootShape, Scene
<1>5. cur[a] + scene.reloads < MaxGen
  BY <1>1, <1>4
<1>6. /\ cur'[a] \in {cur[a], cur[a] + 1} /\ \A b \in Agents : b # a => cur'[b] = cur[b]
      /\ DOMAIN cur' = Agents
  BY <1>2, <1>4, <1>n
<1>7. cur' \in [Agents -> 0..MaxGen]
  <2>1. cur[a] + 1 \in 0..MaxGen
    BY <1>4, <1>5, <1>n
  <2> QED
    BY <2>1, <1>2, <1>4, <1>n
<1>8. BootShape'
  BY <1>2, <1>3, <1>7 DEF BootInv, BootShape
<1>9. GenInv'
  <2>1. \A b \in Agents : cur'[b] + scene.reloads <= MaxGen
    <3> SUFFICES ASSUME NEW b \in Agents PROVE cur'[b] + scene.reloads <= MaxGen
      OBVIOUS
    <3>1. cur[b] + scene.reloads <= MaxGen /\ cur[b] \in Nat
      BY <1>n DEF BootInv, GenInv
    <3>2. CASE b = a
      <4>1. cur'[a] = cur[a] \/ cur'[a] = cur[a] + 1
        BY <1>6
      <4>2. cur[a] + 1 + scene.reloads <= MaxGen
        BY <3>1, <3>2, <1>5, <1>n
      <4> QED
        BY <4>1, <4>2, <3>1, <3>2
    <3>3. CASE b # a
      BY <3>1, <3>3, <1>6
    <3> QED
      BY <3>2, <3>3
  <2>2. Distinct(Tail(td))
    <3> SUFFICES ASSUME NEW i \in DOMAIN Tail(td), NEW j \in DOMAIN Tail(td), i # j
                 PROVE  Tail(td)[i] # Tail(td)[j]
      BY DEF Distinct
    <3>1. i \in Nat /\ j \in Nat
      BY <1>4
    <3>2. i + 1 # j + 1
      BY <3>1
    <3> QED
      BY <3>2, <1>1, <1>4 DEF Distinct
  <2>3. \A i \in DOMAIN Tail(td) : cur'[Tail(td)[i]] + scene.reloads < MaxGen
    <3> SUFFICES ASSUME NEW i \in DOMAIN Tail(td)
                 PROVE  cur'[Tail(td)[i]] + scene.reloads < MaxGen
      OBVIOUS
    <3>1. td[i + 1] # a /\ td[i + 1] = Tail(td)[i] /\ i + 1 \in DOMAIN td
      BY <1>1, <1>4 DEF Distinct
    <3>2. td[i + 1] \in Agents
      BY <3>1, <1>1
    <3> QED
      BY <3>1, <3>2, <1>1, <1>6
  <2> QED
    BY <2>1, <2>2, <2>3, <1>2, <1>3, <1>4 DEF GenInv
<1>10. PlaceInv'
  BY <1>1, <1>2, <1>3 DEF BootInv, PlaceInv, Inside
<1>11. StackInv'
  BY <1>2, StatesChange
<1>12. ASSUME ~overlap' PROVE OneBusy' /\ NestInv'
  <2>0. ~overlap /\ OneBusy
    BY <1>12, <1>2 DEF BootInv
  <2>1. \A h \in Goroutines : Busy(h)' => Busy(h)
    BY <1>1, <1>2, <1>3 DEF Busy, Idle, Inside
  <2>2. SetupBy \in Goroutines /\ Busy(SetupBy) /\ ~Inside(SetupBy)
    BY <1>1 DEF SetupBy, Goroutines, Busy, BootInv, PlaceInv
  <2>3. \A h \in Goroutines : stack[h] = <<>>
    BY <2>0, <2>2, AllQuiet
  <2>4. NestInv'
    BY <2>3, <1>2, NoNest DEF NestInv, Inside
  <2> QED
    BY <2>0, <2>1, <2>4 DEF OneBusy
<1> QED
  BY <1>8, <1>9, <1>10, <1>11, <1>12 DEF BootInv

\* The other steps of setupAgents, of a reload's begin and of StopAll that
\* concern no controller.
LEMMA SetupStepKeeps ==
    ASSUME BootInv,
           SortAgents \/ SkipAgent \/ ArmAgent \/ AgentStarted \/ SetupDone
    PROVE  BootInv'
<1>1. /\ UNCHANGED <<scene, cur, sm, starting, stack, halting, overlap>>
  BY DEF SortAgents, SkipAgent, ArmAgent, AgentStarted, SetupDone, objVars, callVars, histVars
<1>2. /\ setup.pc \in {"discover", "loop", "called"} /\ setup'.pc \in {"loop", "idle"}
      /\ setup' = [pc |-> setup'.pc, started |-> setup'.started, todo |-> setup'.todo]
  <2>1. CASE SortAgents \/ SetupDone
    BY <2>1 DEF SortAgents, SetupDone, BootInv, BootShape
  <2>2. CASE SkipAgent \/ AgentStarted
    BY <2>2 DEF SkipAgent, AgentStarted, SetupNext, AtAgent, BootInv, BootShape
  <2>3. CASE ArmAgent
    <3>1. PICK st : SetupNext(st)
      BY <2>3 DEF ArmAgent
    <3> QED
      BY <2>3, <3>1 DEF ArmAgent, SetupNext, AtAgent, BootInv, BootShape
  <2> QED
    BY <2>1, <2>2, <2>3
<1>3. \/ ret' = ret /\ setup.pc # "called"
      \/ ret' = [ret EXCEPT ![SetupBy] = "none"] /\ ~Inside(SetupBy) /\ AgentStarted
  BY DEF SortAgents, SkipAgent, ArmAgent, AgentStarted, SetupDone, callVars, AtAgent, Returned
<1>4. \/ phase' = phase
      \/ phase = "setup" /\ phase' = "serving" /\ setup.pc = "loop" /\ setup'.pc = "idle"
  BY DEF SortAgents, SkipAgent, ArmAgent, AgentStarted, SetupDone, SetupNext, BootInv, BootShape
<1>5. \A h \in Goroutines : ret'[h] = ret[h] \/ (ret'[h] = "none" /\ ~Inside(h))
  BY <1>3 DEF BootInv, BootShape
<1>6. SetupBy \in Goroutines
  BY DEF SetupBy, Goroutines
<1>7. BootShape'
  BY <1>1, <1>2, <1>3, <1>4, <1>6 DEF BootInv, BootShape
<1>8. GenInv'
  BY <1>1, <1>2 DEF BootInv, GenInv
<1>9. PlaceInv'
  <2>0. Main \in Goroutines /\ Reloader \in Goroutines /\ Main # Reloader
    BY GoroutinesAssumption DEF Goroutines
  <2>1. CASE ret' = ret /\ setup.pc # "called"
    BY <2>1, <1>1, <1>4 DEF BootInv, PlaceInv, Inside
  <2>2. CASE ret' = [ret EXCEPT ![SetupBy] = "none"] /\ ~Inside(SetupBy) /\ AgentStarted
    <3>1. phase' = phase
      BY <2>2 DEF AgentStarted
    <3>2. ret'[SetupBy] = "none" /\ \A h \in Goroutines : h # SetupBy => ret'[h] = ret[h]
      BY <2>2, <1>6 DEF BootInv, BootShape
    <3>3. CASE phase = "setup"
      BY <3>1, <3>2, <3>3, <2>0, <2>2, <1>1 DEF BootInv, PlaceInv, Inside, SetupBy
    <3>4. CASE phase # "setup"
      BY <3>1, <3>2, <3>4, <2>0, <2>2, <1>1 DEF BootInv, PlaceInv, Inside, SetupBy
    <3> QED
      BY <3>3, <3>4
  <2> QED
    BY <2>1, <2>2, <1>3
<1>10. StackInv' /\ (NestInv => NestInv')
  BY <1>1, <1>5, FramesKept
<1>11. \A h \in Goroutines : Busy(h)' => Busy(h)
  BY <1>1, <1>2, <1>4, <1>5 DEF Busy, Idle, Inside
<1>12. ~overlap' => OneBusy' /\ NestInv'
  BY <1>1, <1>10, <1>11 DEF BootInv, OneBusy
<1> QED
  BY <1>7, <1>8, <1>9, <1>10, <1>12 DEF BootInv

\* setupAgents starts an agent on its own goroutine.
LEMMA StartAgentStep == ASSUME BootInv, StartAgent PROVE BootInv'
<1> DEFINE a == Head(setup.todo)
           g == SetupBy
<1>1. /\ setup.pc = "loop" /\ a \in Known /\ EnterStart(g, <<>>, Latest(a))
      /\ setup' = [setup EXCEPT !.pc = "called"]
      /\ UNCHANGED <<scene, cur, sm, halting, phase, overlap>>
  BY DEF StartAgent, AtAgent, Startable, histVars
<1>2. setup'.pc = "called"
      /\ setup' = [pc |-> setup'.pc, started |-> setup'.started, todo |-> setup'.todo]
  BY <1>1 DEF BootInv, BootShape
<1>3. Latest(a) \in Objects
  BY <1>1, LatestType DEF BootInv
<1>4. g \in Goroutines /\ stack[g] = <<>> /\ ret[g] = "none" /\ halting[g] = NoObject /\ Busy(g)
  BY <1>1 DEF SetupBy, Goroutines, Busy, BootInv, PlaceInv, Inside
<1>5. /\ StackInv' /\ (NestInv => NestInv')
      /\ stack' \in [Goroutines -> Seq(Frames)]
      /\ ret' \in [Goroutines -> {"none", "ok", "err"}]
      /\ \A h \in Goroutines : h # g => stack'[h] = stack[h] /\ ret'[h] = ret[h]
  BY <1>1, <1>3, <1>4, FirstStart
<1>6. BootShape'
  BY <1>1, <1>2, <1>5 DEF BootInv, BootShape
<1>7. GenInv'
  BY <1>1, <1>2 DEF BootInv, GenInv
<1>8. PlaceInv'
  <2>0. Main \in Goroutines /\ Reloader \in Goroutines /\ Main # Reloader
    BY GoroutinesAssumption DEF Goroutines
  <2>1. CASE phase = "setup"
    BY <2>0, <2>1, <1>1, <1>2, <1>4, <1>5 DEF BootInv, PlaceInv, Inside, SetupBy
  <2>2. CASE phase # "setup"
    BY <2>0, <2>2, <1>1, <1>2, <1>4, <1>5 DEF BootInv, PlaceInv, Inside, SetupBy
  <2> QED
    BY <2>1, <2>2
<1>9. \A h \in Goroutines : Busy(h)' => Busy(h)
  BY <1>1, <1>2, <1>4, <1>5 DEF Busy, Idle, Inside
<1>10. ~overlap' => OneBusy' /\ NestInv'
  BY <1>1, <1>5, <1>9 DEF BootInv, OneBusy
<1> QED
  BY <1>5, <1>6, <1>7, <1>8, <1>10 DEF BootInv

\* Verbs, reloads and crashes are counted down in the scene, which keeps its
\* declarations.
LEMMA SceneChange ==
    ASSUME NEW s \in Scene, NEW n \in Nat, NEW r \in 0..(MaxGen - 1)
    PROVE  /\ [s EXCEPT !.crashes = n] \in Scene /\ [s EXCEPT !.verbs = n] \in Scene
           /\ [s EXCEPT !.reloads = r] \in Scene
           /\ [s EXCEPT !.crashes = n].graph = s.graph
           /\ [s EXCEPT !.verbs = n].graph = s.graph
           /\ [s EXCEPT !.reloads = r].graph = s.graph
           /\ [s EXCEPT !.crashes = n].reloads = s.reloads
           /\ [s EXCEPT !.verbs = n].reloads = s.reloads
           /\ [s EXCEPT !.reloads = r].reloads = r
           /\ s.crashes \in Nat /\ s.verbs \in Nat /\ s.reloads \in 0..(MaxGen - 1)
<1> DEFINE R == 0..(MaxGen - 1)
           G == SUBSET (Agents \X Relations \X Agents)
           K == [Agents -> Kinds]
<1>1. s \in [graph : G, kind : K, verbs : Nat, reloads : R, crashes : Nat]
  BY DEF Scene
<1>2. r \in R
  OBVIOUS
<1> HIDE DEF R, G, K
<1>3. /\ [s EXCEPT !.crashes = n] \in
            [graph : G, kind : K, verbs : Nat, reloads : R, crashes : Nat]
      /\ [s EXCEPT !.verbs = n] \in
            [graph : G, kind : K, verbs : Nat, reloads : R, crashes : Nat]
      /\ [s EXCEPT !.reloads = r] \in
            [graph : G, kind : K, verbs : Nat, reloads : R, crashes : Nat]
  BY <1>1, <1>2
<1>4. /\ [s EXCEPT !.crashes = n].graph = s.graph
      /\ [s EXCEPT !.verbs = n].graph = s.graph
      /\ [s EXCEPT !.reloads = r].graph = s.graph
      /\ [s EXCEPT !.crashes = n].reloads = s.reloads
      /\ [s EXCEPT !.verbs = n].reloads = s.reloads
      /\ [s EXCEPT !.reloads = r].reloads = r
      /\ s.crashes \in Nat /\ s.verbs \in Nat /\ s.reloads \in R
  BY <1>1
<1> QED
  BY <1>3, <1>4 DEF Scene, R, G, K

\* A crash, the return of a verb or of a traffic handler, and StopAll's own
\* steps concern no start and begin no work.
LEMMA RestStep ==
    ASSUME BootInv,
           \/ \E o \in Objects : Crash(o)
           \/ \E g \in Goroutines : CallDone(g)
           \/ AgentStopped \/ Exit
    PROVE  BootInv'
<1>1. /\ UNCHANGED <<cur, sm, starting, stack, halting, setup, overlap>>
      /\ scene'.graph = scene.graph /\ scene' \in Scene /\ scene'.reloads = scene.reloads
      /\ phase' = phase \/ (phase = "stopping" /\ phase' = "exited" /\ Idle(Main))
  <2>1. CASE \E o \in Objects : Crash(o)
    <3>0. scene \in Scene /\ scene.crashes \in Nat
      BY DEF BootInv, BootShape, Scene
    <3>1. /\ scene.crashes > 0 /\ scene' = [scene EXCEPT !.crashes = scene.crashes - 1]
          /\ UNCHANGED <<cur, sm, starting, stack, halting, setup, overlap, phase>>
      BY <2>1 DEF Crash, callVars, runVars, histVars
    <3>2. scene.crashes - 1 \in Nat
      BY <3>0, <3>1
    <3>3. scene.reloads \in 0..(MaxGen - 1)
      BY <3>0 DEF Scene
    <3> QED
      BY <3>0, <3>1, <3>2, <3>3, SceneChange
  <2>2. CASE (\E g \in Goroutines : CallDone(g)) \/ AgentStopped \/ Exit
    BY <2>2 DEF CallDone, AgentStopped, Exit, objVars, callVars, runVars, histVars,
                BootInv, BootShape
  <2> QED
    BY <2>1, <2>2
<1>2. \/ ret' = ret
      \/ \E g \in Goroutines : /\ ret' = [ret EXCEPT ![g] = "none"] /\ ~Inside(g)
                               /\ g # Reloader /\ (g = Main => phase = "stopping")
  <2>1. CASE (\E o \in Objects : Crash(o)) \/ Exit
    BY <2>1 DEF Crash, Exit, callVars
  <2>2. CASE \E g \in Goroutines : CallDone(g)
    BY <2>2 DEF CallDone, Returned
  <2>3. CASE AgentStopped
    BY <2>3, GoroutinesAssumption DEF AgentStopped, Returned, Goroutines
  <2> QED
    BY <2>1, <2>2, <2>3
<1>3. \A h \in Goroutines : ret'[h] = ret[h] \/ (ret'[h] = "none" /\ ~Inside(h))
  BY <1>2 DEF BootInv, BootShape
<1>4. BootShape'
  BY <1>1, <1>2 DEF BootInv, BootShape
<1>5. GenInv'
  BY <1>1 DEF BootInv, GenInv
<1>6. PlaceInv'
  <2>0. Main \in Goroutines /\ Reloader \in Goroutines
    BY DEF Goroutines
  <2> QED
    BY <2>0, <1>1, <1>3 DEF BootInv, PlaceInv, Inside, Idle
<1>7. StackInv' /\ (NestInv => NestInv')
  BY <1>1, <1>3, FramesKept
<1>8. \A h \in Goroutines : Busy(h)' => Busy(h)
  BY <1>1, <1>3 DEF Busy, Idle, Inside
<1>9. ~overlap' => OneBusy' /\ NestInv'
  BY <1>1, <1>7, <1>8 DEF BootInv, OneBusy
<1> QED
  BY <1>4, <1>5, <1>6, <1>7, <1>9 DEF BootInv

\* A reload begins another round of constructions, a shutdown begins StopAll.
LEMMA RoundBegins == ASSUME BootInv, Reload \/ Shutdown PROVE BootInv'
<1>0. Main \in Goroutines /\ Reloader \in Goroutines /\ Main # Reloader
  BY GoroutinesAssumption DEF Goroutines
<1>1. /\ UNCHANGED <<cur, sm, starting, stack, ret, halting>> /\ Began
      /\ scene'.graph = scene.graph /\ scene' \in Scene /\ overlap' \in BOOLEAN
  <2>1. CASE Reload
    <3>1. scene' \in Scene /\ scene'.graph = scene.graph
      <4>1. scene \in Scene /\ scene.reloads \in 0..(MaxGen - 1)
        BY DEF BootInv, BootShape, Scene
      <4>2. scene.reloads > 0 /\ scene' = [scene EXCEPT !.reloads = scene.reloads - 1]
        BY <2>1 DEF Reload
      <4>3. scene.reloads - 1 \in 0..(MaxGen - 1)
        BY <4>1, <4>2, BoundsAssumption
      <4>4. 0 \in Nat
        OBVIOUS
      <4> QED
        BY <4>1, <4>2, <4>3, <4>4, SceneChange
    <3> QED
      BY <2>1, <3>1 DEF Reload, objVars, callVars, Began, BootInv, BootShape
  <2>2. CASE Shutdown
    BY <2>2 DEF Shutdown, objVars, callVars, Began, BootInv, BootShape
  <2> QED
    BY <2>1, <2>2
<1>2. \A h \in Goroutines : Inside(h)' = Inside(h) /\ Idle(h)' = Idle(h)
  BY <1>1 DEF Inside, Idle
<1>3. BootShape' /\ GenInv' /\ PlaceInv'
      /\ \E g \in Goroutines : \A h \in Goroutines : Busy(h)' => Busy(h) \/ h = g
  <2>1. CASE Reload
    <3>1. /\ phase \in {"serving", "stopping"} /\ setup.pc = "idle" /\ phase' = phase
          /\ scene.reloads > 0 /\ scene' = [scene EXCEPT !.reloads = scene.reloads - 1]
          /\ setup' = [setup EXCEPT !.pc = "discover", !.todo = Sorted(Agents)]
      BY <2>1 DEF Reload
    <3>2. /\ setup'.pc = "discover" /\ setup'.todo = Sorted(Agents)
          /\ setup' = [pc |-> setup'.pc, started |-> setup'.started, todo |-> setup'.todo]
      BY <3>1 DEF BootInv, BootShape
    <3>3. BootShape'
      BY <1>1, <3>1, <3>2 DEF BootInv, BootShape
    <3>4. GenInv'
      <4>1. /\ scene'.reloads = scene.reloads - 1 /\ scene.reloads \in Nat /\ MaxGen \in Nat
            /\ \A a \in Agents : cur[a] \in Nat
        BY <3>1, BoundsAssumption DEF BootInv, BootShape, Scene
      <4>2. \A a \in Agents : cur[a] + scene'.reloads < MaxGen
        BY <4>1 DEF BootInv, GenInv
      <4>3. Sorted(Agents) \in Seq(Agents) /\ Distinct(Sorted(Agents))
        BY DiscoveryList
      <4>4. \A i \in DOMAIN Sorted(Agents) : Sorted(Agents)[i] \in Agents
        BY <4>3
      <4>5. \A a \in Agents : cur[a] + scene'.reloads <= MaxGen
        BY <4>1, <4>2
      <4> QED
        BY <4>2, <4>3, <4>4, <4>5, <3>2, <1>1 DEF GenInv
    <3>5. PlaceInv'
      BY <1>0, <1>1, <1>2, <3>1, <3>2 DEF BootInv, PlaceInv
    <3>6. \A h \in Goroutines : Busy(h)' => Busy(h) \/ h = Reloader
      BY <1>2, <3>1 DEF Busy
    <3> QED
      BY <3>3, <3>4, <3>5, <3>6, <1>0
  <2>2. CASE Shutdown
    <3>1. phase = "serving" /\ phase' = "stopping" /\ UNCHANGED <<scene, setup>>
      BY <2>2 DEF Shutdown
    <3>2. BootShape'
      BY <1>1, <3>1 DEF BootInv, BootShape
    <3>3. GenInv'
      BY <1>1, <3>1 DEF BootInv, GenInv
    <3>4. PlaceInv'
      BY <1>0, <1>1, <1>2, <3>1 DEF BootInv, PlaceInv
    <3>5. \A h \in Goroutines : Busy(h)' => Busy(h) \/ h = Main
      BY <1>2, <3>1 DEF Busy
    <3> QED
      BY <3>2, <3>3, <3>4, <3>5, <1>0
  <2> QED
    BY <2>1, <2>2
<1>4. StackInv' /\ (NestInv => NestInv')
  BY <1>1, FramesKept
<1>5. ~overlap' => OneBusy' /\ NestInv'
  BY <1>1, <1>3, <1>4, NobodyBusy DEF BootInv, OneBusy
<1> QED
  BY <1>3, <1>4, <1>5 DEF BootInv

\* A verb's handler counts the verb.
LEMMA HandleScene ==
    ASSUME scene \in Scene, NEW a \in Agents, Handle(a)
    PROVE  scene'.graph = scene.graph /\ scene' \in Scene /\ scene'.reloads = scene.reloads
<1>1. scene.verbs \in Nat /\ scene.reloads \in 0..(MaxGen - 1)
  BY DEF Scene
<1>2. scene.verbs > 0 /\ scene' = [scene EXCEPT !.verbs = scene.verbs - 1]
  BY DEF Handle
<1>3. scene.verbs - 1 \in Nat
  BY <1>1, <1>2
<1> QED
  BY <1>1, <1>2, <1>3, SceneChange

\* A verb or traffic starts an agent.
LEMMA OutsideStart ==
    ASSUME BootInv,
           (\E a \in Agents : VerbStart(a)) \/ (\E o \in Objects : Traffic(o))
    PROVE  BootInv'
<1>1. PICK g \in Goroutines, o \in Objects :
         /\ g # Main /\ g # Reloader /\ Idle(g) /\ EnterStart(g, <<>>, o) /\ Began
         /\ UNCHANGED <<cur, sm, halting, setup, phase>>
         /\ scene'.graph = scene.graph /\ scene' \in Scene /\ scene'.reloads = scene.reloads
  <2>1. ASSUME NEW a \in Agents, VerbStart(a)
        PROVE  /\ Handler \in Goroutines /\ Handler # Main /\ Handler # Reloader /\ Idle(Handler)
               /\ Latest(a) \in Objects /\ EnterStart(Handler, <<>>, Latest(a)) /\ Began
               /\ UNCHANGED <<cur, sm, halting, setup, phase>>
               /\ scene'.graph = scene.graph /\ scene' \in Scene
               /\ scene'.reloads = scene.reloads
    <3>1. Handle(a)
      BY <2>1 DEF VerbStart
    <3>2. scene'.graph = scene.graph /\ scene' \in Scene /\ scene'.reloads = scene.reloads
      BY <3>1, HandleScene DEF BootInv, BootShape
    <3>3. Latest(a) \in Objects
      BY <3>1, LatestType DEF Handle, BootInv
    <3> QED
      BY <2>1, <3>1, <3>2, <3>3, GoroutinesAssumption DEF VerbStart, Handle, Goroutines
  <2>2. ASSUME NEW o \in Objects, Traffic(o)
        PROVE  /\ o \in Goroutines /\ o # Main /\ o # Reloader /\ Idle(o)
               /\ EnterStart(o, <<>>, o) /\ Began
               /\ UNCHANGED <<cur, sm, halting, setup, phase>>
               /\ scene'.graph = scene.graph /\ scene' \in Scene
               /\ scene'.reloads = scene.reloads
    <3>1. o \in Goroutines /\ o # Main /\ o # Reloader
      BY GoroutinesAssumption DEF Goroutines
    <3> QED
      BY <2>2, <3>1 DEF Traffic, runVars, BootInv, BootShape
  <2> QED
    BY <2>1, <2>2
<1>2. stack[g] = <<>> /\ ret[g] = "none" /\ halting[g] = NoObject
  BY <1>1 DEF Idle, Inside
<1>3. /\ StackInv' /\ (NestInv => NestInv')
      /\ stack' \in [Goroutines -> Seq(Frames)]
      /\ ret' \in [Goroutines -> {"none", "ok", "err"}]
      /\ \A h \in Goroutines : h # g => stack'[h] = stack[h] /\ ret'[h] = ret[h]
  BY <1>1, <1>2, FirstStart
<1>4. BootShape'
  BY <1>1, <1>3 DEF BootInv, BootShape, Began
<1>5. GenInv'
  BY <1>1 DEF BootInv, GenInv
<1>6. PlaceInv'
  <2>0. Main \in Goroutines /\ Reloader \in Goroutines
    BY DEF Goroutines
  <2> QED
    BY <2>0, <1>1, <1>2, <1>3 DEF BootInv, PlaceInv, Inside
<1>7. \A h \in Goroutines : Busy(h)' => Busy(h) \/ h = g
  BY <1>1, <1>3 DEF Busy, Idle, Inside
<1>8. ~overlap' => OneBusy' /\ NestInv'
  BY <1>1, <1>3, <1>7, NobodyBusy DEF BootInv, OneBusy
<1> QED
  BY <1>3, <1>4, <1>5, <1>6, <1>8 DEF BootInv

\* A stop changes a state while nobody is inside of a start, or there is an
\* overlap.
LEMMA StopStep ==
    ASSUME BootInv,
           \/ \E a \in Agents : VerbStop(a)
           \/ StopAgent
           \/ \E g \in Goroutines : FinishStop(g)
    PROVE  BootInv'
<1>0. Main \in Goroutines /\ Reloader \in Goroutines /\ Handler \in Goroutines
      /\ Main # Reloader /\ Handler # Main /\ Handler # Reloader
  BY GoroutinesAssumption DEF Goroutines
<1>t. sm \in [Objects -> States] /\ ret \in [Goroutines -> {"none", "ok", "err"}]
      /\ halting = [g \in Goroutines |-> halting[g]] /\ "stopping" \in States
  BY DEF BootInv, BootShape, States
<1>e. ASSUME NEW g \in Goroutines, NEW o, EnterStop(g, o)
      PROVE  /\ sm' \in [Objects -> States]
             /\ \A x \in Objects : sm'[x] = "starting" => sm[x] = "starting"
             /\ ret' \in [Goroutines -> {"none", "ok", "err"}]
             /\ halting' = [h \in Goroutines |-> halting'[h]]
             /\ \A h \in Goroutines : h # g => ret'[h] = ret[h] /\ halting'[h] = halting[h]
  <2>1. CASE sm' = [sm EXCEPT ![o] = "stopping"] /\ halting' = [halting EXCEPT ![g] = o] /\ ret' = ret
    BY <2>1, <1>t
  <2>2. CASE sm' = sm /\ halting' = halting /\ \E r \in {"ok", "err"} : ret' = [ret EXCEPT ![g] = r]
    BY <2>2, <1>t
  <2> QED
    BY <1>e, <2>1, <2>2 DEF EnterStop
<1>1. PICK g \in Goroutines :
        /\ ~Inside(g) /\ g # Reloader /\ (g = Main => phase = "stopping")
        /\ sm' \in [Objects -> States]
        /\ \A x \in Objects : sm'[x] = "starting" => sm[x] = "starting"
        /\ ret' \in [Goroutines -> {"none", "ok", "err"}]
        /\ halting' = [h \in Goroutines |-> halting'[h]]
        /\ \A h \in Goroutines : h # g => ret'[h] = ret[h] /\ halting'[h] = halting[h]
        /\ UNCHANGED <<cur, starting, stack, setup, phase>>
        /\ scene'.graph = scene.graph /\ scene' \in Scene /\ scene'.reloads = scene.reloads
        /\ (Busy(g) /\ overlap' = overlap) \/ Began
  <2>1. ASSUME NEW a \in Agents, VerbStop(a)
        PROVE  /\ ~Inside(Handler) /\ EnterStop(Handler, Latest(a)) /\ Began
               /\ UNCHANGED <<cur, starting, stack, setup, phase>>
               /\ scene'.graph = scene.graph /\ scene' \in Scene
               /\ scene'.reloads = scene.reloads
    <3>1. Handle(a)
      BY <2>1 DEF VerbStop
    <3>2. scene'.graph = scene.graph /\ scene' \in Scene /\ scene'.reloads = scene.reloads
      BY <3>1, HandleScene DEF BootInv, BootShape
    <3> QED
      BY <2>1, <3>1, <3>2 DEF VerbStop, Handle, Idle
  <2>2. ASSUME StopAgent
        PROVE  /\ ~Inside(Main) /\ phase = "stopping" /\ EnterStop(Main, Latest(Head(down.todo)))
               /\ UNCHANGED <<scene, cur, starting, stack, setup, phase>>
               /\ Busy(Main) /\ overlap' = overlap
    BY <2>2 DEF StopAgent, Idle, Busy, runVars, histVars
  <2>3. ASSUME NEW g \in Goroutines, FinishStop(g)
        PROVE  /\ ~Inside(g) /\ g # Reloader /\ (g = Main => phase = "stopping")
               /\ sm' \in [Objects -> States]
               /\ \A x \in Objects : sm'[x] = "starting" => sm[x] = "starting"
               /\ ret' \in [Goroutines -> {"none", "ok", "err"}]
               /\ halting' = [h \in Goroutines |-> halting'[h]]
               /\ \A h \in Goroutines : h # g => ret'[h] = ret[h] /\ halting'[h] = halting[h]
               /\ UNCHANGED <<scene, cur, starting, stack, setup, phase>>
               /\ Busy(g) /\ overlap' = overlap
    <3>1. /\ halting[g] # NoObject /\ TransitionTo(halting[g], "stopped")
          /\ halting' = [halting EXCEPT ![g] = NoObject] /\ ret' = [ret EXCEPT ![g] = "ok"]
          /\ UNCHANGED <<scene, cur, starting, stack, setup, phase, overlap>>
      BY <2>3 DEF FinishStop, runVars, histVars
    <3>2. ~Inside(g) /\ g # Reloader /\ (g = Main => phase = "stopping") /\ Busy(g)
      BY <3>1 DEF BootInv, PlaceInv, Busy, Idle
    <3>3. /\ sm' \in [Objects -> States]
          /\ \A x \in Objects : sm'[x] = "starting" => sm[x] = "starting"
      BY <3>1, <1>t DEF TransitionTo, States
    <3> QED
      BY <3>1, <3>2, <3>3, <1>t
  <2>4. CASE \E a \in Agents : VerbStop(a)
    BY <2>1, <2>4, <1>e, <1>0
  <2>5. CASE StopAgent
    BY <2>2, <2>5, <1>e, <1>0 DEF BootInv, BootShape
  <2>6. CASE \E g \in Goroutines : FinishStop(g)
    BY <2>3, <2>6 DEF BootInv, BootShape
  <2> QED
    BY <2>4, <2>5, <2>6
<1>2. overlap' \in BOOLEAN
  BY <1>1 DEF Began, BootInv, BootShape
<1>3. BootShape'
  BY <1>1, <1>2 DEF BootInv, BootShape
<1>4. GenInv'
  BY <1>1 DEF BootInv, GenInv
<1>5. PlaceInv'
  BY <1>0, <1>1 DEF BootInv, PlaceInv, Inside
<1>6. StackInv'
  BY <1>1, StatesChange
<1>7. \A h \in Goroutines : Busy(h)' => Busy(h) \/ h = g
  BY <1>1 DEF Busy, Idle, Inside
<1>8. ASSUME ~overlap' PROVE OneBusy' /\ NestInv'
  <2>1. CASE Busy(g) /\ overlap' = overlap
    <3>1. ~overlap /\ OneBusy
      BY <2>1, <1>8 DEF BootInv
    <3>2. \A h \in Goroutines : stack[h] = <<>>
      BY <2>1, <3>1, <1>1, AllQuiet
    <3>3. NestInv'
      BY <3>2, <1>1 DEF NestInv, Inside
    <3> QED
      BY <3>1, <3>3, <2>1, <1>7 DEF OneBusy
  <2>2. CASE Began
    <3>1. \A h \in Goroutines : ~Busy(h)
      BY <2>2, <1>8, NobodyBusy
    <3>2. \A h \in Goroutines : stack[h] = <<>>
      BY <3>1 DEF Busy, Idle, Inside
    <3>3. NestInv'
      BY <3>2, <1>1 DEF NestInv, Inside
    <3> QED
      BY <3>1, <3>3, <1>7 DEF OneBusy
  <2> QED
    BY <2>1, <2>2, <1>1
<1> QED
  BY <1>3, <1>4, <1>5, <1>6, <1>8 DEF BootInv

\* The supervisor's invariant holds at first.
LEMMA BootInitInv == Init => BootInv
<1> SUFFICES ASSUME Init PROVE BootInv
  OBVIOUS
<1> USE DEF Init, BootAt
<1>0. Main \in Goroutines /\ Reloader \in Goroutines
  BY DEF Goroutines
<1>1. scene \in Scene
  BY ScenesAssumption
<1>2. BootShape
  <2>1. 0 \in 0..MaxGen
    BY BoundsAssumption
  <2>2. cur \in [Agents -> 0..MaxGen]
    BY <2>1
  <2>3. sm \in [Objects -> States]
    BY DEF States
  <2>4. stack \in [Goroutines -> Seq(Frames)]
    OBVIOUS
  <2>5. ret \in [Goroutines -> {"none", "ok", "err"}]
    OBVIOUS
  <2>6. setup = [pc |-> setup.pc, started |-> setup.started, todo |-> setup.todo]
    OBVIOUS
  <2>7. halting = [g \in Goroutines |-> halting[g]]
    OBVIOUS
  <2> QED
    BY <1>1, <2>2, <2>3, <2>4, <2>5, <2>6, <2>7 DEF BootShape
<1>3. GenInv
  <2>1. scene.reloads \in Nat /\ MaxGen \in Nat /\ 0 + scene.reloads < MaxGen
    BY <1>1, BoundsAssumption DEF Scene
  <2>2. Sorted(Agents) \in Seq(Agents) /\ Distinct(Sorted(Agents))
    BY DiscoveryList
  <2>3. \A i \in DOMAIN Sorted(Agents) : Sorted(Agents)[i] \in Agents
    BY <2>2
  <2>4. \A a \in Agents : cur[a] = 0
    OBVIOUS
  <2>5. 0 + scene.reloads <= MaxGen
    BY <2>1
  <2> QED
    BY <2>1, <2>2, <2>3, <2>4, <2>5 DEF GenInv
<1>4. PlaceInv
  BY <1>0 DEF PlaceInv, Inside
<1>5. StackInv
  BY DEF StackInv, InStack, Awaited
<1>6. NestInv
  BY NoNest
<1>7. OneBusy
  BY DEF OneBusy, Busy, Idle, Inside
<1> QED
  BY <1>2, <1>3, <1>4, <1>5, <1>6, <1>7 DEF BootInv

\* The supervisor's invariant is inductive.
LEMMA BootStepInv == BootInv /\ [Next]_vars => BootInv'
<1> SUFFICES ASSUME BootInv, [Next]_vars PROVE BootInv'
  OBVIOUS
<1>1. CASE Next
  <2>1. CASE SetupStep
    BY <2>1, DiscoverStep, SetupStepKeeps, StartAgentStep DEF SetupStep
  <2>2. CASE StopAllStep
    BY <2>2, StopStep, RestStep DEF StopAllStep
  <2>3. CASE Reload \/ Shutdown
    BY <2>3, RoundBegins
  <2>4. ASSUME NEW g \in Goroutines, CallStep(g) PROVE BootInv'
    BY <2>4, EnsureStartedStep, DependencyReturnedStep, SpawnStep, StopStep, RestStep
       DEF CallStep, StartStep
  <2>5. ASSUME NEW a \in Agents, VerbStart(a) \/ VerbStop(a) PROVE BootInv'
    BY <2>5, OutsideStart, StopStep
  <2>6. ASSUME NEW o \in Objects, Traffic(o) \/ Crash(o) PROVE BootInv'
    BY <2>6, OutsideStart, RestStep
  <2> QED
    BY <1>1, <2>1, <2>2, <2>3, <2>4, <2>5, <2>6 DEF Next, Step
<1>2. CASE UNCHANGED vars
  <2>1. UNCHANGED <<scene, cur, sm, starting, stack, ret, halting, setup, phase, overlap>>
    BY <1>2 DEF vars, objVars, callVars, runVars, histVars
  <2>2. StackInv' /\ (NestInv => NestInv')
    BY <2>1, FramesKept
  <2>3. BootShape' /\ GenInv' /\ PlaceInv'
    BY <2>1 DEF BootInv, BootShape, GenInv, PlaceInv, Inside
  <2>4. OneBusy => OneBusy'
    BY <2>1 DEF OneBusy, Busy, Idle, Inside
  <2> QED
    BY <2>1, <2>2, <2>3, <2>4 DEF BootInv
<1> QED
  BY <1>1, <1>2

\* A process that is spawned while one goroutine works at a time finds what its
\* agent requires running: the action that HardDepsRun is about.
LEMMA SpawnFindsDeps ==
    ASSUME BootInv, [Next]_vars, ~overlap', NEW o \in children' \ children,
           NEW d \in Requires(o[1])
    PROVE  Runs(d)
<1>1. \E g \in Goroutines : Spawn(g)
  <2> SUFFICES ASSUME ~(children' \subseteq children) PROVE \E g \in Goroutines : Spawn(g)
    OBVIOUS
  <2>1. Next
    BY DEF vars, objVars
  <2>2. ~SetupStep /\ ~StopAllStep /\ ~Reload /\ ~Shutdown
    BY DEF SetupStep, Discover, SortAgents, SkipAgent, ArmAgent, StartAgent, AgentStarted,
           SetupDone, StopAllStep, StopAgent, AgentStopped, Exit, Reload, Shutdown, objVars
  <2>3. \A a \in Agents : ~VerbStart(a) /\ ~VerbStop(a)
    BY DEF VerbStart, VerbStop
  <2>4. \A x \in Objects : ~Traffic(x) /\ ~Crash(x)
    BY DEF Traffic, Crash
  <2>5. PICK g \in Goroutines : CallStep(g)
    BY <2>1, <2>2, <2>3, <2>4 DEF Next, Step
  <2>6. Spawn(g)
    BY <2>5 DEF CallStep, StartStep, EnsureStarted, DependencyReturned, SpawnFailed,
                BecameRunning, StartTimedOut, FinishStop, CallDone, objVars
  <2> QED
    BY <2>6
<1>2. PICK g \in Goroutines : Spawn(g)
  BY <1>1
<1>3. Inside(g) /\ Top(g).hard = {} /\ o = Top(g).obj /\ ~overlap
  BY <1>2 DEF Spawn, AtSpawn, histVars
<1> QED
  BY <1>3, TopFrame

\* For any agents, declarations, verbs, traffic, crashes and reloads: while one
\* goroutine works at a time, no process is spawned before every agent its own
\* agent requires is registered and running.
THEOREM BootHardDepsRun == Spec => HardDepsRun
<1>1. BootInv /\ [Next]_vars =>
        [\A o \in children' \ children : ~overlap' =>
           \A d \in Requires(o[1]) : d \in Known /\ sm[Latest(d)] = "running"]_vars
  BY SpawnFindsDeps DEF Runs
<1> QED
  BY <1>1, BootInitInv, BootStepInv, PTL DEF Spec, HardDepsRun

-----------------------------------------------------------------------------
(* The order of the starts (internal/toposort): Kahn's algorithm, the soft *)
(* edges that Sort drops, and what the supervisor gets.  Rounds are        *)
(* counted, and what holds of every round is a set of numbers that has     *)
(* zero in it and, with each number, the next one.                         *)

\* Such a set is the set of all natural numbers.
LEMMA SetInduction ==
    ASSUME NEW T \in SUBSET Nat, 0 \in T, \A n \in T : n + 1 \in T
    PROVE  T = Nat
<1> SUFFICES ASSUME T # Nat PROVE FALSE
  OBVIOUS
<1> DEFINE R == {ss \in Nat \X Nat : ss[1] < ss[2]}
           U == Nat \ T
<1>1. IsWellFoundedOn(R, Nat)
  BY NatLessThanWellFounded DEF OpToRel
<1>2. U \subseteq Nat /\ U # {}
  OBVIOUS
<1> HIDE DEF U, R
<1>3. PICK x \in U : \A y \in U : ~ (<<y, x>> \in R)
  BY <1>1, <1>2, WFMin
<1>4. \A y \in Nat : y < x => <<y, x>> \in R
  BY <1>2, <1>3 DEF R
<1>5. x \in Nat /\ x # 0
  BY <1>3 DEF U
<1>6. x - 1 \in Nat /\ x - 1 < x /\ (x - 1) + 1 = x
  BY <1>5
<1>7. x - 1 \in T
  BY <1>3, <1>4, <1>6 DEF U
<1> QED
  BY <1>3, <1>6, <1>7 DEF U

\* A set of numbers that is not empty has a least one.
LEMMA LeastNumber ==
    ASSUME NEW T \in SUBSET Nat, T # {}
    PROVE  \E x \in T : \A y \in T : x <= y
<1> DEFINE R == {ss \in Nat \X Nat : ss[1] < ss[2]}
<1>1. IsWellFoundedOn(R, Nat)
  BY NatLessThanWellFounded DEF OpToRel
<1> HIDE DEF R
<1>3. PICK x \in T : \A y \in T : ~ (<<y, x>> \in R)
  BY <1>1, WFMin
<1>4. \A y \in T : ~(y < x)
  BY <1>3 DEF R
<1> QED
  BY <1>3, <1>4

\* The first n results of the function f, applied over and over to s0.
Iterated(S, s0, f, n, g) ==
    g \in [0..n -> S] /\ g[0] = s0 /\ \A i \in 1..n : g[i] = f[g[i - 1]]

\* What is computed round by round exists.
LEMMA Iterates ==
    ASSUME NEW S, NEW s0 \in S, NEW f \in [S -> S], NEW N \in Nat
    PROVE  \E g : Iterated(S, s0, f, N, g)
<1> USE DEF Iterated
<1> DEFINE Good(n, g) == Iterated(S, s0, f, n, g)
           T == {n \in Nat : \E g : Good(n, g)}
<1>1. 0 \in T
  <2> DEFINE g == [i \in 0..0 |-> s0]
  <2>1. Good(0, g)
    OBVIOUS
  <2> QED
    BY <2>1
<1>2. ASSUME NEW n \in T PROVE n + 1 \in T
  <2>1. n \in Nat
    BY <1>2
  <2>2. PICK g : Good(n, g)
    BY <1>2
  <2> DEFINE h == [i \in 0..(n + 1) |-> IF i = n + 1 THEN f[g[n]] ELSE g[i]]
  <2>3. \A i \in 0..(n + 1) : i = n + 1 \/ i \in 0..n
    BY <2>1
  <2>4. g[n] \in S /\ n \in 0..n
    BY <2>1, <2>2
  <2>5. h \in [0..(n + 1) -> S]
    BY <2>2, <2>3, <2>4
  <2>6. h[0] = s0
    BY <2>1, <2>2
  <2>7. ASSUME NEW i \in 1..(n + 1) PROVE h[i] = f[h[i - 1]]
    <3>1. i \in 0..(n + 1) /\ i - 1 \in 0..n /\ i - 1 # n + 1 /\ i - 1 \in 0..(n + 1)
      BY <2>1
    <3>2. h[i - 1] = g[i - 1]
      BY <3>1
    <3>3. CASE i = n + 1
      <4>1. i - 1 = n
        BY <2>1, <3>3
      <4> QED
        BY <3>1, <3>2, <3>3, <4>1
    <3>4. CASE i # n + 1
      <4>1. i \in 1..n
        BY <2>1, <3>4
      <4> QED
        BY <2>2, <3>1, <3>2, <3>4, <4>1
    <3> QED
      BY <3>3, <3>4
  <2>8. Good(n + 1, h)
    BY <2>5, <2>6, <2>7
  <2> HIDE DEF Good, h
  <2>9. n + 1 \in Nat /\ \E x : Good(n + 1, x)
    BY <2>1, <2>8
  <2> QED
    BY <2>9
<1>3. T = Nat
  <2> HIDE DEF Good
  <2>1. T \in SUBSET Nat
    OBVIOUS
  <2> HIDE DEF T
  <2> QED
    BY <1>1, <1>2, <2>1, SetInduction
<1> HIDE DEF Iterated
<1> QED
  BY <1>3

\* The ascending list of a set names each of its members once.
LEMMA SortedMembers ==
    ASSUME NEW S \in SUBSET Nat, IsFiniteSet(S)
    PROVE  Sorted(S) \in Seq(S) /\ ToSet(Sorted(S)) = S /\ Distinct(Sorted(S))
<1> DEFINE s == Sorted(S)
           n == Cardinality(S)
<1>1. /\ s \in [1..n -> S] /\ n \in Nat
      /\ \A i, j \in DOMAIN s : i < j => s[i] < s[j]
  BY SortedList
<1> HIDE DEF s, n
<1>2. s \in Seq(S) /\ DOMAIN s = 1..n
  BY <1>1
<1>3. Distinct(s)
  <2> SUFFICES ASSUME NEW i \in 1..n, NEW j \in 1..n, i # j PROVE s[i] # s[j]
    BY <1>2 DEF Distinct
  <2>1. s[i] \in Nat /\ s[j] \in Nat
    BY <1>1
  <2>2. i < j \/ j < i
    BY <1>1
  <2> QED
    BY <1>1, <1>2, <2>1, <2>2
<1>4. s \in Injection(1..n, S)
  BY <1>1, <1>2, <1>3 DEF Injection, IsInjective, Distinct
<1>5. Cardinality(1..n) = n /\ IsFiniteSet(1..n) /\ Cardinality(1..n) = Cardinality(S)
  BY <1>1, FS_Interval DEF n
<1>6. s \in Surjection(1..n, S)
  BY <1>4, <1>5, FS_Injection
<1>7. ToSet(s) = S
  BY <1>1, <1>2, <1>6 DEF Surjection, ToSet
<1> QED
  BY <1>2, <1>3, <1>7 DEF s

-----------------------------------------------------------------------------
(* Kahn's algorithm.                                                       *)

KahnStates(known) == [order : Seq(known), ready : Seq(known)]

KahnFirst(known, edges) ==
    [order |-> <<>>, ready |-> Sorted({n \in known : DepsOfNode(edges, n) = {}})]

\* Between two rounds: a node is placed or ready exactly when all it depends on
\* is placed, no node is there twice, and what a placed node depends on was
\* placed before it.
KahnInv(known, edges, s) ==
    /\ s \in KahnStates(known)
    /\ Distinct(s.order) /\ Distinct(s.ready) /\ ToSet(s.order) \cap ToSet(s.ready) = {}
    /\ ToSet(s.order) \cup ToSet(s.ready)
         = {n \in known : DepsOfNode(edges, n) \subseteq ToSet(s.order)}
    /\ \A i \in DOMAIN s.order : \A d \in DepsOfNode(edges, s.order[i]) :
          \E j \in DOMAIN s.order : j < i /\ s.order[j] = d

\* A list of members of S is one of members of a larger set.
LEMMA SeqGrows ==
    ASSUME NEW S, NEW T, S \subseteq T, NEW s \in Seq(S)
    PROVE  s \in Seq(T)
<1>1. s \in [1..Len(s) -> S] /\ Len(s) \in Nat
  BY LenProperties
<1>2. s \in [1..Len(s) -> T]
  BY <1>1
<1> QED
  BY <1>1, <1>2, SeqDef

\* A list and one more element.
LEMMA AppendedSet ==
    ASSUME NEW S, NEW s \in Seq(S), NEW x \in S
    PROVE  /\ Append(s, x) \in Seq(S) /\ ToSet(Append(s, x)) = ToSet(s) \cup {x}
           /\ DOMAIN Append(s, x) = 1..(Len(s) + 1) /\ DOMAIN s = 1..Len(s) /\ Len(s) \in Nat
           /\ Append(s, x)[Len(s) + 1] = x /\ Len(Append(s, x)) = Len(s) + 1
           /\ \A i \in 1..Len(s) : Append(s, x)[i] = s[i]
           /\ Distinct(s) /\ x \notin ToSet(s) => Distinct(Append(s, x))
<1> DEFINE n == Len(s)
           t == Append(s, x)
<1>1. /\ t \in Seq(S) /\ DOMAIN t = 1..(n + 1) /\ DOMAIN s = 1..n /\ n \in Nat
      /\ t[n + 1] = x /\ Len(t) = n + 1
      /\ \A i \in 1..n : t[i] = s[i]
  BY AppendProperties, LenProperties
<1> HIDE DEF n, t
<1>2. \A i \in 1..(n + 1) : i = n + 1 \/ i \in 1..n
  BY <1>1
<1>3. n + 1 \in 1..(n + 1) /\ 1..n \subseteq 1..(n + 1)
  BY <1>1
<1>4. ToSet(t) = ToSet(s) \cup {x}
  <2>1. ASSUME NEW y \in ToSet(t) PROVE y \in ToSet(s) \cup {x}
    <3>1. PICK i \in 1..(n + 1) : y = t[i]
      BY <1>1 DEF ToSet
    <3> QED
      BY <3>1, <1>1, <1>2 DEF ToSet
  <2>2. ASSUME NEW y \in ToSet(s) PROVE y \in ToSet(t)
    <3>1. PICK i \in 1..n : y = s[i]
      BY <1>1 DEF ToSet
    <3>2. i \in DOMAIN t /\ t[i] = y
      BY <3>1, <1>1, <1>3
    <3> QED
      BY <3>2 DEF ToSet
  <2>3. x \in ToSet(t)
    BY <1>1, <1>3 DEF ToSet
  <2> QED
    BY <2>1, <2>2, <2>3
<1>5. ASSUME Distinct(s), x \notin ToSet(s) PROVE Distinct(t)
  <2>1. \A i \in 1..n : s[i] # x
    BY <1>1, <1>5 DEF ToSet
  <2> SUFFICES ASSUME NEW i \in 1..(n + 1), NEW j \in 1..(n + 1), i # j PROVE t[i] # t[j]
    BY <1>1 DEF Distinct
  <2> QED
    BY <1>1, <1>2, <1>5, <2>1 DEF Distinct
<1> QED
  BY <1>1, <1>4, <1>5 DEF n, t

\* A list without its first element.
LEMMA TailSet ==
    ASSUME NEW S, NEW s \in Seq(S), s # <<>>
    PROVE  /\ Head(s) \in S /\ Head(s) \in ToSet(s) /\ Tail(s) \in Seq(S)
           /\ ToSet(s) = ToSet(Tail(s)) \cup {Head(s)}
           /\ Distinct(s) => Distinct(Tail(s)) /\ Head(s) \notin ToSet(Tail(s))
<1> DEFINE n == Len(s)
           t == Tail(s)
           x == Head(s)
<1>1. /\ x \in S /\ t \in Seq(S) /\ Len(t) = n - 1
      /\ \A i \in 1..Len(t) : t[i] = s[i + 1]
  BY HeadTailProperties
<1>2. /\ DOMAIN s = 1..n /\ n \in Nat \ {0} /\ x = s[1] /\ DOMAIN t = 1..Len(t)
  BY <1>1, EmptySeq, LenProperties
<1> HIDE DEF n, t, x
<1>3. /\ \A i \in 1..n : i = 1 \/ (i - 1 \in 1..(n - 1) /\ (i - 1) + 1 = i)
      /\ \A i \in 1..(n - 1) : i + 1 \in 1..n /\ i + 1 # 1
      /\ 1 \in 1..n
  BY <1>2
<1>4. ToSet(s) = ToSet(t) \cup {x}
  <2>1. ASSUME NEW y \in ToSet(s) PROVE y \in ToSet(t) \cup {x}
    <3>1. PICK i \in 1..n : y = s[i]
      BY <1>2 DEF ToSet
    <3>2. CASE i = 1
      BY <3>1, <3>2, <1>2
    <3>3. CASE i # 1
      <4>1. i - 1 \in DOMAIN t /\ t[i - 1] = y
        BY <3>1, <3>3, <1>1, <1>2, <1>3
      <4> QED
        BY <4>1 DEF ToSet
    <3> QED
      BY <3>2, <3>3
  <2>2. ASSUME NEW y \in ToSet(t) PROVE y \in ToSet(s)
    <3>1. PICK i \in 1..(n - 1) : y = t[i]
      BY <1>1, <1>2 DEF ToSet
    <3>2. i + 1 \in DOMAIN s /\ s[i + 1] = y
      BY <3>1, <1>1, <1>2, <1>3
    <3> QED
      BY <3>2 DEF ToSet
  <2>3. x \in ToSet(s)
    BY <1>2, <1>3 DEF ToSet
  <2> QED
    BY <2>1, <2>2, <2>3
<1>5. ASSUME Distinct(s) PROVE Distinct(t) /\ x \notin ToSet(t)
  <2>1. Distinct(t)
    <3> SUFFICES ASSUME NEW i \in 1..(n - 1), NEW j \in 1..(n - 1), i # j PROVE t[i] # t[j]
      BY <1>1, <1>2 DEF Distinct
    <3>1. i + 1 # j + 1
      OBVIOUS
    <3>2. /\ i + 1 \in DOMAIN s /\ j + 1 \in DOMAIN s
          /\ t[i] = s[i + 1] /\ t[j] = s[j + 1]
      BY <1>1, <1>2, <1>3
    <3> QED
      BY <3>1, <3>2, <1>5 DEF Distinct
  <2>2. ASSUME NEW i \in 1..(n - 1) PROVE t[i] # x
    BY <1>1, <1>2, <1>3, <1>5 DEF Distinct
  <2>3. x \notin ToSet(t)
    BY <2>2, <1>1, <1>2 DEF ToSet
  <2> QED
    BY <2>1, <2>3
<1> QED
  BY <1>1, <1>4, <1>5 DEF n, t, x

\* Two lists behind each other.
LEMMA ConcatSet ==
    ASSUME NEW S, NEW s \in Seq(S), NEW t \in Seq(S)
    PROVE  /\ s \o t \in Seq(S) /\ ToSet(s \o t) = ToSet(s) \cup ToSet(t)
           /\ Distinct(s) /\ Distinct(t) /\ ToSet(s) \cap ToSet(t) = {} => Distinct(s \o t)
<1> DEFINE n == Len(s)
           m == Len(t)
           u == s \o t
<1>1. /\ u \in Seq(S) /\ DOMAIN u = 1..(n + m) /\ DOMAIN s = 1..n /\ n \in Nat /\ m \in Nat
      /\ DOMAIN t = 1..m
      /\ \A i \in 1..(n + m) : u[i] = IF i <= n THEN s[i] ELSE t[i - n]
  BY ConcatProperties, LenProperties
<1> HIDE DEF n, m, u
<1>2. /\ \A i \in 1..(n + m) : i \in 1..n \/ (i - n \in 1..m /\ ~(i <= n))
      /\ \A i \in 1..n : i \in 1..(n + m) /\ i <= n
      /\ \A i \in 1..m : n + i \in 1..(n + m) /\ ~(n + i <= n) /\ (n + i) - n = i
  BY <1>1
<1>3. ToSet(u) = ToSet(s) \cup ToSet(t)
  <2>1. ASSUME NEW y \in ToSet(u) PROVE y \in ToSet(s) \cup ToSet(t)
    <3>1. PICK i \in 1..(n + m) : y = u[i]
      BY <1>1 DEF ToSet
    <3>2. CASE i \in 1..n
      <4>1. i \in DOMAIN s /\ s[i] = y
        BY <3>1, <3>2, <1>1, <1>2
      <4> QED
        BY <4>1 DEF ToSet
    <3>3. CASE i - n \in 1..m /\ ~(i <= n)
      BY <3>1, <3>3, <1>1 DEF ToSet
    <3> QED
      BY <3>2, <3>3, <1>2
  <2>2. ASSUME NEW y \in ToSet(s) PROVE y \in ToSet(u)
    <3>1. PICK i \in 1..n : y = s[i]
      BY <1>1 DEF ToSet
    <3>2. i \in DOMAIN u /\ u[i] = y
      BY <3>1, <1>1, <1>2
    <3> QED
      BY <3>2 DEF ToSet
  <2>3. ASSUME NEW y \in ToSet(t) PROVE y \in ToSet(u)
    <3>1. PICK i \in 1..m : y = t[i]
      BY <1>1 DEF ToSet
    <3>2. n + i \in DOMAIN u /\ u[n + i] = y
      BY <3>1, <1>1, <1>2
    <3> QED
      BY <3>2 DEF ToSet
  <2> QED
    BY <2>1, <2>2, <2>3
<1>4. ASSUME Distinct(s), Distinct(t), ToSet(s) \cap ToSet(t) = {} PROVE Distinct(u)
  <2> SUFFICES ASSUME NEW i \in 1..(n + m), NEW j \in 1..(n + m), i # j PROVE u[i] # u[j]
    BY <1>1 DEF Distinct
  <2>1. \A k \in 1..n : s[k] \in ToSet(s)
    BY <1>1 DEF ToSet
  <2>2. \A k \in 1..m : t[k] \in ToSet(t)
    BY <1>1 DEF ToSet
  <2>3. CASE i \in 1..n /\ j \in 1..n
    BY <2>3, <1>1, <1>2, <1>4 DEF Distinct
  <2>4. CASE ~(i <= n) /\ ~(j <= n) /\ i - n \in 1..m /\ j - n \in 1..m
    <3>1. i - n # j - n
      BY <1>1
    <3> QED
      BY <3>1, <2>4, <1>1, <1>4 DEF Distinct
  <2>5. CASE i \in 1..n /\ ~(j <= n) /\ j - n \in 1..m
    <3>1. u[i] \in ToSet(s) /\ u[j] \in ToSet(t)
      BY <2>1, <2>2, <2>5, <1>1, <1>2
    <3> QED
      BY <3>1, <1>4
  <2>6. CASE j \in 1..n /\ ~(i <= n) /\ i - n \in 1..m
    <3>1. u[j] \in ToSet(s) /\ u[i] \in ToSet(t)
      BY <2>1, <2>2, <2>6, <1>1, <1>2
    <3> QED
      BY <3>1, <1>4
  <2> QED
    BY <2>3, <2>4, <2>5, <2>6, <1>2
<1> QED
  BY <1>1, <1>3, <1>4 DEF u

\* The round that places a node keeps the invariant and makes the order longer.
LEMMA KahnStepInv ==
    ASSUME NEW known \in SUBSET Nat, IsFiniteSet(known), NEW edges \in SUBSET (known \X known),
           NEW s, KahnInv(known, edges, s)
    PROVE  /\ KahnInv(known, edges, KahnStep(known, edges, s))
           /\ s.ready # <<>> => Len(KahnStep(known, edges, s).order) = Len(s.order) + 1
           /\ s.ready = <<>> => KahnStep(known, edges, s) = s
<1>1. CASE s.ready = <<>>
  BY <1>1 DEF KahnStep
<1>2. CASE s.ready # <<>>
  <2> DEFINE o == s.order
             q == s.ready
             id == Head(s.ready)
             p == Append(s.order, id)
             un == Unlocked(known, edges, ToSet(p), id)
             r == Tail(q) \o Sorted(un)
             D(n) == DepsOfNode(edges, n)
  <2>1. KahnStep(known, edges, s) = [order |-> p, ready |-> r]
    BY <1>2 DEF KahnStep
  <2>2. /\ o \in Seq(known) /\ q \in Seq(known) /\ q # <<>>
        /\ Distinct(o) /\ Distinct(q) /\ ToSet(o) \cap ToSet(q) = {}
        /\ ToSet(o) \cup ToSet(q) = {n \in known : D(n) \subseteq ToSet(o)}
        /\ \A i \in DOMAIN o : \A d \in D(o[i]) : \E j \in DOMAIN o : j < i /\ o[j] = d
    BY <1>2 DEF KahnInv, KahnStates
  <2>i. id = Head(q)
    OBVIOUS
  <2>u. un = {n \in known : <<n, id>> \in edges /\ D(n) \subseteq ToSet(p)}
    BY DEF Unlocked
  <2>d. \A n \in known : <<n, id>> \in edges <=> id \in D(n)
    <3> SUFFICES ASSUME NEW n \in known PROVE <<n, id>> \in edges <=> id \in D(n)
      OBVIOUS
    <3>1. D(n) = {e[2] : e \in {x \in edges : x[1] = n}}
      BY DEF DepsOfNode
    <3>2. ASSUME <<n, id>> \in edges PROVE id \in D(n)
      BY <3>1, <3>2
    <3>3. ASSUME id \in D(n) PROVE <<n, id>> \in edges
      <4>1. PICK e \in edges : e[1] = n /\ e[2] = id
        BY <3>1, <3>3
      <4>2. e = <<e[1], e[2]>>
        OBVIOUS
      <4> QED
        BY <4>1, <4>2
    <3> QED
      BY <3>2, <3>3
  <2> HIDE DEF o, q, id, un, D
  <2>3. /\ id \in known /\ id \in ToSet(q) /\ Tail(q) \in Seq(known)
        /\ ToSet(q) = ToSet(Tail(q)) \cup {id}
        /\ Distinct(Tail(q)) /\ id \notin ToSet(Tail(q))
    BY <2>2, <2>i, TailSet
  <2>4. /\ p \in Seq(known) /\ ToSet(p) = ToSet(o) \cup {id}
        /\ DOMAIN p = 1..(Len(o) + 1) /\ DOMAIN o = 1..Len(o) /\ Len(o) \in Nat
        /\ p[Len(o) + 1] = id /\ Len(p) = Len(o) + 1
        /\ \A i \in 1..Len(o) : p[i] = o[i]
        /\ Distinct(p)
    <3>1. id \notin ToSet(o)
      BY <2>2, <2>3
    <3>2. p = Append(o, id)
      BY DEF o
    <3> HIDE DEF p
    <3> QED
      BY <2>2, <2>3, <3>1, <3>2, AppendedSet
  <2> HIDE DEF p
  <2>5. un \in SUBSET known /\ un \in SUBSET Nat /\ IsFiniteSet(un)
    <3>1. un \in SUBSET known
      BY <2>u
    <3> QED
      BY <3>1, FS_Subset
  <2>6. Sorted(un) \in Seq(un) /\ ToSet(Sorted(un)) = un /\ Distinct(Sorted(un))
    BY <2>5, SortedMembers
  <2>7. Sorted(un) \in Seq(known)
    BY <2>5, <2>6, SeqGrows
  <2>8. un \cap ToSet(q) = {}
    <3> SUFFICES ASSUME NEW n \in un, n \in ToSet(q) PROVE FALSE
      OBVIOUS
    <3>1. id \in D(n) /\ D(n) \subseteq ToSet(o)
      BY <2>2, <2>u, <2>d
    <3> QED
      BY <3>1, <2>2, <2>3
  <2>9. /\ r \in Seq(known) /\ ToSet(r) = ToSet(Tail(q)) \cup un /\ Distinct(r)
    <3> DEFINE v == Tail(q)
               w == Sorted(un)
    <3>1. /\ v \in Seq(known) /\ w \in Seq(known) /\ Distinct(v) /\ Distinct(w)
          /\ ToSet(v) \cap ToSet(w) = {} /\ ToSet(w) = un
      BY <2>3, <2>6, <2>7, <2>8
    <3> HIDE DEF v, w
    <3>2. v \o w \in Seq(known) /\ ToSet(v \o w) = ToSet(v) \cup ToSet(w) /\ Distinct(v \o w)
      BY <3>1, ConcatSet
    <3> QED
      BY <3>1, <3>2 DEF v, w
  <2> HIDE DEF r
  <2>10. ToSet(p) \cap ToSet(r) = {}
    <3>1. ASSUME NEW n \in un, n \in ToSet(p) PROVE FALSE
      <4>1. id \in D(n)
        BY <3>1, <2>u, <2>d
      <4>2. n \in ToSet(o) \cup ToSet(q)
        BY <3>1, <2>3, <2>4
      <4>3. D(n) \subseteq ToSet(o)
        BY <4>2, <2>2
      <4> QED
        BY <4>1, <4>3, <2>2, <2>3
    <3> QED
      BY <3>1, <2>2, <2>3, <2>4, <2>9
  <2>11. ToSet(p) \cup ToSet(r) = {n \in known : D(n) \subseteq ToSet(p)}
    <3>1. ASSUME NEW n \in ToSet(p) \cup ToSet(r) PROVE n \in known /\ D(n) \subseteq ToSet(p)
      <4>1. CASE n \in un
        BY <4>1, <2>u
      <4>2. CASE n \notin un
        <5>1. n \in ToSet(o) \cup ToSet(q)
          BY <3>1, <4>2, <2>3, <2>4, <2>9
        <5> QED
          BY <5>1, <2>2, <2>4
      <4> QED
        BY <4>1, <4>2
    <3>2. ASSUME NEW n \in known, D(n) \subseteq ToSet(p) PROVE n \in ToSet(p) \cup ToSet(r)
      <4>1. CASE id \in D(n)
        BY <4>1, <3>2, <2>u, <2>d, <2>9
      <4>2. CASE id \notin D(n)
        <5>1. D(n) \subseteq ToSet(o)
          BY <3>2, <4>2, <2>4
        <5>2. n \in ToSet(o) \cup ToSet(q)
          BY <5>1, <2>2
        <5> QED
          BY <5>2, <2>3, <2>4, <2>9
      <4> QED
        BY <4>1, <4>2
    <3> QED
      BY <3>1, <3>2
  <2>12. ASSUME NEW i \in DOMAIN p, NEW d \in D(p[i])
         PROVE  \E j \in DOMAIN p : j < i /\ p[j] = d
    <3>1. CASE i = Len(o) + 1
      <4>1. d \in ToSet(o)
        <5>1. id \in ToSet(o) \cup ToSet(q)
          BY <2>3
        <5>2. D(id) \subseteq ToSet(o)
          BY <5>1, <2>2
        <5> QED
          BY <5>2, <3>1, <2>4, <2>12
      <4>2. PICK j \in DOMAIN o : o[j] = d
        BY <4>1 DEF ToSet
      <4>3. j \in DOMAIN p /\ j < i /\ p[j] = d
        BY <4>2, <3>1, <2>4
      <4> QED
        BY <4>3
    <3>2. CASE i # Len(o) + 1
      <4>1. i \in DOMAIN o /\ p[i] = o[i]
        BY <3>2, <2>4
      <4>2. PICK j \in DOMAIN o : j < i /\ o[j] = d
        BY <4>1, <2>2, <2>12
      <4>3. j \in DOMAIN p /\ p[j] = d
        BY <4>2, <2>4
      <4> QED
        BY <4>2, <4>3
    <3> QED
      BY <3>1, <3>2
  <2>13. /\ KahnStep(known, edges, s).order = p /\ KahnStep(known, edges, s).ready = r
         /\ KahnStep(known, edges, s) \in KahnStates(known)
    BY <2>1, <2>4, <2>9 DEF KahnStates
  <2>14. KahnInv(known, edges, KahnStep(known, edges, s))
    BY <2>13, <2>4, <2>9, <2>10, <2>11, <2>12 DEF KahnInv, D
  <2> QED
    BY <1>2, <2>4, <2>13, <2>14 DEF o
<1> QED
  BY <1>1, <1>2

\* At first the nodes without dependencies are ready.
LEMMA KahnFirstInv ==
    ASSUME NEW known \in SUBSET Nat, IsFiniteSet(known), NEW edges \in SUBSET (known \X known)
    PROVE  KahnInv(known, edges, KahnFirst(known, edges))
<1> DEFINE Z == {n \in known : DepsOfNode(edges, n) = {}}
           w == Sorted(Z)
           f == KahnFirst(known, edges)
<1>1. Z \in SUBSET known /\ Z \in SUBSET Nat /\ IsFiniteSet(Z)
  <2>1. Z \in SUBSET known
    OBVIOUS
  <2> HIDE DEF Z
  <2> QED
    BY <2>1, FS_Subset
<1>2. f = [order |-> <<>>, ready |-> w]
  BY DEF KahnFirst
<1>z. {n \in known : DepsOfNode(edges, n) \subseteq {}} = Z
  OBVIOUS
<1> HIDE DEF Z, w, f
<1>3. w \in Seq(Z) /\ ToSet(w) = Z /\ Distinct(w)
  BY <1>1, SortedMembers DEF w
<1>4. w \in Seq(known)
  BY <1>1, <1>3, SeqGrows
<1>5. f.order = <<>> /\ f.ready = w /\ f \in KahnStates(known)
  BY <1>2, <1>4 DEF KahnStates
<1>6. DOMAIN f.order = {} /\ ToSet(f.order) = {}
  BY <1>5 DEF ToSet
<1>7. KahnInv(known, edges, f)
  BY <1>3, <1>5, <1>6, <1>z DEF KahnInv, Distinct
<1> QED
  BY <1>7 DEF f

\* The function of the rounds exists, so Kahn is its last order.
LEMMA KahnRounds ==
    ASSUME NEW known \in SUBSET Nat, IsFiniteSet(known), NEW edges \in SUBSET (known \X known)
    PROVE  \E A : /\ A[0] = KahnFirst(known, edges)
                  /\ \A i \in 1..Cardinality(known) : A[i] = KahnStep(known, edges, A[i - 1])
                  /\ Kahn(known, edges) = A[Cardinality(known)].order
<1> DEFINE N == Cardinality(known)
           after[i \in 0..Cardinality(known)] ==
              IF i = 0 THEN KahnFirst(known, edges) ELSE KahnStep(known, edges, after[i - 1])
           S == {s \in KahnStates(known) : KahnInv(known, edges, s)}
           f == [s \in S |-> KahnStep(known, edges, s)]
<1>1. N \in Nat
  BY FS_CardinalityType
<1>2. Kahn(known, edges) = after[N].order
  BY DEF Kahn, KahnFirst
<1>3. KahnFirst(known, edges) \in S
  BY KahnFirstInv DEF KahnInv
<1>4. ASSUME NEW s \in S PROVE KahnStep(known, edges, s) \in S
  <2>1. KahnInv(known, edges, KahnStep(known, edges, s))
    BY <1>4, KahnStepInv
  <2> QED
    BY <2>1 DEF KahnInv
<1>5. f \in [S -> S]
  BY <1>4
<1>6. \E g : Iterated(S, KahnFirst(known, edges), f, N, g)
  <2> HIDE DEF S, f, N, after
  <2> QED
    BY <1>1, <1>3, <1>5, Iterates
<1>7. PICK g \in [0..N -> S] : /\ g[0] = KahnFirst(known, edges)
                                /\ \A i \in 1..N : g[i] = f[g[i - 1]]
  BY <1>6 DEF Iterated
<1>8. \A i \in 1..N : i - 1 \in 0..N
  BY <1>1
<1>9. \A i \in 1..N : g[i] = KahnStep(known, edges, g[i - 1])
  BY <1>7, <1>8
<1>10. g = [i \in 0..N |-> IF i = 0 THEN KahnFirst(known, edges)
                                    ELSE KahnStep(known, edges, g[i - 1])]
  <2>1. \A i \in 0..N : i = 0 \/ i \in 1..N
    BY <1>1
  <2> QED
    BY <1>7, <1>9, <2>1
<1>11. after = [i \in 0..N |-> IF i = 0 THEN KahnFirst(known, edges)
                                        ELSE KahnStep(known, edges, after[i - 1])]
  BY <1>10 DEF after
<1> HIDE DEF after
<1>12. /\ after[0] = KahnFirst(known, edges)
       /\ \A i \in 1..N : after[i] = KahnStep(known, edges, after[i - 1])
  BY <1>1, <1>11
<1> QED
  BY <1>2, <1>12

\* A list without repetitions has as many elements as it is long, so it has all
\* of a finite set exactly when it is as long as the set is large.
LEMMA ListOfAll ==
    ASSUME NEW S, IsFiniteSet(S), NEW s \in Seq(S), Distinct(s)
    PROVE  Len(s) = Cardinality(S) <=> ToSet(s) = S
<1> DEFINE n == Len(s)
           T == ToSet(s)
<1>1. n \in Nat /\ DOMAIN s = 1..n /\ s \in [1..n -> S]
  BY LenProperties
<1>2. T \subseteq S /\ s \in [1..n -> T] /\ \A x \in T : \E i \in 1..n : s[i] = x
  BY <1>1 DEF ToSet
<1>3. Cardinality(1..n) = n /\ IsFiniteSet(1..n)
  BY <1>1, FS_Interval
<1> HIDE DEF n, T
<1>4. \A i, j \in 1..n : i # j => s[i] # s[j]
  BY <1>1 DEF Distinct
<1>5. s \in Bijection(1..n, T)
  <2>1. s \in Injection(1..n, T)
    BY <1>2, <1>4 DEF Injection, IsInjective
  <2>2. s \in Surjection(1..n, T)
    BY <1>2 DEF Surjection
  <2> QED
    BY <2>1, <2>2 DEF Bijection
<1>6. IsFiniteSet(T) /\ Cardinality(T) = n
  BY <1>3, <1>5, FS_Bijection DEF ExistsBijection
<1>7. Cardinality(S) = Cardinality(T) => S = T
  BY <1>2, FS_Subset
<1> QED
  BY <1>6, <1>7 DEF n, T

\* What Kahn emits: nodes, each once and after all it depends on, and every node
\* whose dependencies it emits.
LEMMA KahnEmits ==
    ASSUME NEW known \in SUBSET Nat, IsFiniteSet(known), NEW edges \in SUBSET (known \X known)
    PROVE  LET o == Kahn(known, edges)
           IN  /\ o \in Seq(known) /\ Distinct(o)
               /\ ToSet(o) = {n \in known : DepsOfNode(edges, n) \subseteq ToSet(o)}
               /\ \A i \in DOMAIN o : \A d \in DepsOfNode(edges, o[i]) :
                     \E j \in DOMAIN o : j < i /\ o[j] = d
<1> DEFINE N == Cardinality(known)
<1>1. N \in Nat
  BY FS_CardinalityType
<1>2. PICK A : /\ A[0] = KahnFirst(known, edges)
               /\ \A i \in 1..N : A[i] = KahnStep(known, edges, A[i - 1])
               /\ Kahn(known, edges) = A[N].order
  BY KahnRounds
<1> DEFINE Round(n) == /\ KahnInv(known, edges, A[n])
                       /\ A[n].ready = <<>> \/ Len(A[n].order) = n
           T == {n \in Nat : n <= N => Round(n)}
<1>3. 0 \in T
  <2>1. Round(0)
    BY <1>2, KahnFirstInv DEF KahnFirst
  <2> QED
    BY <2>1
<1>4. ASSUME NEW n \in T PROVE n + 1 \in T
  <2>1. n \in Nat /\ (n <= N => Round(n))
    BY <1>4
  <2>2. ASSUME n + 1 <= N PROVE Round(n + 1)
    <3>1. n <= N /\ n + 1 \in 1..N /\ (n + 1) - 1 = n
      BY <1>1, <2>1, <2>2
    <3>2. A[n + 1] = KahnStep(known, edges, A[n]) /\ Round(n)
      BY <1>2, <2>1, <3>1
    <3> DEFINE s == A[n]
               t == A[n + 1]
    <3>3. KahnInv(known, edges, s) /\ t = KahnStep(known, edges, s)
          /\ (s.ready = <<>> \/ Len(s.order) = n)
      BY <3>2
    <3> HIDE DEF s, t
    <3>4. /\ KahnInv(known, edges, t)
          /\ s.ready # <<>> => Len(t.order) = Len(s.order) + 1
          /\ s.ready = <<>> => t = s
      BY <3>3, KahnStepInv
    <3>5. t.ready = <<>> \/ Len(t.order) = n + 1
      BY <3>3, <3>4
    <3> QED
      BY <3>4, <3>5 DEF t
  <2> QED
    BY <2>1, <2>2
<1>5. T = Nat
  <2> HIDE DEF Round
  <2>1. T \in SUBSET Nat
    OBVIOUS
  <2> HIDE DEF T
  <2> QED
    BY <1>3, <1>4, <2>1, SetInduction
<1>6. Round(N)
  <2> HIDE DEF Round
  <2>1. N \in T
    BY <1>1, <1>5
  <2> QED
    BY <1>1, <2>1
<1> DEFINE s == A[N]
           o == A[N].order
<1>7. /\ o \in Seq(known) /\ s.ready \in Seq(known)
      /\ Distinct(o) /\ ToSet(o) \cap ToSet(s.ready) = {}
      /\ ToSet(o) \cup ToSet(s.ready) = {n \in known : DepsOfNode(edges, n) \subseteq ToSet(o)}
      /\ \A i \in DOMAIN o : \A d \in DepsOfNode(edges, o[i]) :
            \E j \in DOMAIN o : j < i /\ o[j] = d
      /\ s.ready = <<>> \/ Len(o) = N
  BY <1>6 DEF KahnInv, KahnStates
<1> HIDE DEF s, o, N
<1>8. ToSet(s.ready) = {}
  <2>1. CASE s.ready = <<>>
    BY <2>1 DEF ToSet
  <2>2. CASE Len(o) = N
    <3>1. ToSet(o) = known
      BY <1>7, <2>2, ListOfAll DEF N
    <3>2. ToSet(s.ready) \subseteq known
      BY <1>7
    <3> QED
      BY <3>1, <3>2, <1>7
  <2> QED
    BY <1>7, <2>1, <2>2
<1> QED
  BY <1>2, <1>7, <1>8 DEF o

\* The nodes that are not emitted are those that wait for a cycle.
LEMMA StuckWait ==
    ASSUME NEW known \in SUBSET Nat, IsFiniteSet(known), NEW edges \in SUBSET (known \X known)
    PROVE  /\ StuckNodes(known, edges) = {n \in known : WaitsForCycle(known, edges, n)}
           /\ Len(Kahn(known, edges)) = Cardinality(known) <=> StuckNodes(known, edges) = {}
<1> DEFINE o == Kahn(known, edges)
           U == StuckNodes(known, edges)
           D(n) == DepsOfNode(edges, n)
<1>1. /\ o \in Seq(known) /\ Distinct(o) /\ ToSet(o) = {n \in known : D(n) \subseteq ToSet(o)}
      /\ \A i \in DOMAIN o : \A d \in D(o[i]) : \E j \in DOMAIN o : j < i /\ o[j] = d
  BY KahnEmits
<1>2. U = known \ ToSet(o)
  BY DEF StuckNodes
<1>3. \A n \in known : D(n) \subseteq known
  BY DEF DepsOfNode
<1>w. \A n : WaitsForCycle(known, edges, n) <=>
        \E S \in SUBSET known : n \in S /\ \A m \in S : D(m) \cap S # {}
  BY DEF WaitsForCycle
<1> HIDE DEF o, U, D
<1>4. ASSUME NEW n \in U PROVE WaitsForCycle(known, edges, n)
  <2>1. \A m \in U : D(m) \cap U # {}
    <3> SUFFICES ASSUME NEW m \in U, D(m) \cap U = {} PROVE FALSE
      OBVIOUS
    <3>1. D(m) \subseteq ToSet(o)
      BY <1>2, <1>3
    <3> QED
      BY <3>1, <1>1, <1>2
  <2>2. U \in SUBSET known
    BY <1>2
  <2> QED
    BY <2>1, <2>2, <1>w
<1>5. ASSUME NEW n \in known, WaitsForCycle(known, edges, n) PROVE n \in U
  <2>1. PICK S \in SUBSET known : n \in S /\ \A m \in S : D(m) \cap S # {}
    BY <1>5, <1>w
  <2> DEFINE I == {i \in DOMAIN o : o[i] \in S}
  <2>2. SUFFICES ASSUME n \in ToSet(o) PROVE FALSE
    BY <1>2
  <2>3. I # {}
    BY <2>1, <2>2 DEF ToSet
  <2>4. I \in SUBSET Nat
    <3>1. DOMAIN o = 1..Len(o) /\ Len(o) \in Nat
      BY <1>1, LenProperties
    <3> QED
      BY <3>1
  <2>5. PICK i \in I : \A j \in I : i <= j
    <3> HIDE DEF I
    <3> QED
      BY <2>3, <2>4, LeastNumber
  <2>6. i \in DOMAIN o /\ o[i] \in S
    BY <2>5
  <2>7. PICK d \in S : d \in D(o[i])
    BY <2>1, <2>6
  <2>8. PICK j \in DOMAIN o : j < i /\ o[j] = d
    BY <1>1, <2>6, <2>7
  <2>9. j \in I
    BY <2>7, <2>8
  <2>10. i <= j /\ j < i /\ i \in Nat /\ j \in Nat
    <3> HIDE DEF I
    <3> QED
      BY <2>4, <2>5, <2>8, <2>9
  <2> QED
    BY <2>10
<1>6. Len(o) = Cardinality(known) <=> ToSet(o) = known
  BY <1>1, ListOfAll
<1>7. ToSet(o) \subseteq known
  BY <1>1
<1>8. U = {n \in known : WaitsForCycle(known, edges, n)}
  BY <1>2, <1>4, <1>5
<1> QED
  BY <1>2, <1>6, <1>7, <1>8 DEF o, U

\* More edges, more nodes that wait.
LEMMA WaitsMore ==
    ASSUME NEW known, NEW E, NEW F, E \subseteq F, NEW n, WaitsForCycle(known, E, n)
    PROVE  WaitsForCycle(known, F, n)
<1>1. \A m : DepsOfNode(E, m) \subseteq DepsOfNode(F, m)
  BY DEF DepsOfNode
<1>2. PICK S \in SUBSET known : n \in S /\ \A m \in S : DepsOfNode(E, m) \cap S # {}
  BY DEF WaitsForCycle
<1>3. \A m \in S : DepsOfNode(F, m) \cap S # {}
  BY <1>1, <1>2
<1> QED
  BY <1>2, <1>3 DEF WaitsForCycle

\* The normalised edges are edges between known nodes.
LEMMA EdgeSetType ==
    ASSUME NEW known \in SUBSET Nat, NEW deps \in SUBSET (Nat \X Nat)
    PROVE  EdgeSet(known, deps) \in SUBSET (known \X known) /\ EdgeSet(known, deps) \subseteq deps
<1> SUFFICES ASSUME NEW e \in EdgeSet(known, deps) PROVE e \in known \X known /\ e \in deps
  OBVIOUS
<1>1. e \in deps /\ e[1] \in known /\ e[2] \in known
  BY DEF EdgeSet
<1>2. e = <<e[1], e[2]>>
  BY <1>1
<1> QED
  BY <1>1, <1>2

\* A round that leaves nodes unplaced drops a soft edge, if the hard edges have no
\* cycle, and what it drops points to a node that waits for a cycle.
LEMMA DropStep ==
    ASSUME NEW known \in SUBSET Nat, IsFiniteSet(known),
           NEW H \in SUBSET (known \X known), NEW F \in SUBSET (known \X known)
    PROVE  /\ DropSoft(known, H, F) \in SUBSET F
           /\ \A e \in F \ DropSoft(known, H, F) : WaitsForCycle(known, H \cup F, e[2])
           /\ StuckNodes(known, H) = {} /\ StuckNodes(known, H \cup F) # {}
                => DropSoft(known, H, F) # F
<1> DEFINE U == StuckNodes(known, H \cup F)
           G == DropSoft(known, H, F)
<1>1. H \cup F \in SUBSET (known \X known)
  OBVIOUS
<1>2. G = F \ (U \X U)
  BY DEF DropSoft
<1>3. /\ U = {n \in known : WaitsForCycle(known, H \cup F, n)}
      /\ StuckNodes(known, H) = {n \in known : WaitsForCycle(known, H, n)}
  BY <1>1, StuckWait
<1>u. ASSUME NEW n \in U PROVE DepsOfNode(H \cup F, n) \cap U # {}
  <2>1. PICK S \in SUBSET known : n \in S /\ \A m \in S : DepsOfNode(H \cup F, m) \cap S # {}
    BY <1>u, <1>3 DEF WaitsForCycle
  <2>2. S \subseteq U
    BY <2>1, <1>3 DEF WaitsForCycle
  <2> QED
    BY <2>1, <2>2
<1> HIDE DEF U, G
<1>4. \A e \in F \ G : WaitsForCycle(known, H \cup F, e[2])
  <2> SUFFICES ASSUME NEW e \in F, e \in U \X U PROVE WaitsForCycle(known, H \cup F, e[2])
    BY <1>2
  <2>1. e[2] \in U
    OBVIOUS
  <2> QED
    BY <2>1, <1>3
<1>5. ASSUME StuckNodes(known, H) = {}, U # {}, G = F PROVE FALSE
  <2>1. PICK n : n \in U
    BY <1>5
  <2>2. \A m \in U : DepsOfNode(H, m) \cap U # {}
    <3> SUFFICES ASSUME NEW m \in U PROVE DepsOfNode(H, m) \cap U # {}
      OBVIOUS
    <3>1. PICK d \in U : d \in DepsOfNode(H \cup F, m)
      BY <1>u
    <3>2. PICK e \in H \cup F : e[1] = m /\ e[2] = d
      BY <3>1 DEF DepsOfNode
    <3>3. e = <<m, d>>
      BY <3>2
    <3>4. e \notin F
      BY <3>1, <3>3, <1>2, <1>5
    <3> QED
      BY <3>1, <3>2, <3>4 DEF DepsOfNode
  <2>3. U \in SUBSET known
    BY <1>3
  <2>4. WaitsForCycle(known, H, n) /\ n \in known
    BY <2>1, <2>2, <2>3 DEF WaitsForCycle
  <2> QED
    BY <2>4, <1>3, <1>5
<1>6. G \in SUBSET F
  BY <1>2
<1>7. StuckNodes(known, H) = {} /\ U # {} => G # F
  BY <1>5
<1> QED
  BY <1>4, <1>6, <1>7 DEF U, G

\* A[i] is the soft edges left after i rounds of Sort's second phase.
SortRounds(known, H, F, n, A) ==
    /\ A[0] = F
    /\ \A i \in 1..n : A[i] = DropSoft(known, H, A[i - 1])

\* The rounds that place every node.
RoundsDone(known, H, n, A) ==
    {i \in 0..n : Len(Kahn(known, H \cup A[i])) = Cardinality(known)}

\* Sort returns what the first of them placed.
SortIs(known, hard, soft, A) ==
    LET H == EdgeSet(known, hard)
        done == RoundsDone(known, H, Cardinality(soft), A)
    IN  /\ SortRounds(known, H, EdgeSet(known, soft), Cardinality(soft), A)
        /\ Sort(known, hard, soft) =
             IF StuckNodes(known, H) # {} \/ done = {}
               THEN Cycle
               ELSE Ordered(Kahn(known, H \cup A[CHOOSE i \in done : \A j \in done : i <= j]))

\* What Sort returns, said with its rounds.
LEMMA SortReturns ==
    ASSUME NEW known \in SUBSET Nat, IsFiniteSet(known), NEW hard \in SUBSET (Nat \X Nat),
           NEW soft \in SUBSET (Nat \X Nat), IsFiniteSet(soft)
    PROVE  \E A : SortIs(known, hard, soft, A)
<1> DEFINE N == Cardinality(soft)
           H == EdgeSet(known, hard)
           F == EdgeSet(known, soft)
           softAfter[i \in 0..Cardinality(soft)] ==
              IF i = 0 THEN EdgeSet(known, soft)
                       ELSE DropSoft(known, EdgeSet(known, hard), softAfter[i - 1])
           S == SUBSET (known \X known)
           f == [x \in S |-> DropSoft(known, H, x)]
<1>1. N \in Nat
  BY FS_CardinalityType
<1>2. H \in S /\ F \in S
  BY EdgeSetType
<1>3. \A x \in S : DropSoft(known, H, x) \in S
  BY <1>2 DEF DropSoft
<1>4. f \in [S -> S]
  BY <1>3
<1>5. \E g : Iterated(S, F, f, N, g)
  <2> HIDE DEF S, f, N, F, softAfter
  <2> QED
    BY <1>1, <1>2, <1>4, Iterates
<1>6. PICK g \in [0..N -> S] : g[0] = F /\ \A i \in 1..N : g[i] = f[g[i - 1]]
  BY <1>5 DEF Iterated
<1>7. \A i \in 1..N : g[i] = DropSoft(known, H, g[i - 1])
  <2>1. \A i \in 1..N : i - 1 \in 0..N
    BY <1>1
  <2> QED
    BY <1>6, <2>1
<1>8. g = [i \in 0..N |-> IF i = 0 THEN F ELSE DropSoft(known, H, g[i - 1])]
  <2>1. \A i \in 0..N : i = 0 \/ i \in 1..N
    BY <1>1
  <2> HIDE DEF F, H, S
  <2> QED
    BY <1>6, <1>7, <2>1
<1>9. softAfter = [i \in 0..N |-> IF i = 0 THEN F ELSE DropSoft(known, H, softAfter[i - 1])]
  BY <1>8 DEF softAfter
<1>10. LET placed(i) == Kahn(known, H \cup softAfter[i])
           done == {i \in 0..Cardinality(soft) : Len(placed(i)) = Cardinality(known)}
       IN  Sort(known, hard, soft) =
             IF StuckNodes(known, H) # {} \/ done = {}
               THEN Cycle
               ELSE Ordered(placed(CHOOSE i \in done : \A j \in done : i <= j))
  BY DEF Sort
<1> HIDE DEF softAfter
<1>11. SortRounds(known, H, F, N, softAfter)
  BY <1>1, <1>9 DEF SortRounds
<1>12. SortIs(known, hard, soft, softAfter)
  BY <1>10, <1>11 DEF SortIs, RoundsDone
<1> QED
  BY <1>12

\* After n rounds: only soft edges to nodes that wait for a cycle were dropped, and
\* either a round so far has placed every node or each has dropped an edge.
RoundInv(known, H, F, N, A, n) ==
    /\ A[n] \in SUBSET F
    /\ \A e \in F \ A[n] : WaitsForCycle(known, H \cup F, e[2])
    /\ \/ \E m \in 0..n : StuckNodes(known, H \cup A[m]) = {}
       \/ Cardinality(A[n]) + n <= N

\* One more round.
LEMMA RoundStep ==
    ASSUME NEW known \in SUBSET Nat, IsFiniteSet(known), NEW H \in SUBSET (known \X known),
           NEW F \in SUBSET (known \X known), IsFiniteSet(F), NEW N \in Nat, NEW A,
           StuckNodes(known, H) = {}, NEW n \in Nat, RoundInv(known, H, F, N, A, n),
           A[n + 1] = DropSoft(known, H, A[n])
    PROVE  RoundInv(known, H, F, N, A, n + 1)
<1> DEFINE B == A[n]
           G == A[n + 1]
<1>1. /\ B \in SUBSET F /\ B \in SUBSET (known \X known) /\ G = DropSoft(known, H, B)
      /\ \A e \in F \ B : WaitsForCycle(known, H \cup F, e[2])
      /\ \/ \E m \in 0..n : StuckNodes(known, H \cup A[m]) = {}
         \/ Cardinality(B) + n <= N
  BY DEF RoundInv
<1> HIDE DEF B, G
<1>2. /\ G \in SUBSET B
      /\ \A e \in B \ G : WaitsForCycle(known, H \cup B, e[2])
      /\ StuckNodes(known, H \cup B) # {} => G # B
  BY <1>1, DropStep
<1>3. \A e \in F \ G : WaitsForCycle(known, H \cup F, e[2])
  <2> SUFFICES ASSUME NEW e \in F \ G PROVE WaitsForCycle(known, H \cup F, e[2])
    OBVIOUS
  <2>1. CASE e \notin B
    BY <2>1, <1>1
  <2>2. CASE e \in B
    <3>1. WaitsForCycle(known, H \cup B, e[2]) /\ H \cup B \subseteq H \cup F
      BY <2>2, <1>1, <1>2
    <3> QED
      BY <3>1, WaitsMore
  <2> QED
    BY <2>1, <2>2
<1>4. \/ \E m \in 0..(n + 1) : StuckNodes(known, H \cup A[m]) = {}
      \/ Cardinality(G) + (n + 1) <= N
  <2>1. CASE \E m \in 0..n : StuckNodes(known, H \cup A[m]) = {}
    <3>1. 0..n \subseteq 0..(n + 1)
      OBVIOUS
    <3> QED
      BY <2>1, <3>1
  <2>2. CASE Cardinality(B) + n <= N /\ ~\E m \in 0..n : StuckNodes(known, H \cup A[m]) = {}
    <3>0. n \in 0..n
      OBVIOUS
    <3>1. StuckNodes(known, H \cup A[n]) # {}
      BY <2>2, <3>0
    <3>2. G # B
      BY <3>1, <1>2 DEF B
    <3>3. IsFiniteSet(B)
      BY <1>1, FS_Subset
    <3>4. /\ Cardinality(B) \in Nat /\ Cardinality(G) \in Nat
          /\ Cardinality(G) <= Cardinality(B) /\ Cardinality(G) # Cardinality(B)
      BY <3>2, <3>3, <1>2, FS_Subset, FS_CardinalityType
    <3>5. Cardinality(G) + (n + 1) <= N
      BY <3>4, <2>2
    <3> QED
      BY <3>5
  <2> QED
    BY <1>1, <2>1, <2>2
<1>5. G \in SUBSET F
  BY <1>1, <1>2
<1> QED
  BY <1>3, <1>4, <1>5 DEF RoundInv, G

\* What holds of all the rounds.
RoundsHold(known, H, F, N, A) ==
    /\ \A n \in 0..N : RoundInv(known, H, F, N, A, n)
    /\ \E m \in 0..N : StuckNodes(known, H \cup A[m]) = {}

\* A round places every node: the guard against a loop that drops nothing, which
\* toposort.go says "cannot happen with an acyclic hard graph", is never taken.
LEMMA RoundsEnd ==
    ASSUME NEW known \in SUBSET Nat, IsFiniteSet(known), NEW H \in SUBSET (known \X known),
           NEW F \in SUBSET (known \X known), IsFiniteSet(F), NEW N \in Nat, NEW A,
           Cardinality(F) <= N, StuckNodes(known, H) = {}, SortRounds(known, H, F, N, A)
    PROVE  RoundsHold(known, H, F, N, A)
<1> DEFINE I(n) == RoundInv(known, H, F, N, A, n)
           T == {n \in Nat : n <= N => I(n)}
<1>1. 0 \in T
  <2>1. A[0] = F /\ Cardinality(F) \in Nat
    BY FS_CardinalityType DEF SortRounds
  <2>2. I(0)
    BY <2>1 DEF RoundInv
  <2> QED
    BY <2>2
<1>2. ASSUME NEW n \in T PROVE n + 1 \in T
  <2>1. n \in Nat /\ (n <= N => I(n))
    BY <1>2
  <2>2. ASSUME n + 1 <= N PROVE I(n + 1)
    <3>1. n <= N /\ n + 1 \in 1..N /\ (n + 1) - 1 = n
      BY <2>1, <2>2
    <3>2. A[n + 1] = DropSoft(known, H, A[n])
      BY <3>1 DEF SortRounds
    <3> QED
      BY <2>1, <3>1, <3>2, RoundStep
  <2> QED
    BY <2>1, <2>2
<1>3. T = Nat
  <2> HIDE DEF I
  <2>1. T \in SUBSET Nat
    OBVIOUS
  <2> HIDE DEF T
  <2> QED
    BY <1>1, <1>2, <2>1, SetInduction
<1>4. \A n \in 0..N : I(n)
  <2> HIDE DEF I
  <2>1. \A n \in 0..N : n \in T /\ n <= N
    BY <1>3
  <2> QED
    BY <2>1
<1>5. \E m \in 0..N : StuckNodes(known, H \cup A[m]) = {}
  <2>1. RoundInv(known, H, F, N, A, N) /\ N \in 0..N
    BY <1>4
  <2>2. CASE Cardinality(A[N]) + N <= N
    <3>1. A[N] \in SUBSET F
      BY <2>1 DEF RoundInv
    <3>2. IsFiniteSet(A[N]) /\ Cardinality(A[N]) \in Nat
      BY <3>1, FS_Subset, FS_CardinalityType
    <3>3. Cardinality(A[N]) = 0
      BY <2>2, <3>2
    <3>4. A[N] = {}
      BY <3>2, <3>3, FS_EmptySet
    <3>5. H \cup A[N] = H
      BY <3>4
    <3> QED
      BY <2>1, <3>5
  <2> QED
    BY <2>1, <2>2 DEF RoundInv
<1> QED
  BY <1>4, <1>5 DEF RoundsHold

\* A list that has every node after what it depends on.
LEMMA OrderedEdges ==
    ASSUME NEW known \in SUBSET Nat, IsFiniteSet(known), NEW E \in SUBSET (known \X known),
           StuckNodes(known, E) = {}
    PROVE  /\ Len(Kahn(known, E)) = Cardinality(known) /\ ToSet(Kahn(known, E)) = known
           /\ \A e \in E : Before(Kahn(known, E), e[2], e[1])
<1> DEFINE o == Kahn(known, E)
<1>1. /\ o \in Seq(known) /\ Distinct(o)
      /\ \A i \in DOMAIN o : \A d \in DepsOfNode(E, o[i]) : \E j \in DOMAIN o : j < i /\ o[j] = d
  BY KahnEmits
<1>2. Len(o) = Cardinality(known)
  BY StuckWait
<1> HIDE DEF o
<1>3. ToSet(o) = known
  BY <1>1, <1>2, ListOfAll
<1>4. ASSUME NEW e \in E PROVE Before(o, e[2], e[1])
  <2>1. e[1] \in known /\ e[2] \in DepsOfNode(E, e[1])
    BY DEF DepsOfNode
  <2>2. PICK i \in DOMAIN o : o[i] = e[1]
    BY <2>1, <1>3 DEF ToSet
  <2>3. PICK j \in DOMAIN o : j < i /\ o[j] = e[2]
    BY <2>1, <2>2, <1>1
  <2> QED
    BY <2>2, <2>3 DEF Before
<1> QED
  BY <1>2, <1>3, <1>4 DEF o

\* An error comes with an empty list, and no other list names a node twice.
SortResult(known, r) ==
    \/ r.err = TRUE /\ r.order = <<>>
    \/ r.err = FALSE /\ r.order \in Seq(known) /\ Distinct(r.order)

\* toposort.Sort: for any finite graphs, an error exactly when the hard edges have
\* a cycle, and otherwise a start order.
LEMMA SortSound ==
    ASSUME NEW known \in SUBSET Nat, IsFiniteSet(known), NEW hard \in SUBSET (Nat \X Nat),
           NEW soft \in SUBSET (Nat \X Nat), IsFiniteSet(soft)
    PROVE  /\ IsStartOrder(Sort(known, hard, soft), known, hard, soft)
           /\ SortResult(known, Sort(known, hard, soft))
<1> DEFINE N == Cardinality(soft)
           H == EdgeSet(known, hard)
           F == EdgeSet(known, soft)
<1>1. PICK A : SortIs(known, hard, soft, A)
  BY SortReturns
<1> DEFINE done == RoundsDone(known, H, N, A)
           k == CHOOSE i \in done : \A j \in done : i <= j
           r == Sort(known, hard, soft)
<1>r. SortRounds(known, H, F, N, A)
  BY <1>1 DEF SortIs
<1>2. r = IF StuckNodes(known, H) # {} \/ done = {}
            THEN Cycle ELSE Ordered(Kahn(known, H \cup A[k]))
  BY <1>1 DEF SortIs
<1>3. /\ H \in SUBSET (known \X known) /\ F \in SUBSET (known \X known) /\ F \subseteq soft
      /\ N \in Nat
  BY EdgeSetType, FS_CardinalityType
<1>4. IsFiniteSet(F) /\ Cardinality(F) <= N
  BY <1>3, FS_Subset
<1>e. done = {n \in 0..N : Len(Kahn(known, H \cup A[n])) = Cardinality(known)}
  BY DEF RoundsDone
<1>f. done \in SUBSET (0..N)
  BY <1>e
<1>5. StuckNodes(known, H) = {n \in known : WaitsForCycle(known, H, n)}
  BY <1>3, StuckWait
<1>d. IsStartOrder(r, known, hard, soft) <=>
        IF \E n \in known : WaitsForCycle(known, H, n)
          THEN r.err
          ELSE /\ ~r.err
               /\ Len(r.order) = Cardinality(known)
               /\ ToSet(r.order) = known
               /\ \A e \in H : Before(r.order, e[2], e[1])
               /\ \A e \in F : WaitsForCycle(known, H \cup F, e[2]) \/ Before(r.order, e[2], e[1])
  BY DEF IsStartOrder
<1> HIDE DEF r, H, F, N, k, done
<1>6. CASE StuckNodes(known, H) # {}
  <2>1. r = Cycle
    BY <1>2, <1>6
  <2> QED
    <3>1. r.err = TRUE /\ r.order = <<>>
      BY <2>1 DEF Cycle
    <3>2. \E n \in known : WaitsForCycle(known, H, n)
      BY <1>5, <1>6
    <3>3. IsStartOrder(r, known, hard, soft)
      BY <3>1, <3>2, <1>d
    <3> QED
      BY <3>1, <3>3 DEF r, SortResult
<1>7. CASE StuckNodes(known, H) = {}
  <2>1. /\ \A n \in 0..N : RoundInv(known, H, F, N, A, n)
        /\ \E m \in 0..N : StuckNodes(known, H \cup A[m]) = {}
    <3>1. H \in SUBSET (known \X known) /\ F \in SUBSET (known \X known)
      BY <1>3
    <3>2. RoundsHold(known, H, F, N, A)
      BY <3>1, <1>r, <1>3, <1>4, <1>7, RoundsEnd
    <3> QED
      BY <3>2 DEF RoundsHold
  <2>2. \A n \in 0..N : A[n] \in SUBSET F /\ H \cup A[n] \in SUBSET (known \X known)
    BY <2>1, <1>3 DEF RoundInv
  <2>3. \A n \in 0..N : n \in done <=> StuckNodes(known, H \cup A[n]) = {}
    BY <1>e, <2>2, StuckWait
  <2>4. done # {} /\ done \in SUBSET Nat
    <3>1. done # {}
      BY <2>1, <2>3
    <3>2. done \in SUBSET Nat
      BY <1>3, <1>f
    <3> QED
      BY <3>1, <3>2
  <2>5. k \in done
    <3> HIDE DEF done
    <3>1. \E i \in done : \A j \in done : i <= j
      BY <2>4, LeastNumber
    <3> QED
      BY <3>1 DEF k
  <2>6. k \in 0..N /\ StuckNodes(known, H \cup A[k]) = {}
    BY <1>f, <2>3, <2>5
  <2> DEFINE o == Kahn(known, H \cup A[k])
  <2>7. r.err = FALSE /\ r.order = o
    BY <1>2, <1>7, <2>4 DEF Ordered
  <2>8. /\ Len(o) = Cardinality(known) /\ ToSet(o) = known
        /\ \A e \in H \cup A[k] : Before(o, e[2], e[1])
    BY <2>2, <2>6, OrderedEdges
  <2>o. o \in Seq(known) /\ Distinct(o)
    BY <2>2, <2>6, KahnEmits
  <2> HIDE DEF o
  <2>s. SortResult(known, r)
    BY <2>7, <2>o DEF SortResult
  <2>9. \A e \in F : WaitsForCycle(known, H \cup F, e[2]) \/ Before(o, e[2], e[1])
    BY <2>1, <2>6, <2>8 DEF RoundInv
  <2> QED
    BY <2>7, <2>8, <2>9, <2>s, <1>5, <1>7, <1>d DEF r
<1> QED
  BY <1>6, <1>7

-----------------------------------------------------------------------------

\* The edges that the agents declare are edges between agents, and finitely many.
LEMMA DeclaredEdges ==
    ASSUME NEW graph \in SUBSET (Agents \X Relations \X Agents), NEW known, NEW f, NEW r
    PROVE  /\ Edges(graph, known, f, r) \in SUBSET (Nat \X Nat)
           /\ IsFiniteSet(Edges(graph, known, f, r))
<1>1. IsFiniteSet(Agents \X Agents)
  BY AgentsAssumption, FS_Product
<1>2. Edges(graph, known, f, r) \in SUBSET (Agents \X Agents)
  BY DEF Edges
<1>3. Agents \X Agents \subseteq Nat \X Nat
  BY AgentsAssumption
<1> QED
  BY <1>1, <1>2, <1>3, FS_Subset

\* The table OrderOf answers what Sort answers.
LEMMA OrderIsSorted ==
    ASSUME NEW sc \in Scenes, NEW known \in SUBSET Agents
    PROVE  OrderOf[<<sc.graph, known>>] =
             Sort(known, Hard(sc.graph, known), Soft(sc.graph, known))
<1> DEFINE Q == {x.graph : x \in Scenes} \X SUBSET Agents
           S(q) == Sort(q[2], Hard(q[1], q[2]), Soft(q[1], q[2]))
           T == [q \in Q |-> S(q)]
           p == <<sc.graph, known>>
<1>1. p \in Q /\ S(p) = Sort(known, Hard(sc.graph, known), Soft(sc.graph, known))
  OBVIOUS
<1>2. OrderOf = T
  BY DEF OrderOf
<1> HIDE DEF S, Q, p
<1>3. T[p] = S(p)
  BY <1>1
<1> QED
  BY <1>1, <1>2, <1>3 DEF p

\* The declarations are those of an installation.
GraphKept == \E sc \in Scenes : scene.graph = sc.graph

\* What an installation declares never changes, only its budgets do.
LEMMA SceneKept ==
    ASSUME BootInv, [Next]_vars
    PROVE  scene'.graph = scene.graph /\ scene'.kind = scene.kind
<1>0. scene \in Scene
  BY DEF BootInv, BootShape
<1>1. CASE UNCHANGED scene
  BY <1>1
<1>2. CASE \/ scene' = [scene EXCEPT !.crashes = @ - 1]
           \/ scene' = [scene EXCEPT !.reloads = @ - 1]
           \/ scene' = [scene EXCEPT !.verbs = @ - 1]
  BY <1>0, <1>2 DEF Scene
<1>3. CASE Next
  <2>1. CASE SetupStep \/ StopAllStep \/ Shutdown
    <3>1. UNCHANGED scene
      BY <2>1 DEF SetupStep, Discover, SortAgents, SkipAgent, ArmAgent, StartAgent, AgentStarted,
                  SetupDone, StopAllStep, StopAgent, AgentStopped, Exit, Shutdown
    <3> QED
      BY <3>1, <1>1
  <2>2. CASE \E g \in Goroutines : CallStep(g)
    <3>1. UNCHANGED scene
      BY <2>2 DEF CallStep, StartStep, EnsureStarted, DependencyReturned, Spawn, SpawnFailed,
                  BecameRunning, StartTimedOut, FinishStop, CallDone
    <3> QED
      BY <3>1, <1>1
  <2>3. CASE Reload
    BY <2>3, <1>2 DEF Reload
  <2>4. CASE \E a \in Agents : VerbStart(a) \/ VerbStop(a)
    BY <2>4, <1>2 DEF VerbStart, VerbStop, Handle
  <2>5. CASE \E o \in Objects : Traffic(o)
    BY <2>5, <1>1 DEF Traffic
  <2>6. CASE \E o \in Objects : Crash(o)
    BY <2>6, <1>2 DEF Crash
  <2> QED
    BY <1>3, <2>1, <2>2, <2>3, <2>4, <2>5, <2>6 DEF Next, Step
<1> QED
  BY <1>1, <1>3 DEF vars

\* So its graph stays one of those installed.
LEMMA GraphStep == BootInv /\ GraphKept /\ [Next]_vars => GraphKept'
BY SceneKept DEF GraphKept

\* What the supervisor gets from the sort.
LEMMA OrderFacts ==
    ASSUME GraphKept
    PROVE  OrderSound /\ SortResult(Known, TopologicalSort)
<1>1. PICK sc \in Scenes : scene.graph = sc.graph
  BY DEF GraphKept
<1> DEFINE H == Hard(scene.graph, Known)
           S == Soft(scene.graph, Known)
<1>2. Known \in SUBSET Agents /\ Known \in SUBSET Nat /\ IsFiniteSet(Known)
  BY AgentsAssumption, FS_Subset DEF Known
<1>3. scene.graph \in SUBSET (Agents \X Relations \X Agents)
  BY <1>1, ScenesAssumption DEF Scene
<1>4. H \in SUBSET (Nat \X Nat) /\ S \in SUBSET (Nat \X Nat) /\ IsFiniteSet(S)
  BY <1>3, DeclaredEdges DEF Hard, Soft
<1>5. TopologicalSort = Sort(Known, H, S)
  BY <1>1, <1>2, OrderIsSorted DEF TopologicalSort
<1> HIDE DEF H, S
<1>6. IsStartOrder(Sort(Known, H, S), Known, H, S) /\ SortResult(Known, Sort(Known, H, S))
  BY <1>2, <1>4, SortSound
<1> QED
  BY <1>5, <1>6 DEF OrderSound, H, S

\* For any agents and declarations: the order that setupAgents and StopAll use is
\* refused exactly when the hard edges have a cycle, and otherwise has every
\* registered agent once, after what it depends on hard, and after what it
\* depends on softly unless that waits for a cycle.
THEOREM BootOrderSound == Spec => []OrderSound
<1>1. Init => GraphKept
  BY DEF Init, BootAt, GraphKept
<1>2. GraphKept => OrderSound
  BY OrderFacts
<1> QED
  BY <1>1, <1>2, BootInitInv, BootStepInv, GraphStep, PTL DEF Spec

-----------------------------------------------------------------------------
(* StopAll.  Every process is of an object that was constructed and whose  *)
(* controller is not at stopped; so once StopAll has passed an agent, and  *)
(* nobody else works, that agent has no process.                           *)

Built(o) == o \in Objects /\ o[2] <= cur[o[1]]

Objs(s) == {s[i].obj : i \in DOMAIN s}

ChildInv ==
    /\ \A o \in children \cup hooked \cup armed : Built(o)
    /\ \A g \in Goroutines : \A o \in Objs(stack[g]) : Built(o)
    /\ \A o \in children : sm[o] # "stopped"

\* The objects of a stack with one more frame, and with one less.
LEMMA ObjsOf ==
    ASSUME NEW s \in Seq(Frames)
    PROVE  /\ \A f \in Frames : Objs(Append(s, f)) = Objs(s) \cup {f.obj}
           /\ s # <<>> => /\ Objs(Front(s)) \subseteq Objs(s) /\ Last(s).obj \in Objs(s)
                          /\ Front(s) \in Seq(Frames) /\ Last(s) \in Frames
<1>1. ASSUME NEW f \in Frames PROVE Objs(Append(s, f)) = Objs(s) \cup {f.obj}
  <2> DEFINE t == Append(s, f)
  <2>1. /\ Len(s) \in Nat /\ DOMAIN s = 1..Len(s) /\ DOMAIN t = 1..(Len(s) + 1)
        /\ t[Len(s) + 1] = f /\ \A i \in 1..Len(s) : t[i] = s[i]
    OBVIOUS
  <2> HIDE DEF t
  <2>2. ASSUME NEW x \in Objs(t) PROVE x \in Objs(s) \cup {f.obj}
    <3>1. PICK i \in DOMAIN t : x = t[i].obj
      BY DEF Objs
    <3>2. CASE i = Len(s) + 1
      BY <3>1, <3>2, <2>1
    <3>3. CASE i \in 1..Len(s)
      BY <3>1, <3>3, <2>1 DEF Objs
    <3> QED
      BY <2>1, <3>2, <3>3
  <2>3. ASSUME NEW x \in Objs(s) PROVE x \in Objs(t)
    <3>1. PICK i \in DOMAIN s : x = s[i].obj
      BY DEF Objs
    <3>2. i \in DOMAIN t /\ t[i] = s[i]
      BY <2>1
    <3> QED
      BY <3>1, <3>2 DEF Objs
  <2>4. f.obj \in Objs(t)
    <3>1. Len(s) + 1 \in DOMAIN t
      BY <2>1
    <3> QED
      BY <3>1, <2>1 DEF Objs
  <2>5. Objs(t) = Objs(s) \cup {f.obj}
    BY <2>2, <2>3, <2>4
  <2> QED
    BY <2>5 DEF t
<1>2. ASSUME s # <<>>
      PROVE  /\ Objs(Front(s)) \subseteq Objs(s) /\ Last(s).obj \in Objs(s)
             /\ Front(s) \in Seq(Frames) /\ Last(s) \in Frames
  <2>1. /\ Len(s) \in Nat \ {0} /\ DOMAIN s = 1..Len(s)
        /\ Last(s) = s[Len(s)] /\ Last(s) \in Frames /\ Front(s) \in Seq(Frames)
        /\ DOMAIN Front(s) = 1..(Len(s) - 1)
        /\ \A i \in 1..(Len(s) - 1) : Front(s)[i] = s[i]
    BY <1>2, FrontOf
  <2>2. Len(s) \in DOMAIN s /\ \A i \in DOMAIN Front(s) : i \in DOMAIN s
    BY <2>1
  <2> QED
    BY <2>1, <2>2 DEF Objs
<1> QED
  BY <1>1, <1>2

\* The starts a goroutine is inside of after EnterStart.
LEMMA EnteredObjs ==
    ASSUME BootShape, NEW g \in Goroutines, NEW frames \in Seq(Frames), NEW o \in Objects,
           EnterStart(g, frames, o)
    PROVE  \A h \in Goroutines :
             Objs(stack'[h]) \subseteq Objs(stack[h]) \cup Objs(frames) \cup {o}
<1>1. Frame(o) \in Frames /\ Frame(o).obj = o
  BY FrameType DEF BootShape
<1>2. Objs(Append(frames, Frame(o))) = Objs(frames) \cup {o}
  BY <1>1, ObjsOf
<1>3. \E s \in {frames, Append(frames, Frame(o))} : stack' = [stack EXCEPT ![g] = s]
  BY DEF EnterStart
<1> HIDE DEF Objs
<1> QED
  BY <1>2, <1>3 DEF BootShape

News == {Latest(a) : a \in Known}

\* What a step may add: what the manager's map holds, and what is on a stack.
Adds ==
    /\ \A a \in Agents : cur'[a] >= cur[a]
    /\ hooked' \subseteq hooked \cup News
    /\ armed' \subseteq armed \cup hooked \cup News
    /\ \A g \in Goroutines : Objs(stack'[g]) \subseteq Objs(stack[g]) \cup armed \cup News
    /\ \A o \in children' : o \in children \/ \E g \in Goroutines : o \in Objs(stack[g])

\* A step that leaves the map, the sockets and the stacks alone adds nothing.
LEMMA AddsNone ==
    ASSUME BootShape, UNCHANGED <<cur, hooked, armed, stack>>, children' \subseteq children
    PROVE  Adds
<1>1. \A a \in Agents : cur[a] \in Nat
  BY BoundsAssumption DEF BootShape
<1> HIDE DEF Objs
<1> QED
  BY <1>1 DEF Adds

\* setupAgents.
LEMMA SetupAdds == ASSUME BootInv, SetupStep PROVE Adds
<1>0. BootShape /\ \A a \in Agents : cur[a] \in Nat
  BY BoundsAssumption DEF BootInv, BootShape
<1>1. CASE SortAgents \/ SkipAgent \/ AgentStarted \/ SetupDone
  <2>1. UNCHANGED <<cur, hooked, armed, stack, children>>
    BY <1>1 DEF SortAgents, SkipAgent, AgentStarted, SetupDone, objVars, callVars
  <2> QED
    BY <1>0, <2>1, AddsNone
<1>2. CASE Discover
  <2>1. UNCHANGED <<hooked, armed, stack, children>>
    BY <1>2 DEF Discover, callVars
  <2>2. \A a \in Agents : cur'[a] >= cur[a]
    BY <1>0, <1>2 DEF Discover, BootShape
  <2> HIDE DEF Objs
  <2> QED
    BY <2>1, <2>2 DEF Adds
<1>3. CASE ArmAgent
  <2> DEFINE o == Latest(Head(setup.todo))
  <2>1. /\ UNCHANGED <<cur, stack, children>> /\ o \in News
        /\ hooked' = hooked \cup {o}
        /\ armed' \subseteq armed \cup {o}
    BY <1>3 DEF ArmAgent, Arm, Startable, News, callVars
  <2> HIDE DEF o, Objs, News
  <2> QED
    BY <1>0, <2>1 DEF Adds
<1>4. CASE StartAgent
  <2> DEFINE a == Head(setup.todo)
  <2>1. UNCHANGED <<cur, hooked, armed, children>> /\ a \in Known /\ EnterStart(SetupBy, <<>>, Latest(a))
    BY <1>4 DEF StartAgent, Startable
  <2>2. Latest(a) \in Objects /\ Latest(a) \in News
    BY <1>0, <2>1, LatestType DEF News
  <2>3. SetupBy \in Goroutines /\ <<>> \in Seq(Frames) /\ Objs(<<>>) = {}
    BY DEF SetupBy, Goroutines, Objs
  <2> HIDE DEF a, Objs, News
  <2>4. \A h \in Goroutines : Objs(stack'[h]) \subseteq Objs(stack[h]) \cup {Latest(a)}
    BY <1>0, <2>1, <2>2, <2>3, EnteredObjs
  <2> QED
    BY <1>0, <2>1, <2>2, <2>4 DEF Adds
<1> QED
  BY <1>1, <1>2, <1>3, <1>4 DEF SetupStep

\* Verbs and traffic.
LEMMA CallersAdd ==
    ASSUME BootInv, \/ \E a \in Agents : VerbStart(a) \/ VerbStop(a)
                    \/ \E o \in Objects : Traffic(o) \/ Crash(o)
    PROVE  Adds
<1>0. BootShape /\ \A a \in Agents : cur[a] \in Nat
  BY BoundsAssumption DEF BootInv, BootShape
<1>e. <<>> \in Seq(Frames) /\ Objs(<<>>) = {}
  BY DEF Objs
<1>1. CASE \E a \in Agents : VerbStart(a)
  <2>1. PICK a \in Agents : VerbStart(a)
    BY <1>1
  <2>2. UNCHANGED <<cur, hooked, armed, children>> /\ a \in Known /\ EnterStart(Handler, <<>>, Latest(a))
    BY <2>1 DEF VerbStart, Handle
  <2>3. Latest(a) \in Objects /\ Latest(a) \in News /\ Handler \in Goroutines
    BY <1>0, <2>2, LatestType DEF News, Goroutines
  <2> HIDE DEF Objs, News
  <2>4. \A h \in Goroutines : Objs(stack'[h]) \subseteq Objs(stack[h]) \cup {Latest(a)}
    BY <1>0, <1>e, <2>2, <2>3, EnteredObjs
  <2> QED
    BY <1>0, <2>2, <2>3, <2>4 DEF Adds
<1>2. CASE \E o \in Objects : Traffic(o)
  <2>1. PICK o \in Objects : Traffic(o)
    BY <1>2
  <2>2. /\ UNCHANGED <<cur, hooked, children>> /\ o \in armed /\ armed' \subseteq armed
        /\ EnterStart(o, <<>>, o) /\ o \in Goroutines
    BY <2>1 DEF Traffic, Goroutines
  <2> HIDE DEF Objs, News
  <2>4. \A h \in Goroutines : Objs(stack'[h]) \subseteq Objs(stack[h]) \cup {o}
    BY <1>0, <1>e, <2>2, EnteredObjs
  <2> QED
    BY <1>0, <2>2, <2>4 DEF Adds
<1>3. CASE (\E a \in Agents : VerbStop(a)) \/ \E o \in Objects : Crash(o)
  <2>1. UNCHANGED <<cur, hooked, armed, stack>> /\ children' \subseteq children
    BY <1>3 DEF VerbStop, Crash, callVars
  <2> QED
    BY <1>0, <2>1, AddsNone
<1> QED
  BY <1>1, <1>2, <1>3

\* The innermost start of a goroutine goes on with another frame, or returns.
LEMMA TopObjs ==
    ASSUME BootShape, NEW g \in Goroutines, Inside(g)
    PROVE  /\ Top(g) \in Frames /\ Top(g).obj \in Objs(stack[g])
           /\ Front(stack[g]) \in Seq(Frames) /\ Objs(Front(stack[g])) \subseteq Objs(stack[g])
           /\ \A f \in Frames : f.obj = Top(g).obj =>
                /\ Append(Front(stack[g]), f) \in Seq(Frames)
                /\ Objs(Append(Front(stack[g]), f)) \subseteq Objs(stack[g])
<1>1. stack[g] \in Seq(Frames) /\ stack[g] # <<>>
  BY DEF BootShape, Inside
<1> DEFINE r == Front(stack[g])
<1>2. /\ Objs(r) \subseteq Objs(stack[g]) /\ Last(stack[g]).obj \in Objs(stack[g])
      /\ r \in Seq(Frames) /\ Last(stack[g]) \in Frames
  BY <1>1, ObjsOf
<1> HIDE DEF r
<1>3. ASSUME NEW f \in Frames, f.obj = Top(g).obj
      PROVE  Append(r, f) \in Seq(Frames) /\ Objs(Append(r, f)) \subseteq Objs(stack[g])
  <2>1. Objs(Append(r, f)) = Objs(r) \cup {f.obj}
    BY <1>2, ObjsOf
  <2> QED
    BY <1>2, <1>3, <2>1 DEF Top
<1> QED
  BY <1>2, <1>3 DEF r, Top

\* A step of a goroutine inside of a start.
LEMMA StartAdds == ASSUME BootInv, NEW g \in Goroutines, StartStep(g) PROVE Adds
<1>0. BootShape /\ \A a \in Agents : cur[a] \in Nat
  BY BoundsAssumption DEF BootInv, BootShape
<1>i. Inside(g)
  BY DEF StartStep, EnsureStarted, DependencyReturned, Spawn, SpawnFailed, BecameRunning,
         StartTimedOut, AtSpawn
<1>t. /\ Top(g) \in Frames /\ Top(g).obj \in Objs(stack[g])
      /\ Front(stack[g]) \in Seq(Frames) /\ Objs(Front(stack[g])) \subseteq Objs(stack[g])
      /\ \A f \in Frames : f.obj = Top(g).obj =>
           /\ Append(Front(stack[g]), f) \in Seq(Frames)
           /\ Objs(Append(Front(stack[g]), f)) \subseteq Objs(stack[g])
  BY <1>0, <1>i, TopObjs
<1>c. /\ UNCHANGED <<cur, hooked>> /\ armed' \subseteq armed
      /\ children' \subseteq children \cup {Top(g).obj}
  BY DEF StartStep, EnsureStarted, DependencyReturned, Spawn, SpawnFailed, BecameRunning,
         StartTimedOut
<1>f. /\ \A d \in Agents : /\ [Top(g) EXCEPT !.dep = d] \in Frames
                           /\ [Top(g) EXCEPT !.dep = d].obj = Top(g).obj
      /\ \A p \in {"await", "stale"} : /\ [Top(g) EXCEPT !.pc = p] \in Frames
                                       /\ [Top(g) EXCEPT !.pc = p].obj = Top(g).obj
      /\ \A x : /\ [Top(g) EXCEPT !.hard = @ \ {x}, !.dep = 0] \in Frames
                /\ [Top(g) EXCEPT !.hard = @ \ {x}, !.dep = 0].obj = Top(g).obj
                /\ [Top(g) EXCEPT !.soft = @ \ {x}, !.dep = 0] \in Frames
                /\ [Top(g) EXCEPT !.soft = @ \ {x}, !.dep = 0].obj = Top(g).obj
  BY <1>t DEF Frames
<1>1. ASSUME NEW s, stack' = [stack EXCEPT ![g] = s], Objs(s) \subseteq Objs(stack[g])
      PROVE  \A h \in Goroutines : Objs(stack'[h]) \subseteq Objs(stack[h]) \cup News
  <2> HIDE DEF Objs, News
  <2> QED
    BY <1>0, <1>1 DEF BootShape
<1>2. \A h \in Goroutines : Objs(stack'[h]) \subseteq Objs(stack[h]) \cup News
  <2>1. CASE EnsureStarted(g)
    <3>1. PICK d \in IF Top(g).hard # {} THEN Top(g).hard ELSE Top(g).soft :
            LET f == [Top(g) EXCEPT !.dep = d]
            IN  IF d \in Known
                  THEN EnterStart(g, Append(Front(stack[g]), f), Latest(d))
                  ELSE SetTop(g, f)
      BY <2>1 DEF EnsureStarted
    <3>2. d \in Agents
      BY <1>t DEF Frames
    <3> DEFINE f == [Top(g) EXCEPT !.dep = d]
    <3>3. f \in Frames /\ f.obj = Top(g).obj
      BY <1>f, <3>2
    <3>4. IF d \in Known THEN EnterStart(g, Append(Front(stack[g]), f), Latest(d)) ELSE SetTop(g, f)
      BY <3>1
    <3> HIDE DEF f
    <3>5. Append(Front(stack[g]), f) \in Seq(Frames) /\ Objs(Append(Front(stack[g]), f)) \subseteq Objs(stack[g])
      BY <1>t, <3>3
    <3>6. CASE d \in Known
      <4>1. Latest(d) \in Objects /\ Latest(d) \in News
        BY <1>0, <3>6, LatestType DEF News
      <4> DEFINE fr == Append(Front(stack[g]), f)
      <4>e. EnterStart(g, fr, Latest(d)) /\ fr \in Seq(Frames)
        BY <3>4, <3>5, <3>6
      <4>2. \A h \in Goroutines : Objs(stack'[h]) \subseteq Objs(stack[h]) \cup Objs(fr) \cup {Latest(d)}
        <5> HIDE DEF fr
        <5> QED
          BY <1>0, <4>e, <4>1, EnteredObjs
      <4>3. \A h \in Goroutines : h # g => stack'[h] = stack[h]
        BY <1>0, <3>4, <3>6 DEF EnterStart, BootShape
      <4> HIDE DEF Objs, News
      <4> QED
        BY <4>1, <4>2, <4>3, <3>5
    <3>7. CASE d \notin Known
      BY <3>4, <3>5, <3>7, <1>1 DEF SetTop
    <3> QED
      BY <3>6, <3>7
  <2>2. CASE \E res : LeaveStart(g, res)
    BY <2>2, <1>t, <1>1 DEF LeaveStart
  <2>3. CASE DependencyReturned(g) /\ ~\E res : LeaveStart(g, res)
    <3>1. \E f \in Frames : f.obj = Top(g).obj /\ stack' = [stack EXCEPT ![g] = Append(Front(stack[g]), f)]
      BY <2>3, <1>f DEF DependencyReturned, SetTop
    <3> QED
      BY <3>1, <1>t, <1>1
  <2>4. CASE Spawn(g) /\ ~\E res : LeaveStart(g, res)
    <3>1. \E f \in Frames : f.obj = Top(g).obj /\ stack' = [stack EXCEPT ![g] = Append(Front(stack[g]), f)]
      BY <2>4, <1>f DEF Spawn, SetTop
    <3> QED
      BY <3>1, <1>t, <1>1
  <2>5. SpawnFailed(g) \/ BecameRunning(g) \/ StartTimedOut(g) => \E res : LeaveStart(g, res)
    BY DEF SpawnFailed, BecameRunning, StartTimedOut
  <2> QED
    BY <2>1, <2>2, <2>3, <2>4, <2>5 DEF StartStep
<1>3. \A a \in Agents : cur'[a] >= cur[a]
  BY <1>0, <1>c
<1> HIDE DEF Objs, News
<1> QED
  BY <1>2, <1>3, <1>c, <1>t DEF Adds

\* Every step.
LEMMA StepAdds == ASSUME BootInv, [Next]_vars PROVE Adds
<1>0. BootShape
  BY DEF BootInv
<1>1. CASE StopAllStep \/ Reload \/ Shutdown \/ UNCHANGED vars \/ \E g \in Goroutines : CallDone(g)
  <2>1. UNCHANGED <<cur, hooked, armed, stack, children>>
    BY <1>1 DEF StopAllStep, StopAgent, AgentStopped, Exit, Reload, Shutdown, CallDone, vars,
                objVars, callVars
  <2> QED
    BY <1>0, <2>1, AddsNone
<1>2. CASE \E g \in Goroutines : FinishStop(g)
  <2>1. UNCHANGED <<cur, hooked, stack>> /\ children' \subseteq children /\ armed' \subseteq armed \cup hooked
    BY <1>2 DEF FinishStop
  <2>2. \A a \in Agents : cur'[a] >= cur[a]
    BY <1>0, <2>1, BoundsAssumption DEF BootShape
  <2> HIDE DEF Objs, News
  <2> QED
    BY <2>1, <2>2 DEF Adds
<1> QED
  BY <1>1, <1>2, SetupAdds, CallersAdd, StartAdds DEF Next, Step, CallStep

\* A process is of an object that was built and is not at stopped.
LEMMA ChildStep == ASSUME BootInv, ChildInv, [Next]_vars PROVE ChildInv'
<1>0. BootShape /\ BootShape' /\ Adds
  BY BootStepInv, StepAdds DEF BootInv
<1>1. \A o : Built(o) => Built(o)'
  BY <1>0, BoundsAssumption DEF Built, Adds, BootShape, Objects, Gens
<1>2. \A o \in News : Built(o)
  <2> SUFFICES ASSUME NEW a \in Known PROVE Built(Latest(a))
    BY DEF News
  <2>1. Latest(a) \in Objects /\ cur[a] \in Nat /\ a \in Agents
    BY <1>0, LatestType, BoundsAssumption DEF BootShape
  <2> QED
    BY <2>1 DEF Built, Latest
<1>3. \A g \in Goroutines : \A o \in Objs(stack[g]) : Built(o)
  BY DEF ChildInv
<1>4. \A o \in children' \cup hooked' \cup armed' : Built(o)'
  <2> HIDE DEF Objs, News, Built
  <2> QED
    BY <1>0, <1>1, <1>2, <1>3 DEF ChildInv, Adds
<1>5. \A g \in Goroutines : \A o \in Objs(stack'[g]) : Built(o)'
  <2> HIDE DEF Objs, News, Built
  <2> QED
    BY <1>0, <1>1, <1>2, <1>3 DEF ChildInv, Adds
<1>6. ASSUME NEW o \in children' PROVE sm'[o] # "stopped"
  <2>0. o \in Objects /\ sm \in [Objects -> States] /\ (o \in children => sm[o] # "stopped")
    BY <1>0, <1>4 DEF Built, ChildInv, BootShape
  <2>1. CASE UNCHANGED sm /\ children' \subseteq children
    BY <2>0, <2>1
  <2>2. CASE \E g \in Goroutines : Spawn(g)
    <3>1. PICK g \in Goroutines : Spawn(g)
      BY <2>2
    <3>2. children' = children \cup {Top(g).obj} /\ TransitionTo(Top(g).obj, "starting")
      BY <3>1 DEF Spawn
    <3> QED
      BY <3>2, <2>0 DEF TransitionTo, Allowed
  <2>3. CASE \E x, to : TransitionTo(x, to) /\ to # "stopped" /\ children' = children
    BY <2>3, <2>0 DEF TransitionTo
  <2>4. CASE \E x : sm' = [sm EXCEPT ![x] = "stopping"] /\ children' = children
    BY <2>4, <2>0
  <2>5. CASE \E g \in Goroutines : FinishStop(g)
    <3>1. PICK g \in Goroutines : FinishStop(g)
      BY <2>5
    <3>2. children' = children \ {halting[g]} /\ TransitionTo(halting[g], "stopped")
      BY <3>1 DEF FinishStop
    <3> QED
      BY <3>2, <2>0 DEF TransitionTo
  <2>6. CASE \E g \in Goroutines : SpawnFailed(g) \/ BecameRunning(g) \/ StartTimedOut(g)
    <3>1. \E x, to : TransitionTo(x, to) /\ to # "stopped" /\ children' = children
      BY <2>6 DEF SpawnFailed, BecameRunning, StartTimedOut
    <3> QED
      BY <3>1, <2>3
  <2>7. CASE StopAgent \/ \E a \in Agents : VerbStop(a)
    <3>1. \/ \E x : sm' = [sm EXCEPT ![x] = "stopping"] /\ children' = children
          \/ UNCHANGED <<sm, children>>
      BY <2>7 DEF StopAgent, VerbStop, EnterStop
    <3> QED
      BY <3>1, <2>1, <2>4
  <2>8. CASE SetupStep \/ AgentStopped \/ Exit \/ Reload \/ Shutdown \/ UNCHANGED vars
    BY <2>8, <2>1 DEF SetupStep, Discover, SortAgents, SkipAgent, ArmAgent, StartAgent, AgentStarted,
           SetupDone, AgentStopped, Exit, Reload, Shutdown, vars, objVars
  <2>9. CASE \E g \in Goroutines : EnsureStarted(g) \/ DependencyReturned(g) \/ CallDone(g)
    BY <2>9, <2>1 DEF EnsureStarted, DependencyReturned, CallDone, objVars
  <2>10. CASE (\E a \in Agents : VerbStart(a)) \/ \E x \in Objects : Traffic(x) \/ Crash(x)
    BY <2>10, <2>1 DEF VerbStart, Traffic, Crash
  <2> QED
    BY <2>2, <2>5, <2>6, <2>7, <2>8, <2>9, <2>10 DEF Next, Step, StopAllStep, CallStep, StartStep
<1> QED
  BY <1>4, <1>5, <1>6 DEF ChildInv

-----------------------------------------------------------------------------

DownEdges == EdgeSet(Known, Hard(scene.graph, Known))

\* While StopAll works alone: whoever has a process is still on its list, and
\* before everything it depends on hard; the agent being stopped is the first.
DownInv ==
    /\ down = [todo |-> down.todo, err |-> down.err] /\ down.err \in BOOLEAN
    /\ down.todo \in Seq(Agents)
    /\ phase = "stopping" /\ (ret[Main] # "none" \/ halting[Main] # NoObject) => down.todo # <<>>
    /\ phase = "stopping" /\ halting[Main] # NoObject => ret[Main] = "none"
    /\ phase \in {"stopping", "exited"} /\ ~overlap =>
         /\ down.err => down.todo = <<>>
         /\ ~down.err => \A a \in Known :
              Latest(a) \in children => \E i \in DOMAIN down.todo : down.todo[i] = a
         /\ \A e \in DownEdges : \A i \in DOMAIN down.todo :
              down.todo[i] = e[2] /\ Latest(e[1]) \in children =>
                \E j \in DOMAIN down.todo : j < i /\ down.todo[j] = e[1]
         /\ phase = "stopping" /\ halting[Main] # NoObject =>
              halting[Main] = Latest(Head(down.todo))
         /\ phase = "stopping" /\ ret[Main] = "ok" => Latest(Head(down.todo)) \notin children
         /\ phase = "exited" => down.todo = <<>>

\* While StopAll works alone nobody else does, and setupAgents is over.
LEMMA OnlyMain ==
    ASSUME BootInv, phase = "stopping", ~overlap
    PROVE  /\ Main \in Goroutines /\ Busy(Main) /\ ~Inside(Main) /\ setup.pc = "idle"
           /\ \A g \in Goroutines : Busy(g) => g = Main
<1>1. Main \in Goroutines /\ Reloader \in Goroutines /\ Main # Reloader
  BY GoroutinesAssumption DEF Goroutines
<1>2. Busy(Main)
  BY DEF Busy
<1>3. \A g \in Goroutines : Busy(g) => g = Main
  BY <1>1, <1>2 DEF BootInv, OneBusy
<1>4. setup.pc # "idle" => Busy(Reloader)
  BY DEF Busy
<1> QED
  BY <1>1, <1>2, <1>3, <1>4 DEF BootInv, PlaceInv

\* Shutdown: the list is the order of the starts, from its end.
LEMMA ShutdownStep ==
    ASSUME BootInv, ChildInv, DownInv, GraphKept, Shutdown PROVE DownInv'
<1> DEFINE r == TopologicalSort
           t == StopOrder(r.order)
<1>1. /\ down' = [todo |-> t, err |-> r.err] /\ phase' = "stopping" /\ Began
      /\ UNCHANGED <<scene, cur, children, halting, ret>>
  BY DEF Shutdown, objVars, callVars
<1>2. OrderSound /\ SortResult(Known, r)
  BY OrderFacts
<1>3. Known \subseteq Agents
  BY DEF Known
<1>4. UNCHANGED <<Known, DownEdges>> /\ \A a \in Agents : Latest(a)' = Latest(a)
  BY <1>1 DEF Known, DownEdges, Latest, Hard
<1>5. CASE r.err = TRUE /\ r.order = <<>>
  <2>1. t = <<>>
    BY <1>5 DEF StopOrder, Reverse
  <2>2. halting[Main] = NoObject /\ ret[Main] = "none"
    BY DEF Shutdown, BootInv, PlaceInv
  <2>3. down'.todo = <<>> /\ down'.err = TRUE /\ down' = [todo |-> down'.todo, err |-> down'.err]
    BY <1>1, <1>5, <2>1
  <2>4. down'.todo \in Seq(Agents) /\ DOMAIN down'.todo = {}
    BY <2>3
  <2> HIDE DEF t, r
  <2> QED
    BY <1>1, <2>2, <2>3, <2>4 DEF DownInv
<1>6. CASE r.err = FALSE /\ r.order \in Seq(Known) /\ Distinct(r.order)
  <2> DEFINE o == r.order
             n == Len(o)
  <2>1. /\ ToSet(o) = Known
        /\ \A e \in DownEdges : Before(o, e[2], e[1])
    BY <1>2, <1>6 DEF OrderSound, IsStartOrder, DownEdges
  <2>2. n \in Nat /\ DOMAIN o = 1..n /\ o \in Seq(Known) /\ Distinct(o)
    BY <1>6
  <2>3. t = [i \in 1..n |-> o[(n - i) + 1]]
    BY DEF StopOrder, Reverse
  <2> HIDE DEF o, n
  <2>4. /\ t \in Seq(Agents) /\ DOMAIN t = 1..n
        /\ \A i \in 1..n : (n - i) + 1 \in 1..n /\ t[i] = o[(n - i) + 1] /\ t[(n - i) + 1] = o[i]
    <3>1. \A i \in 1..n : (n - i) + 1 \in 1..n /\ (n - ((n - i) + 1)) + 1 = i
      BY <2>2
    <3>2. \A i \in 1..n : t[i] = o[(n - i) + 1] /\ t[(n - i) + 1] = o[i]
      BY <2>3, <3>1
    <3>3. t \in [1..n -> Agents]
      BY <2>2, <2>3, <3>1, <1>3
    <3> QED
      BY <2>2, <2>3, <3>1, <3>2, <3>3
  <2> HIDE DEF t
  <2>5. \A a \in Known : \E i \in DOMAIN t : t[i] = a
    <3> SUFFICES ASSUME NEW a \in Known PROVE \E i \in DOMAIN t : t[i] = a
      OBVIOUS
    <3>1. PICK i \in DOMAIN o : o[i] = a
      BY <2>1 DEF ToSet
    <3> QED
      BY <3>1, <2>2, <2>4
  <2>6. ASSUME NEW e \in DownEdges, NEW i \in DOMAIN t, t[i] = e[2]
        PROVE  \E j \in DOMAIN t : j < i /\ t[j] = e[1]
    <3>1. PICK x \in DOMAIN o, y \in DOMAIN o : x < y /\ o[x] = e[2] /\ o[y] = e[1]
      BY <2>1 DEF Before
    <3>2. (n - i) + 1 \in 1..n /\ o[(n - i) + 1] = e[2]
      BY <2>4, <2>6
    <3>3. (n - i) + 1 = x
      BY <3>1, <3>2, <2>2 DEF Distinct
    <3>4. (n - y) + 1 \in 1..n /\ t[(n - y) + 1] = e[1]
      BY <3>1, <2>2, <2>4
    <3>5. (n - y) + 1 < i
      BY <3>1, <3>3, <2>2, <2>4
    <3> QED
      BY <3>4, <3>5, <2>4
  <2>7. halting[Main] = NoObject /\ ret[Main] = "none"
    BY DEF Shutdown, BootInv, PlaceInv
  <2>8. down'.todo = t /\ down'.err = FALSE /\ down' = [todo |-> down'.todo, err |-> down'.err]
    BY <1>1, <1>6
  <2> HIDE DEF r
  <2> QED
    BY <1>1, <1>4, <2>4, <2>5, <2>6, <2>7, <2>8 DEF DownInv
<1> QED
  BY <1>2, <1>5, <1>6 DEF SortResult

\* A step that leaves StopAll alone.
LEMMA DownFrame ==
    ASSUME DownInv, UNCHANGED <<down, phase, halting[Main], ret[Main]>>,
           ~overlap' => /\ ~overlap /\ UNCHANGED cur /\ scene'.graph = scene.graph
                        /\ children' \subseteq children
    PROVE  DownInv'
<1>1. CASE ~overlap'
  <2>1. UNCHANGED <<Known, DownEdges>> /\ \A a : Latest(a)' = Latest(a)
    BY <1>1 DEF Known, DownEdges, Latest, Hard
  <2> QED
    BY <1>1, <2>1 DEF DownInv
<1>2. CASE overlap'
  BY <1>2 DEF DownInv
<1> QED
  BY <1>1, <1>2

\* A step before StopAll.
LEMMA DownAway ==
    ASSUME DownInv, UNCHANGED down, phase' \notin {"stopping", "exited"}
    PROVE  DownInv'
BY DEF DownInv

\* The first agent of the list is stopped, or was.
LEMMA StopAgentStep == ASSUME BootInv, ChildInv, DownInv, StopAgent PROVE DownInv'
<1> DEFINE o == Latest(Head(down.todo))
<1>1. /\ phase = "stopping" /\ down.todo # <<>> /\ Idle(Main) /\ EnterStop(Main, o)
      /\ UNCHANGED <<scene, cur, children, down, phase, overlap>>
  BY DEF StopAgent, runVars, histVars
<1>2. UNCHANGED <<Known, DownEdges>> /\ \A a : Latest(a)' = Latest(a)
  BY <1>1 DEF Known, DownEdges, Latest, Hard
<1>3. Main \in Goroutines /\ ret \in [Goroutines -> {"none", "ok", "err"}]
      /\ halting = [g \in Goroutines |-> halting[g]] /\ ret[Main] = "none" /\ halting[Main] = NoObject
  BY <1>1 DEF BootInv, BootShape, Goroutines, Idle
<1>4. /\ halting'[Main] = NoObject \/ (halting'[Main] = o /\ ret'[Main] = "none")
      /\ ret'[Main] = "ok" => o \notin children
  <2>1. CASE halting' = [halting EXCEPT ![Main] = o] /\ ret' = ret
    BY <2>1, <1>3
  <2>2. CASE /\ halting' = halting
             /\ ret' = [ret EXCEPT ![Main] = IF NothingToStop(o) THEN "ok" ELSE "err"]
    BY <2>2, <1>3 DEF NothingToStop, ChildInv
  <2> QED
    BY <1>1, <2>1, <2>2 DEF EnterStop
<1> QED
  BY <1>1, <1>2, <1>4 DEF DownInv

\* The first agent of the list is dropped: it has no process.
LEMMA AgentStoppedStep == ASSUME BootInv, DownInv, AgentStopped PROVE DownInv'
<1> DEFINE s == down.todo
<1>1. /\ phase = "stopping" /\ Returned(Main)
      /\ down' = IF ret[Main] = "ok" THEN [down EXCEPT !.todo = Tail(@)]
                                     ELSE [todo |-> <<>>, err |-> TRUE]
      /\ ret' = [ret EXCEPT ![Main] = "none"]
      /\ UNCHANGED <<scene, cur, children, halting, phase, overlap>>
  BY DEF AgentStopped, objVars, histVars
<1>2. UNCHANGED <<Known, DownEdges>> /\ \A a : Latest(a)' = Latest(a)
  BY <1>1 DEF Known, DownEdges, Latest, Hard
<1>3. ret'[Main] = "none"
  BY <1>1 DEF BootInv, BootShape, Goroutines
<1>h. halting[Main] = NoObject /\ s # <<>>
  BY <1>1 DEF DownInv, Returned
<1>4. CASE ret[Main] # "ok"
  <2>1. down'.todo = <<>> /\ down'.err = TRUE /\ down' = [todo |-> down'.todo, err |-> down'.err]
    BY <1>1, <1>4
  <2>2. down'.todo \in Seq(Agents) /\ DOMAIN down'.todo = {}
    BY <2>1
  <2> QED
    BY <1>1, <1>2, <1>3, <1>h, <2>1, <2>2 DEF DownInv
<1>5. CASE ret[Main] = "ok"
  <2>1. s \in Seq(Agents) /\ down = [todo |-> s, err |-> down.err] /\ down.err \in BOOLEAN
    BY DEF DownInv
  <2>2. down'.todo = Tail(s) /\ down'.err = down.err /\ down' = [todo |-> down'.todo, err |-> down'.err]
    BY <1>1, <1>5, <2>1
  <2>3. /\ Len(s) \in Nat \ {0} /\ DOMAIN s = 1..Len(s) /\ Tail(s) \in Seq(Agents)
        /\ DOMAIN Tail(s) = 1..(Len(s) - 1) /\ Head(s) = s[1]
        /\ \A i \in 1..(Len(s) - 1) : Tail(s)[i] = s[i + 1]
    BY <2>1, <1>h, EmptySeq, HeadTailProperties
  <2> DEFINE t == Tail(s)
  <2> HIDE DEF s, t
  <2>4. ASSUME ~overlap, ~down.err, NEW a \in Known, Latest(a) \in children
        PROVE  \E i \in DOMAIN t : t[i] = a
    <3>1. PICK i \in DOMAIN s : s[i] = a
      BY <1>1, <2>4 DEF DownInv, s
    <3>2. Latest(Head(s)) \notin children
      BY <1>1, <1>5, <2>4 DEF DownInv, s
    <3>3. i # 1
      BY <3>1, <3>2, <2>3, <2>4
    <3>4. i - 1 \in 1..(Len(s) - 1) /\ (i - 1) + 1 = i
      BY <3>1, <3>3, <2>3
    <3> QED
      BY <3>1, <3>4, <2>3 DEF t
  <2>5. ASSUME ~overlap, NEW e \in DownEdges, NEW i \in DOMAIN t, t[i] = e[2], Latest(e[1]) \in children
        PROVE  \E j \in DOMAIN t : j < i /\ t[j] = e[1]
    <3>1. i + 1 \in DOMAIN s /\ s[i + 1] = e[2] /\ i \in Nat
      BY <2>3, <2>5 DEF t
    <3>2. PICK j \in DOMAIN s : j < i + 1 /\ s[j] = e[1]
      BY <1>1, <2>5, <3>1 DEF DownInv, s
    <3>3. Latest(Head(s)) \notin children
      BY <1>1, <1>5, <2>5 DEF DownInv, s
    <3>4. j # 1
      BY <3>2, <3>3, <2>3, <2>5
    <3>5. j - 1 \in 1..(Len(s) - 1) /\ (j - 1) + 1 = j /\ j - 1 < i
      BY <3>1, <3>2, <3>4, <2>3
    <3> QED
      BY <3>2, <3>5, <2>3 DEF t
  <2>6. ~overlap => ~down.err
    BY <1>1, <1>h DEF DownInv, s
  <2>7. down'.todo = t /\ t \in Seq(Agents)
    BY <2>2, <2>3 DEF t
  <2>8. ~overlap' =>
          /\ ~down'.err
          /\ \A a \in Known' : Latest(a)' \in children' => \E i \in DOMAIN t : t[i] = a
          /\ \A e \in DownEdges' : \A i \in DOMAIN t :
               t[i] = e[2] /\ Latest(e[1])' \in children' => \E j \in DOMAIN t : j < i /\ t[j] = e[1]
    BY <1>1, <1>2, <2>2, <2>4, <2>5, <2>6
  <2>9. /\ down' = [todo |-> down'.todo, err |-> down'.err] /\ down'.err \in BOOLEAN
        /\ halting'[Main] = NoObject /\ phase' = "stopping"
    BY <1>1, <1>h, <2>1, <2>2
  <2> QED
    BY <1>3, <2>7, <2>8, <2>9 DEF DownInv
<1> QED
  BY <1>4, <1>5

\* The stop of the first agent is over: it has no process.
LEMMA FinishStopStep ==
    ASSUME BootInv, DownInv, phase = "stopping", FinishStop(Main) PROVE DownInv'
<1>1. /\ halting[Main] # NoObject /\ children' = children \ {halting[Main]}
      /\ halting' = [halting EXCEPT ![Main] = NoObject] /\ ret' = [ret EXCEPT ![Main] = "ok"]
      /\ UNCHANGED <<scene, cur, down, phase, overlap>>
  BY DEF FinishStop, runVars, histVars
<1>2. UNCHANGED <<Known, DownEdges>> /\ \A a : Latest(a)' = Latest(a)
  BY <1>1 DEF Known, DownEdges, Latest, Hard
<1>3. halting'[Main] = NoObject /\ ret'[Main] = "ok"
  BY <1>1 DEF BootInv, BootShape, Goroutines
<1> QED
  BY <1>1, <1>2, <1>3 DEF DownInv

\* StopAll returns when its list is empty.
LEMMA ExitStep == ASSUME DownInv, Exit PROVE DownInv'
<1>1. /\ phase = "stopping" /\ down.todo = <<>> /\ phase' = "exited"
      /\ UNCHANGED <<scene, cur, children, down, overlap>>
  BY DEF Exit, objVars, histVars
<1>2. UNCHANGED <<Known, DownEdges>> /\ \A a : Latest(a)' = Latest(a)
  BY <1>1 DEF Known, DownEdges, Latest, Hard
<1> QED
  BY <1>1, <1>2 DEF DownInv

\* What the others do during StopAll: they leave it alone, and whoever begins
\* some work is at work together with it.
LEMMA OthersLeave ==
    ASSUME BootInv, Next, phase = "stopping", ~StopAllStep, ~FinishStop(Main)
    PROVE  /\ UNCHANGED <<down, phase, halting[Main], ret[Main]>>
           /\ ~overlap' => /\ ~overlap /\ UNCHANGED cur /\ scene'.graph = scene.graph
                           /\ children' \subseteq children
<1>0. /\ Main \in Goroutines /\ Reloader \in Goroutines /\ Handler \in Goroutines
      /\ Main # Reloader /\ Main # Handler /\ Main \notin Objects
      /\ ret \in [Goroutines -> {"none", "ok", "err"}]
      /\ halting = [g \in Goroutines |-> halting[g]] /\ scene \in Scene /\ Busy(Main)
      /\ ~Inside(Main) /\ Objects \subseteq Goroutines
  BY GoroutinesAssumption DEF Goroutines, BootInv, BootShape, PlaceInv, Busy
<1>e. ASSUME NEW g \in Goroutines, g # Main, NEW fr, NEW o, EnterStart(g, fr, o)
      PROVE  ret'[Main] = ret[Main]
  BY <1>0, <1>e DEF EnterStart
<1>b. Began => overlap'
  BY <1>0 DEF Began
<1>s. SetupBy = Reloader
  BY DEF SetupBy
<1>o. ~overlap => setup.pc = "idle" /\ \A g \in Goroutines : Busy(g) => g = Main
  BY OnlyMain
<1>1. CASE SetupStep
  <2>1. UNCHANGED <<down, phase, halting, overlap>>
    BY <1>1 DEF SetupStep, Discover, SortAgents, SkipAgent, ArmAgent, StartAgent, AgentStarted,
                SetupDone, callVars, histVars
  <2>2. ret'[Main] = ret[Main]
    <3>1. CASE StartAgent
      BY <3>1, <1>0, <1>e, <1>s DEF StartAgent
    <3>2. CASE AgentStarted
      BY <3>2, <1>0, <1>s DEF AgentStarted
    <3> QED
      BY <1>1, <3>1, <3>2 DEF SetupStep, Discover, SortAgents, SkipAgent, ArmAgent, SetupDone, callVars
  <2>3. overlap
    BY <1>1, <1>o DEF SetupStep, Discover, SortAgents, SkipAgent, ArmAgent, StartAgent, AgentStarted,
                SetupDone, AtAgent
  <2> QED
    BY <2>1, <2>2, <2>3
<1>2. CASE Reload
  BY <1>2, <1>b DEF Reload, callVars
<1>3. CASE Shutdown
  BY <1>3 DEF Shutdown
<1>4. CASE \E a \in Agents : VerbStart(a)
  BY <1>4, <1>0, <1>b, <1>e DEF VerbStart
<1>5. CASE \E a \in Agents : VerbStop(a)
  BY <1>5, <1>0, <1>b DEF VerbStop, EnterStop
<1>6. CASE \E o \in Objects : Traffic(o)
  BY <1>6, <1>0, <1>b, <1>e DEF Traffic, runVars
<1>7. CASE \E o \in Objects : Crash(o)
  <2>1. /\ scene' = [scene EXCEPT !.crashes = @ - 1] /\ children' \subseteq children
        /\ UNCHANGED <<cur, ret, halting, down, phase, overlap>>
    BY <1>7 DEF Crash, callVars, runVars, histVars
  <2>2. scene'.graph = scene.graph
    BY <2>1, <1>0 DEF Scene
  <2> QED
    BY <2>1, <2>2
<1>8. ASSUME NEW g \in Goroutines, CallStep(g)
      PROVE  UNCHANGED <<down, phase, halting[Main], ret[Main]>> /\ overlap /\ overlap'
  <2>1. g # Main /\ Busy(g)
    <3>1. CASE StartStep(g)
      BY <3>1, <1>0 DEF StartStep, EnsureStarted, DependencyReturned, Spawn, SpawnFailed, BecameRunning,
         StartTimedOut, AtSpawn, Busy, Idle
    <3>2. CASE FinishStop(g)
      BY <3>2 DEF FinishStop, Busy, Idle
    <3>3. CASE CallDone(g)
      BY <3>3 DEF CallDone, Returned, Busy, Idle
    <3> QED
      BY <1>8, <3>1, <3>2, <3>3 DEF CallStep
  <2>2. overlap
    BY <2>1, <1>o
  <2>3. UNCHANGED <<down, phase, overlap>>
    BY <1>8 DEF CallStep, StartStep, EnsureStarted, DependencyReturned, Spawn, SpawnFailed,
       BecameRunning, StartTimedOut, FinishStop, CallDone, runVars, histVars
  <2>4. halting'[Main] = halting[Main]
    BY <1>8, <1>0, <2>1 DEF CallStep, StartStep, EnsureStarted, DependencyReturned, Spawn, SpawnFailed,
       BecameRunning, StartTimedOut, FinishStop, CallDone
  <2>5. ret'[Main] = ret[Main]
    <3>1. CASE EnsureStarted(g)
      BY <3>1, <1>0, <2>1, <1>e DEF EnsureStarted
    <3>2. CASE ~EnsureStarted(g)
      BY <1>8, <3>2, <1>0, <2>1 DEF CallStep, StartStep, DependencyReturned, Spawn, SpawnFailed,
       BecameRunning, StartTimedOut, FinishStop, CallDone, LeaveStart
    <3> QED
      BY <3>1, <3>2
  <2> QED
    BY <2>2, <2>3, <2>4, <2>5
<1> QED
  BY <1>1, <1>2, <1>3, <1>4, <1>5, <1>6, <1>7, <1>8 DEF Next, Step

\* The invariant of StopAll is inductive.
LEMMA DownStep == ASSUME BootInv, ChildInv, GraphKept, DownInv, [Next]_vars PROVE DownInv'
<1>1. CASE UNCHANGED vars
  BY <1>1, DownFrame DEF vars, objVars, callVars, runVars, histVars
<1>2. CASE Next /\ phase = "stopping"
  BY <1>2, StopAgentStep, AgentStoppedStep, ExitStep, FinishStopStep, OthersLeave, DownFrame
     DEF StopAllStep
<1>3. CASE Next /\ phase # "stopping"
  <2>1. phase \in {"setup", "serving"}
    BY <1>3 DEF Next, BootInv, BootShape
  <2>2. CASE Shutdown
    BY <2>2, ShutdownStep
  <2>3. CASE ~Shutdown
    <3>1. ~StopAllStep
      BY <1>3 DEF StopAllStep, StopAgent, AgentStopped, Exit
    <3>2. UNCHANGED down /\ phase' \in {"setup", "serving"}
      <4>1. CASE SetupStep \/ Reload
        BY <4>1, <2>1 DEF SetupStep, Discover, SortAgents, SkipAgent, ArmAgent, StartAgent,
           AgentStarted, SetupDone, Reload
      <4>2. CASE \E g \in Goroutines : CallStep(g)
        BY <4>2, <2>1 DEF CallStep, StartStep, EnsureStarted, DependencyReturned, Spawn, SpawnFailed,
           BecameRunning, StartTimedOut, FinishStop, CallDone, runVars
      <4>3. CASE \/ \E a \in Agents : VerbStart(a) \/ VerbStop(a)
                 \/ \E o \in Objects : Traffic(o) \/ Crash(o)
        BY <4>3, <2>1 DEF VerbStart, VerbStop, Traffic, Crash, runVars
      <4> QED
        BY <1>3, <2>3, <3>1, <4>1, <4>2, <4>3 DEF Next, Step
    <3> QED
      BY <3>2, DownAway
  <2> QED
    BY <2>2, <2>3
<1> QED
  BY <1>1, <1>2, <1>3

\* Whoever depends hard on the agent that StopAll is stopping has no process.
LEMMA DependentsAreDown ==
    ASSUME BootInv, ChildInv, DownInv, phase = "stopping", ~overlap, NEW o \in Objects,
           halting[Main] = o, NEW e \in Hard(scene.graph, Known), e[2] = o[1], e[1] # o[1]
    PROVE  Latest(e[1]) \notin children
<1>1. o # NoObject
  BY AgentsAssumption DEF Objects, NoObject
<1>2. down.todo # <<>> /\ o = Latest(Head(down.todo)) /\ down.todo \in Seq(Agents)
  BY <1>1 DEF DownInv
<1>3. o[1] = Head(down.todo) /\ cur[Head(down.todo)] = o[2] /\ Head(down.todo) \in Agents
  BY <1>2 DEF Latest
<1>4. o[1] \in Known
  BY <1>3, BoundsAssumption DEF Known, Objects, Gens
<1> SUFFICES ASSUME Latest(e[1]) \in children PROVE FALSE
  OBVIOUS
<1>5. e[1] \in Known
  BY DEF ChildInv, Built, Objects, Gens, Latest, Known
<1>6. e \in DownEdges
  BY <1>4, <1>5 DEF DownEdges, EdgeSet
<1>7. 1 \in DOMAIN down.todo /\ down.todo[1] = e[2] /\ DOMAIN down.todo = 1..Len(down.todo)
  BY <1>2, <1>3, EmptySeq
<1>8. \E j \in DOMAIN down.todo : j < 1
  BY <1>6, <1>7 DEF DownInv
<1> QED
  BY <1>7, <1>8

\* StopAll takes no process away while an agent that depends hard on it still has
\* one, and its success means that no process is left: for any agents and
\* declarations, when nothing else is at work and no reload replaced an object.
THEOREM StopAllInOrder == Spec => DependentsStopFirst
<1> DEFINE A == \A o \in children \ children' :
                  phase = "stopping" /\ halting[Main] = o /\ ~overlap /\ cur[o[1]] = 1
                    => \A e \in Hard(scene.graph, Known) :
                         e[2] = o[1] /\ e[1] # o[1] => Latest(e[1]) \notin children
           B == phase = "exited" /\ ~down.err /\ ~overlap /\ (\A a \in Agents : cur[a] <= 1)
                  => children = {}
           I == BootInv /\ GraphKept /\ ChildInv /\ DownInv
<1>1. Init => I
  <2> SUFFICES ASSUME Init PROVE ChildInv /\ DownInv /\ GraphKept
    BY BootInitInv
  <2>1. ChildInv
    BY DEF Init, BootAt, ChildInv, Objs
  <2>2. DownInv
    BY DEF Init, BootAt, DownInv
  <2>3. GraphKept
    BY DEF Init, BootAt, GraphKept
  <2> QED
    BY <2>1, <2>2, <2>3
<1>2. I /\ [Next]_vars => I'
  BY BootStepInv, GraphStep, ChildStep, DownStep
<1>3. I /\ [Next]_vars => [A]_vars
  <2> SUFFICES ASSUME I, NEW o \in children, phase = "stopping", halting[Main] = o, ~overlap,
                      NEW e \in Hard(scene.graph, Known), e[2] = o[1], e[1] # o[1]
               PROVE  Latest(e[1]) \notin children
    OBVIOUS
  <2>1. o \in Objects
    BY DEF ChildInv, Built
  <2> QED
    BY <2>1, DependentsAreDown
<1>4. I => B
  <2> SUFFICES ASSUME I, phase = "exited", ~down.err, ~overlap, \A a \in Agents : cur[a] <= 1,
                      NEW o \in children
               PROVE  FALSE
    OBVIOUS
  <2>1. o \in Objects /\ o[2] <= cur[o[1]] /\ cur[o[1]] <= 1 /\ o[1] \in Agents
    BY DEF ChildInv, Built, Objects
  <2>2. o[1] \in Known /\ o = Latest(o[1])
    BY <2>1, BoundsAssumption DEF Objects, Gens, Known, Latest, BootInv, BootShape
  <2>3. down.todo = <<>>
    BY DEF DownInv
  <2> QED
    BY <2>2, <2>3 DEF DownInv
<1> QED
  BY <1>1, <1>2, <1>3, <1>4, PTL DEF Spec, DependentsStopFirst

-----------------------------------------------------------------------------
(* Boot and reload start what can start.  What an object waits for, what   *)
(* halts, and what a set-up has still to do are enough to know, when it is *)
(* over, that everything it could start was started.                       *)

Listed(x, s) == \E i \in DOMAIN s : s[i] = x

\* Discovery has passed every agent that it does not have before it.
KnownInv ==
    /\ setup.pc \in {"discover", "loop", "called", "idle"}
    /\ \A a \in Agents : Found(a) => \/ cur[a] # 0
                                     \/ setup.pc = "discover" /\ Listed(a, setup.todo)

\* What is in state stopping is being stopped by somebody.
HaltInv == \A o \in Objects : sm[o] = "stopping" => \E g \in Goroutines : halting[g] = o

\* While one goroutine works at a time, what is awaited is in state starting.
AwaitInv ==
    ~overlap => \A g \in Goroutines : \A i \in DOMAIN stack[g] :
                  stack[g][i].pc # "deps" => sm[stack[g][i].obj] = "starting"

\* A list without its first element.
LEMMA TailOf ==
    ASSUME NEW S, NEW s \in Seq(S), s # <<>>
    PROVE  /\ Tail(s) \in Seq(S) /\ Head(s) = s[1] /\ 1 \in DOMAIN s
           /\ \A i \in DOMAIN Tail(s) : i \in Nat /\ i + 1 \in DOMAIN s /\ Tail(s)[i] = s[i + 1]
           /\ \A x : Listed(x, s) <=> x = Head(s) \/ Listed(x, Tail(s))
           /\ Distinct(s) => Distinct(Tail(s)) /\ ~Listed(Head(s), Tail(s))
<1> DEFINE n == Len(s)
           t == Tail(s)
<1>1. n \in Nat \ {0} /\ DOMAIN s = 1..n /\ s \in [1..n -> S]
  BY EmptySeq
<1>2. /\ t \in Seq(S) /\ Head(s) = s[1] /\ DOMAIN t = 1..(n - 1)
      /\ \A i \in 1..(n - 1) : t[i] = s[i + 1]
  BY <1>1, HeadTailProperties
<1> HIDE DEF n, t
<1>3. \A i \in DOMAIN t : i \in Nat /\ i + 1 \in DOMAIN s /\ t[i] = s[i + 1]
  BY <1>1, <1>2
<1>4. \A i \in DOMAIN s : i = 1 \/ (i - 1 \in DOMAIN t /\ t[i - 1] = s[i])
  BY <1>1, <1>2
<1>5. 1 \in DOMAIN s
  BY <1>1
<1>6. \A x : Listed(x, s) <=> x = Head(s) \/ Listed(x, t)
  BY <1>2, <1>3, <1>4, <1>5 DEF Listed
<1>7. ASSUME Distinct(s) PROVE Distinct(t) /\ ~Listed(Head(s), t)
  <2>1. \A i, j \in DOMAIN t : i # j => t[i] # t[j]
    <3> SUFFICES ASSUME NEW i \in DOMAIN t, NEW j \in DOMAIN t, i # j PROVE t[i] # t[j]
      OBVIOUS
    <3>1. i + 1 # j + 1
      BY <1>3
    <3> QED
      BY <1>3, <1>7, <3>1 DEF Distinct
  <2>2. \A i \in DOMAIN t : i + 1 # 1
    BY <1>3
  <2> QED
    BY <1>2, <1>3, <1>5, <1>7, <2>1, <2>2 DEF Distinct, Listed
<1> QED
  BY <1>2, <1>3, <1>5, <1>6, <1>7 DEF t

\* Every agent is on the list that discovery goes through.
LEMMA AllListed == \A a \in Agents : Listed(a, Sorted(Agents))
<1>1. ToSet(Sorted(Agents)) = Agents
  BY SortedMembers, AgentsAssumption
<1> QED
  BY <1>1 DEF ToSet, Listed

\* Discovery's invariant is inductive.
LEMMA KnownStep == ASSUME BootInv, KnownInv, [Next]_vars PROVE KnownInv'
<1>0. /\ scene'.kind = scene.kind /\ cur \in [Agents -> 0..MaxGen]
      /\ setup = [pc |-> setup.pc, started |-> setup.started, todo |-> setup.todo]
  BY SceneKept DEF BootInv, BootShape
<1>k. \A a : Found(a)' = Found(a)
  BY <1>0 DEF Found
<1>1. CASE Discover
  <2> DEFINE td == setup.todo
             a == Head(td)
  <2>1. /\ setup.pc = "discover" /\ td # <<>> /\ td \in Seq(Agents)
        /\ cur' = [cur EXCEPT ![a] = IF Found(a) THEN cur[a] + 1 ELSE cur[a]]
        /\ setup'.pc = "discover" /\ setup'.todo = Tail(td)
    BY <1>1, <1>0 DEF Discover, AtAgent, BootInv, GenInv
  <2>2. \A x : Listed(x, td) <=> x = a \/ Listed(x, Tail(td))
    BY <2>1, TailOf
  <2>3. ASSUME NEW x \in Agents, Found(x) PROVE cur'[x] # 0 \/ Listed(x, Tail(td))
    <3>1. CASE x = a
      BY <3>1, <2>1, <2>3, <1>0, BoundsAssumption
    <3>2. CASE x # a
      BY <3>2, <2>1, <2>2, <2>3, <1>0 DEF KnownInv
    <3> QED
      BY <3>1, <3>2
  <2> QED
    BY <2>1, <2>3, <1>k DEF KnownInv
<1>2. CASE Reload
  <2>1. setup'.pc = "discover" /\ setup'.todo = Sorted(Agents) /\ cur' = cur
    BY <1>2, <1>0 DEF Reload, objVars
  <2> QED
    BY <2>1, <1>k, AllListed DEF KnownInv
<1>3. CASE SortAgents
  <2>1. setup.todo = <<>> /\ setup'.pc = "loop" /\ cur' = cur
    BY <1>3 DEF SortAgents, objVars
  <2>2. \A x : ~Listed(x, <<>>)
    BY DEF Listed
  <2> QED
    BY <2>1, <2>2, <1>k DEF KnownInv
<1>4. CASE SkipAgent \/ ArmAgent \/ StartAgent \/ AgentStarted \/ SetupDone
  <2>1. setup.pc \in {"loop", "called"} /\ cur' = cur
    BY <1>4 DEF SkipAgent, ArmAgent, StartAgent, AgentStarted, SetupDone, AtAgent, objVars
  <2>2. setup'.pc \in {"loop", "called", "idle"}
    <3>1. CASE \E st : SetupNext(st)
      BY <3>1, <1>0 DEF SetupNext
    <3>2. CASE StartAgent \/ SetupDone
      BY <3>2, <1>0 DEF StartAgent, SetupDone
    <3> QED
      BY <1>4, <3>1, <3>2 DEF SkipAgent, ArmAgent, AgentStarted
  <2> QED
    BY <2>1, <2>2, <1>k DEF KnownInv
<1>5. CASE UNCHANGED <<setup, cur>>
  BY <1>5, <1>k DEF KnownInv
<1>6. StopAllStep \/ Shutdown \/ UNCHANGED vars => UNCHANGED <<setup, cur>>
  BY DEF StopAllStep, StopAgent, AgentStopped, Exit, Shutdown, vars, objVars, runVars
<1>7. (\E g \in Goroutines : CallStep(g)) => UNCHANGED <<setup, cur>>
  BY DEF CallStep, StartStep, EnsureStarted, DependencyReturned, Spawn, SpawnFailed,
         BecameRunning, StartTimedOut, FinishStop, CallDone, objVars, runVars
<1>8. (\E a \in Agents : VerbStart(a) \/ VerbStop(a)) \/ (\E o \in Objects : Traffic(o) \/ Crash(o))
         => UNCHANGED <<setup, cur>>
  BY DEF VerbStart, VerbStop, Traffic, Crash, runVars
<1> QED
  BY <1>1, <1>2, <1>3, <1>4, <1>5, <1>6, <1>7, <1>8 DEF Next, Step, SetupStep

\* A transition to a state other than stopping, of an object that somebody who
\* goes on is not stopping.
LEMMA HaltKept ==
    ASSUME BootShape, HaltInv, NEW o, NEW to, TransitionTo(o, to), to # "stopping",
           UNCHANGED halting
    PROVE  HaltInv'
BY DEF HaltInv, TransitionTo, BootShape

\* The end of a stop, and its beginning.
LEMMA HaltMoves ==
    ASSUME BootInv, HaltInv,
           \/ \E g \in Goroutines : FinishStop(g)
           \/ StopAgent \/ \E a \in Agents : VerbStop(a)
    PROVE  HaltInv'
<1>0. /\ sm \in [Objects -> States] /\ halting = [h \in Goroutines |-> halting[h]]
      /\ NoObject \notin Objects /\ Main \in Goroutines /\ Handler \in Goroutines
  BY AgentsAssumption DEF BootInv, BootShape, Objects, NoObject, Goroutines
<1>1. ASSUME NEW g \in Goroutines, FinishStop(g) PROVE HaltInv'
  <2> DEFINE o == halting[g]
  <2>1. TransitionTo(o, "stopped") /\ halting' = [halting EXCEPT ![g] = NoObject]
    BY <1>1 DEF FinishStop
  <2>2. ASSUME NEW x \in Objects, sm'[x] = "stopping" PROVE \E h \in Goroutines : halting'[h] = x
    <3>1. sm[x] = "stopping" /\ x # o
      BY <2>1, <2>2, <1>0 DEF TransitionTo, Allowed
    <3>2. PICK h \in Goroutines : halting[h] = x
      BY <3>1 DEF HaltInv
    <3>3. h # g
      BY <3>1, <3>2
    <3> QED
      BY <3>2, <3>3, <2>1, <1>0
  <2> QED
    BY <2>2 DEF HaltInv
<1>2. ASSUME NEW g \in Goroutines, Idle(g), NEW o, EnterStop(g, o) PROVE HaltInv'
  <2>1. CASE sm' = [sm EXCEPT ![o] = "stopping"] /\ halting' = [halting EXCEPT ![g] = o]
    <3>1. ASSUME NEW x \in Objects, sm'[x] = "stopping" PROVE \E h \in Goroutines : halting'[h] = x
      <4>1. CASE x = o
        BY <4>1, <2>1, <1>0
      <4>2. CASE x # o
        <5>1. sm[x] = "stopping"
          BY <4>2, <3>1, <2>1, <1>0
        <5>2. PICK h \in Goroutines : halting[h] = x
          BY <5>1 DEF HaltInv
        <5>3. h # g
          BY <5>2, <1>2, <1>0 DEF Idle
        <5> QED
          BY <5>2, <5>3, <2>1, <1>0
      <4> QED
        BY <4>1, <4>2
    <3> QED
      BY <3>1 DEF HaltInv
  <2>2. CASE UNCHANGED <<sm, halting>>
    BY <2>2 DEF HaltInv
  <2> QED
    BY <1>2, <2>1, <2>2 DEF EnterStop
<1>3. StopAgent => Idle(Main) /\ \E o : EnterStop(Main, o)
  BY DEF StopAgent
<1>4. (\E a \in Agents : VerbStop(a)) => Idle(Handler) /\ \E o : EnterStop(Handler, o)
  BY DEF VerbStop, Handle
<1> QED
  BY <1>0, <1>1, <1>2, <1>3, <1>4

\* Somebody stops what is in state stopping: inductive.
LEMMA HaltStep == ASSUME BootInv, HaltInv, [Next]_vars PROVE HaltInv'
<1>0. BootShape
  BY DEF BootInv
<1>1. CASE UNCHANGED <<sm, halting>>
  BY <1>1 DEF HaltInv
<1>2. CASE \E g \in Goroutines : Spawn(g) \/ SpawnFailed(g) \/ BecameRunning(g) \/ StartTimedOut(g)
  <2>1. /\ \E o, to : TransitionTo(o, to) /\ to # "stopping"
        /\ UNCHANGED halting
    BY <1>2 DEF Spawn, SpawnFailed, BecameRunning, StartTimedOut
  <2> QED
    BY <1>0, <2>1, HaltKept
<1>3. CASE SetupStep \/ AgentStopped \/ Exit \/ Reload \/ Shutdown \/ UNCHANGED vars
  BY <1>3, <1>1 DEF SetupStep, Discover, SortAgents, SkipAgent, ArmAgent, StartAgent, AgentStarted,
         SetupDone, AgentStopped, Exit, Reload, Shutdown, vars, objVars, callVars
<1>4. CASE \E g \in Goroutines : EnsureStarted(g) \/ DependencyReturned(g) \/ CallDone(g)
  BY <1>4, <1>1 DEF EnsureStarted, DependencyReturned, CallDone, objVars
<1>5. CASE (\E a \in Agents : VerbStart(a)) \/ \E x \in Objects : Traffic(x) \/ Crash(x)
  BY <1>5, <1>1 DEF VerbStart, Traffic, Crash, callVars
<1> QED
  BY <1>2, <1>3, <1>4, <1>5, HaltMoves DEF Next, Step, StopAllStep, CallStep, StartStep

-----------------------------------------------------------------------------
(* The stack of a goroutine that works alone.                              *)

\* Each frame of the stack is one that was there, but for what else its list
\* of dependencies says, or is the frame of a start that has just been entered.
LEMMA AwaitSame ==
    ASSUME AwaitInv, ~overlap, UNCHANGED sm,
           \A h \in Goroutines : \A i \in DOMAIN stack'[h] :
             \/ stack'[h][i].pc = "deps"
             \/ /\ i \in DOMAIN stack[h] /\ stack'[h][i].obj = stack[h][i].obj
                /\ stack'[h][i].pc = stack[h][i].pc
    PROVE  AwaitInv'
BY DEF AwaitInv

\* The innermost start of a goroutine that works alone: as it goes on (with f as
\* its frame), and as it ends.
LEMMA OwnStack ==
    ASSUME BootInv, ~overlap, NEW g \in Goroutines, Inside(g)
    PROVE  LET s == stack[g]
               n == Len(stack[g])
           IN  /\ s \in Seq(Frames) /\ n \in Nat \ {0} /\ DOMAIN s = 1..n /\ Top(g) = s[n]
               /\ \A i \in DOMAIN s : i # n => s[i].obj # Top(g).obj
               /\ stack \in [Goroutines -> Seq(Frames)]
               /\ \A h \in Goroutines : h # g => stack[h] = <<>> /\ DOMAIN stack[h] = {}
<1> DEFINE s == stack[g]
           n == Len(stack[g])
<1>1. stack \in [Goroutines -> Seq(Frames)] /\ s # <<>>
  BY DEF BootInv, BootShape, Inside
<1>2. /\ n \in Nat \ {0} /\ DOMAIN s = 1..n /\ Top(g) = s[n]
  BY <1>1, FrontOf DEF Top
<1>3. \A h \in Goroutines : h # g => stack[h] = <<>>
  BY Alone
<1>4. \A h \in Goroutines : h # g => DOMAIN stack[h] = {}
  BY <1>3
<1>5. \A i \in DOMAIN s : i # n => s[i].obj # s[n].obj
  BY <1>2 DEF BootInv, StackInv
<1> QED
  BY <1>1, <1>2, <1>3, <1>4, <1>5

\* The start ends.
LEMMA AwaitLeave ==
    ASSUME BootInv, AwaitInv, ~overlap, NEW g \in Goroutines, Inside(g), NEW res,
           LeaveStart(g, res), NEW to, TransitionTo(Top(g).obj, to)
    PROVE  AwaitInv'
<1> DEFINE s == stack[g]
           n == Len(stack[g])
<1>1. /\ s \in Seq(Frames) /\ n \in Nat \ {0} /\ DOMAIN s = 1..n /\ Top(g) = s[n]
      /\ \A i \in DOMAIN s : i # n => s[i].obj # Top(g).obj
      /\ stack \in [Goroutines -> Seq(Frames)]
      /\ \A h \in Goroutines : h # g => stack[h] = <<>> /\ DOMAIN stack[h] = {}
  BY OwnStack
<1>2. DOMAIN Front(s) = 1..(n - 1) /\ \A i \in 1..(n - 1) : Front(s)[i] = s[i]
  BY FrontOf DEF Inside, BootInv, BootShape
<1>3. stack' = [stack EXCEPT ![g] = Front(s)]
  BY DEF LeaveStart
<1>4. stack'[g] = Front(s) /\ \A h \in Goroutines : h # g => DOMAIN stack'[h] = {}
  BY <1>1, <1>3
<1> HIDE DEF s, n
<1>5. \A i \in DOMAIN Front(s) : i \in DOMAIN s /\ i # n /\ Front(s)[i] = s[i] /\ s[i] \in Frames
  BY <1>1, <1>2
<1>6. \A i \in DOMAIN Front(s) : s[i].obj # Top(g).obj /\ s[i].obj \in Objects
  BY <1>1, <1>5 DEF Frames
<1>7. \A x \in Objects : x # Top(g).obj => sm'[x] = sm[x]
  BY DEF TransitionTo, BootInv, BootShape
<1>8. \A i \in DOMAIN s : s[i].pc # "deps" => sm[s[i].obj] = "starting"
  BY DEF AwaitInv, s
<1>9. \A h \in Goroutines : \A i \in DOMAIN stack'[h] :
        stack'[h][i].pc # "deps" => sm'[stack'[h][i].obj] = "starting"
  <2> SUFFICES ASSUME NEW i \in DOMAIN Front(s), Front(s)[i].pc # "deps"
               PROVE  sm'[Front(s)[i].obj] = "starting"
    BY <1>4
  <2> QED
    BY <1>5, <1>6, <1>7, <1>8
<1> QED
  BY <1>9 DEF AwaitInv

\* The start goes on as f, its object's state is not touched or is now starting.
LEMMA AwaitGoesOn ==
    ASSUME BootInv, AwaitInv, ~overlap, NEW g \in Goroutines, Inside(g), NEW f \in Frames,
           stack' = [stack EXCEPT ![g] = Append(Front(stack[g]), f)],
           \A x \in Objects : x # Top(g).obj => sm'[x] = sm[x],
           f.pc # "deps" => sm'[f.obj] = "starting"
    PROVE  AwaitInv'
<1> DEFINE s == stack[g]
           n == Len(stack[g])
           t == Append(Front(s), f)
<1>1. /\ s \in Seq(Frames) /\ n \in Nat \ {0} /\ DOMAIN s = 1..n /\ Top(g) = s[n]
      /\ \A i \in DOMAIN s : i # n => s[i].obj # Top(g).obj
      /\ stack \in [Goroutines -> Seq(Frames)]
      /\ \A h \in Goroutines : h # g => stack[h] = <<>> /\ DOMAIN stack[h] = {}
  BY OwnStack
<1>2. DOMAIN t = DOMAIN s /\ t[n] = f /\ \A i \in DOMAIN s : i # n => t[i] = s[i]
  BY Retopped DEF Inside, BootInv, BootShape
<1>4. stack'[g] = t /\ \A h \in Goroutines : h # g => DOMAIN stack'[h] = {}
  BY <1>1
<1> HIDE DEF s, n, t
<1>5. \A i \in DOMAIN s : s[i] \in Frames
  BY <1>1
<1>6. \A i \in DOMAIN s : i # n => s[i].obj # Top(g).obj /\ s[i].obj \in Objects
  BY <1>1, <1>5 DEF Frames
<1>8. \A i \in DOMAIN s : s[i].pc # "deps" => sm[s[i].obj] = "starting"
  BY DEF AwaitInv, s
<1>9. \A h \in Goroutines : \A i \in DOMAIN stack'[h] :
        stack'[h][i].pc # "deps" => sm'[stack'[h][i].obj] = "starting"
  <2> SUFFICES ASSUME NEW i \in DOMAIN t, t[i].pc # "deps"
               PROVE  sm'[t[i].obj] = "starting"
    BY <1>4
  <2>1. CASE i = n
    BY <2>1, <1>2
  <2>2. CASE i # n
    BY <2>2, <1>2, <1>6, <1>8
  <2> QED
    BY <2>1, <2>2
<1> QED
  BY <1>9 DEF AwaitInv

\* A start is entered by g, whose enclosing starts are t.
LEMMA AwaitEnter ==
    ASSUME BootInv, AwaitInv, ~overlap, NEW g \in Goroutines, NEW t \in Seq(Frames),
           NEW o \in Objects, EnterStart(g, t, o), UNCHANGED sm,
           DOMAIN t = DOMAIN stack[g],
           \A i \in DOMAIN t : t[i].obj = stack[g][i].obj /\ t[i].pc = stack[g][i].pc
    PROVE  AwaitInv'
<1> DEFINE u == Append(t, Frame(o))
<1>0. stack \in [Goroutines -> Seq(Frames)] /\ Frame(o) \in Frames /\ Frame(o).pc = "deps"
  BY FrameType DEF BootInv, BootShape
<1>1. \A h \in Goroutines : h # g => stack'[h] = stack[h]
  BY <1>0 DEF EnterStart
<1>2. stack'[g] = t \/ stack'[g] = u
  BY <1>0 DEF EnterStart
<1>3. DOMAIN u = 1..(Len(t) + 1) /\ DOMAIN t = 1..Len(t) /\ Len(t) \in Nat
      /\ u[Len(t) + 1] = Frame(o) /\ \A i \in 1..Len(t) : u[i] = t[i]
  BY <1>0, Pushed
<1> HIDE DEF u
<1>4. \A i \in DOMAIN u : u[i].pc = "deps" \/ (i \in DOMAIN t /\ u[i] = t[i])
  BY <1>0, <1>3
<1> QED
  BY <1>1, <1>2, <1>4, AwaitSame

\* Without any start under way nothing is awaited.
LEMMA AwaitNone ==
    ASSUME \A h \in Goroutines : stack'[h] = <<>>
    PROVE  AwaitInv'
BY DEF AwaitInv

\* One step of a start.
LEMMA AwaitStart ==
    ASSUME BootInv, AwaitInv, ~overlap, NEW g \in Goroutines, StartStep(g)
    PROVE  AwaitInv'
<1> DEFINE T == Top(g)
<1>i. Inside(g)
  BY DEF StartStep, EnsureStarted, DependencyReturned, Spawn, SpawnFailed, BecameRunning,
         StartTimedOut, AtSpawn
<1>t. T \in Frames /\ T.obj \in Objects /\ stack[g] \in Seq(Frames) /\ stack[g] # <<>>
      /\ (T.dep # 0 => T.pc = "deps")
  BY <1>i, TopFrame
<1>m. sm \in [Objects -> States]
  BY DEF BootInv, BootShape
<1>1. CASE EnsureStarted(g)
  <2>1. PICK d \in T.hard \cup T.soft :
          LET f == [T EXCEPT !.dep = d]
          IN  IF d \in Known
                THEN EnterStart(g, Append(Front(stack[g]), f), Latest(d))
                ELSE SetTop(g, f)
    BY <1>1 DEF EnsureStarted
  <2> DEFINE f == [T EXCEPT !.dep = d]
             t == Append(Front(stack[g]), f)
  <2>2. f \in Frames /\ f.obj = T.obj /\ f.pc = T.pc /\ T.pc = "deps" /\ sm' = sm
    BY <1>1, <1>t DEF Frames, EnsureStarted
  <2>3. IF d \in Known THEN EnterStart(g, t, Latest(d)) ELSE stack' = [stack EXCEPT ![g] = t]
    BY <2>1 DEF SetTop
  <2> HIDE DEF f
  <2>4. /\ t \in Seq(Frames) /\ DOMAIN t = DOMAIN stack[g] /\ t[Len(stack[g])] = f
        /\ \A i \in DOMAIN stack[g] : i # Len(stack[g]) => t[i] = stack[g][i]
    BY <1>t, <2>2, Retopped
  <2>5. stack[g][Len(stack[g])] = T
    BY <1>t, FrontOf DEF Top
  <2>6. \A i \in DOMAIN t : t[i].obj = stack[g][i].obj /\ t[i].pc = stack[g][i].pc
    BY <2>2, <2>4, <2>5
  <2>7. CASE d \in Known
    <3>1. Latest(d) \in Objects /\ EnterStart(g, t, Latest(d))
      BY <2>3, <2>7, LatestType DEF BootInv
    <3> QED
      BY <3>1, <2>2, <2>4, <2>6, AwaitEnter
  <2>8. CASE d \notin Known
    BY <2>2, <2>3, <2>8, <1>i, AwaitGoesOn
  <2> QED
    BY <2>7, <2>8
<1>2. CASE DependencyReturned(g)
  <2>0. sm' = sm /\ T.dep # 0 /\ T.pc = "deps"
    BY <1>2, <1>t DEF DependencyReturned
  <2>1. CASE LeaveStart(g, "err")
    <3>1. TransitionTo(T.obj, sm[T.obj])
      BY <2>0, <1>m DEF TransitionTo
    <3> QED
      BY <3>1, <2>1, <1>i, AwaitLeave
  <2>2. CASE SetTop(g, IF T.dep \in T.hard
                        THEN [T EXCEPT !.hard = @ \ {T.dep}, !.dep = 0]
                        ELSE [T EXCEPT !.soft = @ \ {T.dep}, !.dep = 0])
    <3> DEFINE f == IF T.dep \in T.hard
                      THEN [T EXCEPT !.hard = @ \ {T.dep}, !.dep = 0]
                      ELSE [T EXCEPT !.soft = @ \ {T.dep}, !.dep = 0]
    <3>1. f \in Frames /\ f.pc = "deps"
      BY <1>t, <2>0 DEF Frames
    <3>2. stack' = [stack EXCEPT ![g] = Append(Front(stack[g]), f)]
      BY <2>2 DEF SetTop
    <3> HIDE DEF f
    <3> QED
      BY <3>1, <3>2, <2>0, <1>i, AwaitGoesOn
  <2> QED
    BY <1>2, <2>1, <2>2 DEF DependencyReturned
<1>3. CASE Spawn(g)
  <2>0. TransitionTo(T.obj, "starting")
    BY <1>3 DEF Spawn
  <2>1. CASE ~Allowed(sm[T.obj], "starting")
    <3>1. LeaveStart(g, "err")
      BY <1>3, <2>1 DEF Spawn
    <3> QED
      BY <3>1, <2>0, <1>i, AwaitLeave
  <2>2. CASE Allowed(sm[T.obj], "starting")
    <3> DEFINE f == [T EXCEPT !.pc = IF T.obj \in children THEN "stale" ELSE "await"]
    <3>1. stack' = [stack EXCEPT ![g] = Append(Front(stack[g]), f)]
      BY <1>3, <2>2 DEF Spawn, SetTop
    <3>2. f \in Frames /\ f.obj = T.obj
      BY <1>t DEF Frames
    <3> HIDE DEF f
    <3>3. sm'[T.obj] = "starting" /\ \A x \in Objects : x # T.obj => sm'[x] = sm[x]
      BY <2>0, <2>2, <1>m, <1>t DEF TransitionTo
    <3> QED
      BY <3>1, <3>2, <3>3, <1>i, AwaitGoesOn
  <2> QED
    BY <2>1, <2>2
<1>4. CASE SpawnFailed(g) \/ BecameRunning(g) \/ StartTimedOut(g)
  <2>1. \E res, to : LeaveStart(g, res) /\ TransitionTo(T.obj, to)
    BY <1>4 DEF SpawnFailed, BecameRunning, StartTimedOut
  <2> QED
    BY <2>1, <1>i, AwaitLeave
<1> QED
  BY <1>1, <1>2, <1>3, <1>4 DEF StartStep

\* What is awaited is in state starting: inductive.
LEMMA AwaitStep == ASSUME BootInv, AwaitInv, [Next]_vars PROVE AwaitInv'
<1> SUFFICES ASSUME ~overlap' PROVE AwaitInv'
  BY DEF AwaitInv
<1>0. /\ Main \in Goroutines /\ Reloader \in Goroutines /\ Handler \in Goroutines
      /\ Objects \subseteq Goroutines /\ stack \in [Goroutines -> Seq(Frames)]
      /\ <<>> \in Seq(Frames) /\ DOMAIN <<>> = {}
  BY DEF Goroutines, BootInv, BootShape
<1>b. Began => ~overlap /\ \A h \in Goroutines : stack[h] = <<>>
  BY NobodyBusy DEF Busy, Idle, Inside
<1>1. CASE UNCHANGED <<sm, stack, overlap>>
  BY <1>1 DEF AwaitInv
<1>e. ASSUME NEW g \in Goroutines, NEW o \in Objects, stack[g] = <<>>, EnterStart(g, <<>>, o),
             UNCHANGED sm, ~overlap
      PROVE  AwaitInv'
  BY <1>0, <1>e, AwaitEnter
<1>2. CASE StartAgent
  <2>1. /\ setup.pc = "loop" /\ Head(setup.todo) \in Known
        /\ EnterStart(SetupBy, <<>>, Latest(Head(setup.todo))) /\ UNCHANGED <<sm, overlap>>
    BY <1>2 DEF StartAgent, AtAgent, Startable, histVars
  <2>2. SetupBy \in Goroutines /\ stack[SetupBy] = <<>>
    BY <2>1 DEF SetupBy, Goroutines, BootInv, PlaceInv, Inside
  <2>3. Latest(Head(setup.todo)) \in Objects
    BY <2>1, LatestType DEF BootInv
  <2> QED
    BY <2>1, <2>2, <2>3, <1>e
<1>3. CASE \E a \in Agents : VerbStart(a)
  <2>1. PICK a \in Agents : VerbStart(a)
    BY <1>3
  <2>2. a \in Known /\ EnterStart(Handler, <<>>, Latest(a)) /\ UNCHANGED sm /\ Began
    BY <2>1 DEF VerbStart, Handle
  <2>3. Latest(a) \in Objects
    BY <2>2, LatestType DEF BootInv
  <2> QED
    BY <2>2, <2>3, <1>0, <1>b, <1>e
<1>4. CASE \E o \in Objects : Traffic(o)
  <2>1. PICK o \in Objects : Traffic(o)
    BY <1>4
  <2>2. EnterStart(o, <<>>, o) /\ UNCHANGED sm /\ Began
    BY <2>1 DEF Traffic
  <2> QED
    BY <2>2, <1>0, <1>b, <1>e
<1>5. CASE (\E a \in Agents : VerbStop(a)) \/ StopAgent \/ \E g \in Goroutines : FinishStop(g)
  <2>1. CASE \E a \in Agents : VerbStop(a)
    BY <2>1, <1>b, AwaitNone DEF VerbStop
  <2>2. CASE StopAgent
    <3>1. UNCHANGED <<stack, overlap>> /\ Busy(Main) /\ ~Inside(Main)
      BY <2>2 DEF StopAgent, histVars, Busy, Idle
    <3> QED
      BY <3>1, <1>0, AllQuiet, AwaitNone
  <2>3. ASSUME NEW g \in Goroutines, FinishStop(g) PROVE AwaitInv'
    <3>1. UNCHANGED <<stack, overlap>> /\ Busy(g) /\ ~Inside(g)
      BY <2>3 DEF FinishStop, histVars, Busy, Idle, BootInv, PlaceInv
    <3> QED
      BY <3>1, <1>0, AllQuiet, AwaitNone
  <2> QED
    BY <1>5, <2>1, <2>2, <2>3
<1>6. ASSUME NEW g \in Goroutines, StartStep(g) PROVE AwaitInv'
  <2>1. overlap' = overlap
    BY <1>6 DEF StartStep, EnsureStarted, DependencyReturned, Spawn, SpawnFailed, BecameRunning,
                StartTimedOut, histVars
  <2> QED
    BY <1>6, <2>1, AwaitStart
<1>7. CASE \/ Discover \/ SortAgents \/ SkipAgent \/ ArmAgent \/ AgentStarted \/ SetupDone
           \/ AgentStopped \/ Exit \/ (\E g \in Goroutines : CallDone(g)) \/ UNCHANGED vars
           \/ \E o \in Objects : Crash(o)
  BY <1>7, <1>1 DEF Discover, SortAgents, SkipAgent, ArmAgent, AgentStarted, SetupDone, AgentStopped,
     Exit, CallDone, Crash, vars, objVars, callVars, histVars
<1>8. CASE Reload \/ Shutdown
  <2>1. UNCHANGED <<sm, stack>> /\ Began
    BY <1>8 DEF Reload, Shutdown, objVars, callVars
  <2> QED
    BY <2>1, <1>b, AwaitNone
<1> QED
  BY <1>2, <1>3, <1>4, <1>5, <1>6, <1>7, <1>8 DEF Next, Step, SetupStep, StopAllStep, CallStep

HardUpTo(s, i) == \A j \in DOMAIN s : j < i => s[j].dep \in s[j].hard

\* The nested starts s of a start by setupAgents, and what the last nested call
\* answered: as long as they are nested through hard dependencies they are of
\* agents that can start, and only a soft dependency is answered with an error.
ChainOK(s, r) ==
    /\ \A i \in DOMAIN s : /\ s[i].hard \subseteq Requires(s[i].obj[1])
                           /\ HardUpTo(s, i) => CanStart(s[i].obj[1])
    /\ s # <<>> /\ r = "err" => \E i \in DOMAIN s : s[i].dep \notin s[i].hard
    /\ s = <<>> => r = "ok"

\* What an agent that can start requires is another one that can.
LEMMA CanStartClosed ==
    ASSUME NEW a, CanStart(a), NEW d \in Requires(a)
    PROVE  CanStart(d) /\ d # a /\ d \in Agents
<1>1. PICK S \in SUBSET Agents :
        a \in S /\ \A x \in S : /\ scene.kind[x] \in {"service", "lazy"}
                                /\ Requires(x) \subseteq S \ {x}
  BY DEF CanStart
<1>2. d \in S /\ d # a
  BY <1>1
<1> QED
  BY <1>1, <1>2 DEF CanStart

\* After discovery, what can start is in the manager's map.
LEMMA CanStartKnown ==
    ASSUME KnownInv, setup.pc # "discover", NEW a, CanStart(a)
    PROVE  a \in Known /\ scene.kind[a] \in {"service", "lazy"}
<1>1. a \in Agents /\ scene.kind[a] \in {"service", "lazy"}
  BY DEF CanStart
<1>2. Found(a)
  BY <1>1 DEF Found
<1> QED
  BY <1>1, <1>2 DEF KnownInv, Known

\* A required agent is a hard edge of the sort.
LEMMA RequiredEdge ==
    ASSUME NEW a \in Known, NEW d \in Known, d \in Requires(a), d # a
    PROVE  <<a, d>> \in DownEdges
<1>1. PICK x \in scene.graph : x[1] = a /\ x[2] = "requires" /\ d = x[3]
  BY DEF Requires, Named
<1>2. <<a, d>> \in Hard(scene.graph, Known)
  BY <1>1 DEF Hard, Edges
<1> QED
  BY <1>2 DEF DownEdges, EdgeSet

\* The innermost start goes on as f.
LEMMA ChainGoesOn ==
    ASSUME NEW s \in Seq(Frames), s # <<>>, NEW r0, NEW r, ChainOK(s, r0), NEW f \in Frames,
           f.obj = Last(s).obj, f.hard \subseteq Last(s).hard,
           r = "err" => f.dep \notin f.hard \/ ~HardUpTo(s, Len(s))
    PROVE  ChainOK(Append(Front(s), f), r)
<1> DEFINE n == Len(s)
           t == Append(Front(s), f)
<1>1. n \in Nat \ {0} /\ DOMAIN s = 1..n /\ Last(s) = s[n]
  BY FrontOf
<1>2. t # <<>> /\ DOMAIN t = DOMAIN s /\ t[n] = f /\ \A i \in DOMAIN s : i # n => t[i] = s[i]
  BY Retopped
<1> HIDE DEF n, t
<1>3. \A i \in DOMAIN s : HardUpTo(t, i) => HardUpTo(s, i)
  <2> SUFFICES ASSUME NEW i \in DOMAIN s, HardUpTo(t, i), NEW j \in DOMAIN s, j < i
               PROVE  s[j].dep \in s[j].hard
    BY DEF HardUpTo
  <2>1. j # n
    BY <1>1
  <2> QED
    BY <2>1, <1>2 DEF HardUpTo
<1>4. \A i \in DOMAIN s : t[i].obj = s[i].obj /\ t[i].hard \subseteq s[i].hard
  BY <1>1, <1>2
<1>5. \A i \in DOMAIN t : /\ t[i].hard \subseteq Requires(t[i].obj[1])
                          /\ HardUpTo(t, i) => CanStart(t[i].obj[1])
  BY <1>2, <1>3, <1>4 DEF ChainOK
<1>6. ASSUME r = "err" PROVE \E i \in DOMAIN t : t[i].dep \notin t[i].hard
  <2>1. CASE f.dep \notin f.hard
    BY <2>1, <1>1, <1>2
  <2>2. CASE ~HardUpTo(s, n)
    <3>1. PICK j \in DOMAIN s : j < n /\ s[j].dep \notin s[j].hard
      BY <2>2 DEF HardUpTo
    <3>2. j # n
      BY <3>1, <1>1
    <3> QED
      BY <3>1, <3>2, <1>2
  <2> QED
    BY <1>6, <2>1, <2>2 DEF n
<1> QED
  BY <1>2, <1>5, <1>6 DEF ChainOK, t

\* It enters the start of o.
LEMMA ChainEnters ==
    ASSUME NEW t \in Seq(Frames), DOMAIN t # {} => ChainOK(t, "none"), scene \in Scene,
           NEW o \in Objects, NEW r, r # "err",
           HardUpTo(Append(t, Frame(o)), Len(t) + 1) => CanStart(o[1])
    PROVE  ChainOK(Append(t, Frame(o)), r)
<1> DEFINE n == Len(t)
           u == Append(t, Frame(o))
<1>0. /\ Frame(o) \in Frames /\ Frame(o).obj = o /\ Frame(o).hard = Requires(o[1])
  BY FrameType
<1>1. u # <<>> /\ n \in Nat /\ DOMAIN u = 1..(n + 1) /\ u[n + 1] = Frame(o)
      /\ DOMAIN t = 1..n /\ \A i \in 1..n : u[i] = t[i]
  BY <1>0, Pushed
<1>2. HardUpTo(u, n + 1) => CanStart(o[1])
  OBVIOUS
<1> HIDE DEF n, u
<1>3. ASSUME NEW i \in DOMAIN u
      PROVE  u[i].hard \subseteq Requires(u[i].obj[1]) /\ (HardUpTo(u, i) => CanStart(u[i].obj[1]))
  <2>1. CASE i = n + 1
    BY <2>1, <1>0, <1>1, <1>2
  <2>2. CASE i \in 1..n
    <3>1. ChainOK(t, "none")
      BY <2>2, <1>1
    <3>2. HardUpTo(u, i) => HardUpTo(t, i)
      BY <1>1 DEF HardUpTo
    <3> QED
      BY <3>1, <3>2, <2>2, <1>1 DEF ChainOK
  <2> QED
    BY <1>1, <2>1, <2>2
<1> QED
  BY <1>1, <1>3 DEF ChainOK, u

\* The innermost start returns r.
LEMMA ChainLeaves ==
    ASSUME NEW s \in Seq(Frames), s # <<>>, NEW r0, NEW r \in {"ok", "err"}, ChainOK(s, r0),
           r = "err" => ~HardUpTo(s, Len(s))
    PROVE  ChainOK(Front(s), r)
<1> DEFINE n == Len(s)
           t == Front(s)
<1>1. n \in Nat \ {0} /\ DOMAIN s = 1..n /\ Front(s) \in Seq(Frames)
      /\ DOMAIN t = 1..(n - 1) /\ \A i \in 1..(n - 1) : t[i] = s[i]
  BY FrontOf
<1>n. r = "err" => ~HardUpTo(s, n)
  OBVIOUS
<1> HIDE DEF n, t
<1>2. \A i \in DOMAIN t : i \in DOMAIN s /\ t[i] = s[i] /\ (HardUpTo(t, i) => HardUpTo(s, i))
  <2> SUFFICES ASSUME NEW i \in DOMAIN t
               PROVE  i \in DOMAIN s /\ t[i] = s[i] /\ (HardUpTo(t, i) => HardUpTo(s, i))
    OBVIOUS
  <2>1. i \in DOMAIN s /\ t[i] = s[i]
    BY <1>1
  <2>2. \A j \in DOMAIN s : j < i => j \in DOMAIN t /\ t[j] = s[j]
    BY <1>1
  <2> QED
    BY <2>1, <2>2 DEF HardUpTo
<1>3. ASSUME r = "err" PROVE \E i \in DOMAIN t : t[i].dep \notin t[i].hard
  <2>1. PICK j \in DOMAIN s : j < n /\ s[j].dep \notin s[j].hard
    BY <1>3, <1>n DEF HardUpTo
  <2>2. j \in DOMAIN t
    BY <2>1, <1>1
  <2> QED
    BY <2>1, <2>2, <1>2
<1>4. t = <<>> => r = "ok"
  <2>1. DOMAIN <<>> = {}
    OBVIOUS
  <2> QED
    BY <2>1, <1>3
<1>5. \A i \in DOMAIN t : /\ t[i].hard \subseteq Requires(t[i].obj[1])
                          /\ HardUpTo(t, i) => CanStart(t[i].obj[1])
  BY <1>2 DEF ChainOK
<1> QED
  BY <1>3, <1>4, <1>5 DEF ChainOK, t

\* The starts that a goroutine is inside of through hard dependencies do not
\* require each other in a ring: the sort would have refused the agents.
LEMMA NoRing ==
    ASSUME BootInv, GraphKept, KnownInv, setup.pc # "discover", ~overlap, ~TopologicalSort.err,
           NEW g \in Goroutines, Inside(g), NEW r, ChainOK(stack[g], r),
           HardUpTo(stack[g], Len(stack[g])), NEW d \in Requires(Top(g).obj[1]),
           NEW i \in DOMAIN stack[g]
    PROVE  stack[g][i].obj[1] # d
<1> DEFINE s == stack[g]
           n == Len(stack[g])
           ag(j) == s[j].obj[1]
<1>1. /\ s \in Seq(Frames) /\ n \in Nat \ {0} /\ DOMAIN s = 1..n /\ Top(g) = s[n]
  BY OwnStack
<1>2. \A j \in DOMAIN s : HardUpTo(s, j)
  <2>1. \A j, k \in DOMAIN s : k < j => k < n
    BY <1>1
  <2> QED
    BY <2>1 DEF HardUpTo
<1>3. \A j \in DOMAIN s : CanStart(ag(j)) /\ ag(j) \in Known
  <2>1. \A j \in DOMAIN s : CanStart(ag(j))
    BY <1>2 DEF ChainOK
  <2> QED
    BY <2>1, CanStartKnown
<1>4. \A j \in DOMAIN s : j # n =>
        j + 1 \in DOMAIN s /\ ag(j + 1) = s[j].dep /\ s[j].dep \in Requires(ag(j))
  <2> SUFFICES ASSUME NEW j \in DOMAIN s, j # n
               PROVE  j + 1 \in DOMAIN s /\ ag(j + 1) = s[j].dep /\ s[j].dep \in Requires(ag(j))
    OBVIOUS
  <2>1. j + 1 \in DOMAIN s /\ j < n
    BY <1>1
  <2>2. s[j].dep \in Known /\ Latest(s[j].dep) = s[j + 1].obj
    BY <2>1 DEF BootInv, NestInv
  <2>3. s[j + 1].obj[1] = s[j].dep
    BY <2>2 DEF Latest
  <2>4. s[j].dep \in s[j].hard /\ s[j].hard \subseteq Requires(ag(j))
    BY <2>1, <1>1 DEF HardUpTo, ChainOK
  <2> QED
    BY <2>1, <2>3, <2>4
<1>5. \A j \in DOMAIN s : \A x \in Requires(ag(j)) : x # ag(j) /\ CanStart(x) /\ x \in Known
  <2>1. \A j \in DOMAIN s : \A x \in Requires(ag(j)) : x # ag(j) /\ CanStart(x)
    BY <1>3, CanStartClosed
  <2> QED
    BY <2>1, CanStartKnown
<1>6. n \in DOMAIN s /\ d \in Requires(ag(n)) /\ i \in DOMAIN s
  BY <1>1
<1> HIDE DEF s, n
<1> SUFFICES ASSUME ag(i) = d PROVE FALSE
  BY DEF s
<1> DEFINE R == {ag(j) : j \in {k \in DOMAIN s : i <= k}}
<1>7. R \in SUBSET Known /\ d \in R
  BY <1>1, <1>3, <1>6
<1>8. ASSUME NEW m \in R PROVE DepsOfNode(DownEdges, m) \cap R # {}
  <2>1. PICK j \in DOMAIN s : i <= j /\ m = ag(j)
    OBVIOUS
  <2>2. \E x \in R : x \in Requires(m)
    <3>1. CASE j = n
      BY <3>1, <2>1, <1>6, <1>7
    <3>2. CASE j # n
      <4>1. j + 1 \in DOMAIN s /\ i <= j + 1 /\ ag(j + 1) \in Requires(m)
        BY <3>2, <2>1, <1>1, <1>4
      <4> QED
        BY <4>1
    <3> QED
      BY <3>1, <3>2
  <2>3. PICK x \in R : x \in Requires(m)
    BY <2>2
  <2> HIDE DEF R
  <2>4. x # m /\ x \in Known /\ m \in Known
    BY <2>1, <2>3, <1>3, <1>5
  <2>5. <<m, x>> \in DownEdges
    BY <2>3, <2>4, RequiredEdge
  <2>6. x \in DepsOfNode(DownEdges, m)
    BY <2>5 DEF DepsOfNode
  <2> QED
    BY <2>3, <2>6
<1> HIDE DEF R
<1>9. WaitsForCycle(Known, DownEdges, d) /\ d \in Known
  BY <1>7, <1>8 DEF WaitsForCycle
<1>10. OrderSound
  BY OrderFacts
<1> QED
  BY <1>9, <1>10 DEF OrderSound, IsStartOrder, DownEdges

\* While a goroutine works alone nobody stops anything, so its controllers allow
\* the spawn, and the transition to running.
LEMMA StartAllowed ==
    ASSUME BootInv, HaltInv, AwaitInv, ~overlap, NEW g \in Goroutines, Inside(g)
    PROVE  /\ Top(g).pc = "deps" => Allowed(sm[Top(g).obj], "starting")
           /\ Top(g).pc # "deps" => Allowed(sm[Top(g).obj], "running")
<1> DEFINE s == stack[g]
           n == Len(stack[g])
           o == Top(g).obj
<1>1. /\ s \in Seq(Frames) /\ n \in Nat \ {0} /\ DOMAIN s = 1..n /\ Top(g) = s[n]
      /\ \A i \in DOMAIN s : i # n => s[i].obj # o
      /\ \A h \in Goroutines : h # g => DOMAIN stack[h] = {}
  BY OwnStack
<1>2. o \in Objects /\ sm[o] # "running" /\ sm[o] \in States
  BY TopFrame DEF BootInv, BootShape
<1>3. NoObject \notin Objects
  BY AgentsAssumption DEF Objects, NoObject
<1>4. sm[o] # "stopping"
  <2> SUFFICES ASSUME sm[o] = "stopping" PROVE FALSE
    OBVIOUS
  <2>1. PICK h \in Goroutines : halting[h] = o
    BY <1>2 DEF HaltInv
  <2>2. halting[h] # NoObject
    BY <2>1, <1>2, <1>3
  <2>3. Busy(h) /\ Busy(g) /\ ~Inside(h)
    BY <2>2 DEF Busy, Idle, BootInv, PlaceInv
  <2> QED
    BY <2>3 DEF BootInv, OneBusy
<1>5. CASE Top(g).pc # "deps"
  <2>1. sm[o] = "starting"
    BY <1>1, <1>5 DEF AwaitInv
  <2> QED
    BY <2>1, <1>5 DEF Allowed
<1>6. CASE Top(g).pc = "deps"
  <2>1. sm[o] # "starting"
    <3> SUFFICES ASSUME sm[o] = "starting" PROVE FALSE
      OBVIOUS
    <3>1. PICK h \in Goroutines : \E i \in DOMAIN stack[h] :
            stack[h][i].obj = o /\ stack[h][i].pc # "deps"
      BY <1>2 DEF BootInv, StackInv, Awaited
    <3>2. h = g
      BY <3>1, <1>1
    <3>3. PICK i \in DOMAIN s : s[i].obj = o /\ s[i].pc # "deps"
      BY <3>1, <3>2
    <3> QED
      BY <3>3, <1>1, <1>6
  <2> QED
    BY <2>1, <1>2, <1>4, <1>6 DEF Allowed, States
<1> QED
  BY <1>5, <1>6

\* One step of a start that setupAgents made, while nothing fails.
LEMMA ChainStep ==
    ASSUME BootInv, GraphKept, KnownInv, HaltInv, AwaitInv, setup.pc # "discover", ~overlap,
           ~failed', ~TopologicalSort.err, NEW g \in Goroutines, ChainOK(stack[g], ret[g]),
           StartStep(g)
    PROVE  ChainOK(stack[g], ret[g])'
<1> DEFINE T == Top(g)
           s == stack[g]
           n == Len(stack[g])
<1>i. Inside(g)
  BY DEF StartStep, EnsureStarted, DependencyReturned, Spawn, SpawnFailed, BecameRunning,
         StartTimedOut, AtSpawn
<1>t. T \in Frames /\ T.obj \in Objects /\ s \in Seq(Frames) /\ s # <<>> /\ T = Last(s)
      /\ (T.dep # 0 => T.pc = "deps")
  BY <1>i, TopFrame DEF Top
<1>n. n \in Nat \ {0} /\ DOMAIN s = 1..n /\ Last(s) = s[n] /\ n \in DOMAIN s
  BY <1>t, FrontOf
<1>y. stack \in [Goroutines -> Seq(Frames)] /\ ret \in [Goroutines -> {"none", "ok", "err"}]
      /\ scene \in Scene /\ scene' = scene
  BY DEF BootInv, BootShape, StartStep, EnsureStarted, DependencyReturned, Spawn, SpawnFailed,
         BecameRunning, StartTimedOut
<1>r. \A a : Requires(a)' = Requires(a)
  BY <1>y DEF Requires, Named
<1>c. \A a : CanStart(a)' = CanStart(a)
  BY <1>r, <1>y DEF CanStart
<1> SUFFICES ChainOK(stack'[g], ret'[g])
  BY <1>r, <1>c DEF ChainOK, HardUpTo
<1> HIDE DEF n
<1>u. \A h : h < n /\ h \in DOMAIN s => h # n
  BY <1>n
<1>g. ASSUME NEW f \in Frames, f.obj = T.obj, f.hard \subseteq T.hard, NEW r,
             stack' = [stack EXCEPT ![g] = Append(Front(s), f)],
             ret'[g] = r, r = "err" => f.dep \notin f.hard \/ ~HardUpTo(s, n)
      PROVE  ChainOK(stack'[g], ret'[g])
  <2>1. ChainOK(Append(Front(s), f), r)
    BY <1>g, <1>t, ChainGoesOn DEF n
  <2> QED
    BY <2>1, <1>g, <1>y
<1>l. ASSUME NEW r \in {"ok", "err"}, LeaveStart(g, r), r = "err" => ~HardUpTo(s, n)
      PROVE  ChainOK(stack'[g], ret'[g])
  <2>1. ChainOK(Front(s), r)
    BY <1>l, <1>t, ChainLeaves DEF n
  <2>2. stack'[g] = Front(s) /\ ret'[g] = r
    BY <1>l, <1>y DEF LeaveStart
  <2> QED
    BY <2>1, <2>2
<1>1. CASE EnsureStarted(g)
  <2>1. PICK d \in IF T.hard # {} THEN T.hard ELSE T.soft :
          LET f == [T EXCEPT !.dep = d]
          IN  IF d \in Known
                THEN EnterStart(g, Append(Front(s), f), Latest(d))
                ELSE SetTop(g, f) /\ ret' = [ret EXCEPT ![g] = "err"]
    BY <1>1 DEF EnsureStarted
  <2> DEFINE f == [T EXCEPT !.dep = d]
             t == Append(Front(s), f)
  <2>2. f \in Frames /\ f.obj = T.obj /\ f.hard = T.hard /\ f.dep = d /\ d \in T.hard \cup T.soft
        /\ ret[g] = "none"
    BY <1>1, <1>t DEF Frames, EnsureStarted
  <2>3. IF d \in Known THEN EnterStart(g, t, Latest(d))
                       ELSE stack' = [stack EXCEPT ![g] = t] /\ ret' = [ret EXCEPT ![g] = "err"]
    BY <2>1 DEF SetTop
  <2> HIDE DEF f
  <2>4. t \in Seq(Frames) /\ t # <<>> /\ DOMAIN t = DOMAIN s /\ Len(t) = n /\ t[n] = f
        /\ \A i \in DOMAIN s : i # n => t[i] = s[i]
    BY <1>t, <2>2, Retopped DEF n
  <2>5. \A i \in DOMAIN t : t[i].obj = s[i].obj
    BY <2>2, <2>4, <1>n, <1>t
  <2>6. ASSUME d \in T.hard, HardUpTo(s, n)
        PROVE  CanStart(d) /\ d \in Known /\ ~Visited(t, Latest(d))
    <3>1. CanStart(T.obj[1]) /\ T.hard \subseteq Requires(T.obj[1])
      BY <2>6, <1>n, <1>t DEF ChainOK
    <3>2. d \in Requires(T.obj[1])
      BY <2>6, <3>1
    <3>3. CanStart(d) /\ d \in Known
      BY <3>1, <3>2, CanStartClosed, CanStartKnown
    <3>4. \A i \in DOMAIN s : s[i].obj[1] # d
      BY <1>i, <2>6, <3>2, NoRing DEF n
    <3> QED
      BY <3>3, <3>4, <2>4, <2>5 DEF Visited, Latest
  <2>7. CASE d \notin Known
    <3>1. stack' = [stack EXCEPT ![g] = t] /\ ret'[g] = "err"
      BY <2>3, <2>7, <1>y
    <3> QED
      BY <3>1, <2>2, <2>6, <2>7, <1>g
  <2>8. CASE d \in Known /\ (Visited(t, Latest(d)) \/ AnsweredAtOnce(Latest(d)))
    <3>1. /\ stack' = [stack EXCEPT ![g] = t]
          /\ ret'[g] = IF Visited(t, Latest(d)) THEN "err" ELSE "ok"
      BY <2>3, <2>8, <1>y DEF EnterStart
    <3> QED
      BY <3>1, <2>2, <2>6, <1>g
  <2>9. CASE d \in Known /\ ~(Visited(t, Latest(d)) \/ AnsweredAtOnce(Latest(d)))
    <3> DEFINE o == Latest(d)
               u == Append(t, Frame(o))
    <3>1. stack' = [stack EXCEPT ![g] = u] /\ ret' = ret
      BY <2>3, <2>9 DEF EnterStart
    <3>2. o \in Objects /\ o[1] = d
      BY <2>9, LatestType DEF BootInv
    <3>3. ChainOK(t, "none")
      BY <1>t, <2>2, ChainGoesOn
    <3>4. /\ DOMAIN u = 1..(n + 1) /\ u[n + 1] = Frame(o) /\ \A i \in 1..n : u[i] = t[i]
      BY <2>4, <3>2, <1>y, FrameType, Pushed
    <3>5. ASSUME HardUpTo(u, n + 1) PROVE CanStart(d)
      <4>1. n \in DOMAIN u /\ n < n + 1 /\ u[n] = f
        BY <3>4, <2>4, <1>n
      <4>2. d \in T.hard
        BY <4>1, <3>5, <2>2 DEF HardUpTo
      <4>3. HardUpTo(s, n)
        <5> SUFFICES ASSUME NEW j \in DOMAIN s, j < n PROVE s[j].dep \in s[j].hard
          BY DEF HardUpTo
        <5>1. j \in DOMAIN u /\ j < n + 1 /\ u[j] = t[j] /\ t[j] = s[j]
          BY <3>4, <2>4, <1>n
        <5> QED
          BY <5>1, <3>5 DEF HardUpTo
      <4> QED
        BY <4>2, <4>3, <2>6
    <3> HIDE DEF o
    <3>6. HardUpTo(Append(t, Frame(o)), Len(t) + 1) => CanStart(o[1])
      BY <3>2, <3>5, <2>4
    <3> HIDE DEF t
    <3>7. ChainOK(u, "none")
      BY <3>2, <3>3, <3>6, <2>4, <1>y, ChainEnters
    <3> QED
      BY <3>1, <3>7, <2>2, <1>y
  <2> QED
    BY <2>7, <2>8, <2>9
<1>2. CASE DependencyReturned(g)
  <2>0. ret[g] # "none"
    BY <1>2 DEF DependencyReturned
  <2>1. CASE Blocks(T, ret[g]) /\ LeaveStart(g, "err")
    <3>1. ret[g] = "err" /\ T.dep \in T.hard
      BY <2>1 DEF Blocks
    <3>2. PICK i \in DOMAIN s : s[i].dep \notin s[i].hard
      BY <3>1, <1>t DEF ChainOK
    <3>3. i # n /\ i < n
      BY <3>1, <3>2, <1>n, <1>t
    <3>4. ~HardUpTo(s, n)
      BY <3>2, <3>3 DEF HardUpTo
    <3> QED
      BY <3>4, <2>1, <1>l
  <2>2. CASE ret' = [ret EXCEPT ![g] = "none"] /\ SetTop(g, IF T.dep \in T.hard
                        THEN [T EXCEPT !.hard = @ \ {T.dep}, !.dep = 0]
                        ELSE [T EXCEPT !.soft = @ \ {T.dep}, !.dep = 0])
    <3> DEFINE f == IF T.dep \in T.hard
                      THEN [T EXCEPT !.hard = @ \ {T.dep}, !.dep = 0]
                      ELSE [T EXCEPT !.soft = @ \ {T.dep}, !.dep = 0]
    <3>1. f \in Frames /\ f.obj = T.obj /\ f.hard \subseteq T.hard
      BY <1>t DEF Frames
    <3>2. stack' = [stack EXCEPT ![g] = Append(Front(s), f)] /\ ret'[g] = "none"
      BY <2>2, <1>y DEF SetTop
    <3> HIDE DEF f
    <3> QED
      BY <3>1, <3>2, <1>g
  <2> QED
    BY <1>2, <2>1, <2>2 DEF DependencyReturned
<1>3. CASE Spawn(g)
  <2>1. T.pc = "deps" /\ ret[g] = "none" /\ Allowed(sm[T.obj], "starting")
    BY <1>3, <1>i, StartAllowed DEF Spawn, AtSpawn
  <2> DEFINE f == [T EXCEPT !.pc = IF T.obj \in children THEN "stale" ELSE "await"]
  <2>2. stack' = [stack EXCEPT ![g] = Append(Front(s), f)] /\ ret' = ret
    BY <1>3, <2>1 DEF Spawn, SetTop
  <2>3. f \in Frames /\ f.obj = T.obj /\ f.hard = T.hard
    BY <1>t DEF Frames
  <2> HIDE DEF f
  <2> QED
    BY <2>1, <2>2, <2>3, <1>g
<1>4. CASE BecameRunning(g)
  <2>1. Allowed(sm[T.obj], "running")
    BY <1>4, <1>i, StartAllowed DEF BecameRunning
  <2>2. LeaveStart(g, "ok")
    BY <1>4, <2>1 DEF BecameRunning
  <2> QED
    BY <2>2, <1>l
<1>5. CASE SpawnFailed(g) \/ StartTimedOut(g)
  BY <1>5 DEF SpawnFailed, StartTimedOut
<1> QED
  BY <1>1, <1>2, <1>3, <1>4, <1>5 DEF StartStep

\* What was started is enabled and known, and so is what it requires.
StartedOK(st) ==
    \A x \in st : /\ x \in Agents /\ scene.kind[x] \in {"service", "lazy"}
                  /\ Requires(x) \subseteq st \ {x}

\* What setupAgents has before it, in an order of the hard edges; what can start
\* is there or was started.
TodoOK(td, st) ==
    /\ td \in Seq(Known) /\ Distinct(td)
    /\ \A x \in st : ~Listed(x, td)
    /\ \A i, j \in DOMAIN td : <<td[i], td[j]>> \in DownEdges => j < i
    /\ \A a \in Agents : CanStart(a) => a \in st \/ Listed(a, td)

\* The agent that setupAgents is starting.
CalledOK(g) ==
    /\ setup.todo # <<>> /\ scene.kind[Head(setup.todo)] = "service"
    /\ ~MissingReq(Head(setup.todo))
    /\ ChainOK(stack[g], ret[g])

\* A round of setupAgents in which nothing failed and nobody else was at work.
RoundOK == ~overlap /\ ~failed /\ setup.pc # "discover" /\ ~TopologicalSort.err

StartsInv ==
    RoundOK =>
      /\ StartedOK(setup.started)
      /\ setup.pc = "idle" => \A a \in Agents : CanStart(a) => a \in setup.started
      /\ setup.pc # "idle" => TodoOK(setup.todo, setup.started)
      /\ setup.pc = "called" => CalledOK(SetupBy)

\* The next agent can be started if it is one that can start.
LEMMA HeadStartable ==
    ASSUME BootInv, KnownInv, setup.pc = "loop", TodoOK(setup.todo, setup.started),
           setup.todo # <<>>, CanStart(Head(setup.todo))
    PROVE  Startable(Head(setup.todo))
<1> DEFINE td == setup.todo
           a == Head(td)
<1>1. td \in Seq(Known) /\ 1 \in DOMAIN td /\ a = td[1]
  BY TailOf DEF TodoOK
<1>2. a \in Known /\ scene.kind[a] \in {"service", "lazy"}
  BY CanStartKnown
<1>3. ASSUME NEW d \in Requires(a) PROVE d \in setup.started
  <2>1. CanStart(d) /\ d # a /\ d \in Agents
    BY CanStartClosed
  <2>2. d \in Known
    BY <2>1, CanStartKnown
  <2>3. <<a, d>> \in DownEdges
    BY <1>2, <2>1, <2>2, RequiredEdge
  <2>4. ~Listed(d, td)
    <3> SUFFICES ASSUME NEW j \in DOMAIN td, td[j] = d PROVE FALSE
      BY DEF Listed
    <3>1. j < 1 /\ j \in DOMAIN td
      BY <1>1, <2>3 DEF TodoOK
    <3>2. DOMAIN td = 1..Len(td)
      BY <1>1
    <3> QED
      BY <3>1, <3>2
  <2> QED
    BY <2>1, <2>4 DEF TodoOK
<1> QED
  BY <1>2, <1>3 DEF Startable, Recorded, Enabled, MissingReq

\* An agent whose requirements were started can start, and joins the started.
LEMMA HeadJoins ==
    ASSUME StartedOK(setup.started), TodoOK(setup.todo, setup.started), setup.todo # <<>>,
           scene.kind[Head(setup.todo)] \in {"service", "lazy"}, ~MissingReq(Head(setup.todo))
    PROVE  /\ StartedOK(setup.started \cup {Head(setup.todo)})
           /\ CanStart(Head(setup.todo))
<1> DEFINE td == setup.todo
           a == Head(td)
           S == setup.started \cup {a}
<1>1. td \in Seq(Known) /\ a \in Known /\ Listed(a, td)
  BY TailOf DEF TodoOK, Listed
<1>2. a \in Agents /\ a \notin setup.started /\ Requires(a) \subseteq setup.started
  BY <1>1 DEF Known, TodoOK, MissingReq
<1> HIDE DEF a, td
<1>3. StartedOK(S)
  BY <1>2 DEF StartedOK, a, td
<1>4. S \in SUBSET Agents
  BY <1>2 DEF StartedOK
<1> QED
  BY <1>3, <1>4 DEF CanStart, StartedOK, a, td

\* The list without its first agent, which was started unless it cannot.
LEMMA HeadPassed ==
    ASSUME NEW td, NEW st, TodoOK(td, st), td # <<>>, NEW new \in {st, st \cup {Head(td)}},
           CanStart(Head(td)) => Head(td) \in new
    PROVE  TodoOK(Tail(td), new)
<1>1. td \in Seq(Known) /\ Distinct(td)
  BY DEF TodoOK
<1> DEFINE t == Tail(td)
<1>2. /\ t \in Seq(Known)
      /\ \A i \in DOMAIN t : i \in Nat /\ i + 1 \in DOMAIN td /\ t[i] = td[i + 1]
      /\ \A x : Listed(x, td) <=> x = Head(td) \/ Listed(x, t)
      /\ Distinct(t) /\ ~Listed(Head(td), t)
  BY <1>1, TailOf
<1> HIDE DEF t
<1>3. \A x \in new : ~Listed(x, t)
  BY <1>2 DEF TodoOK
<1>4. ASSUME NEW i \in DOMAIN t, NEW j \in DOMAIN t, <<t[i], t[j]>> \in DownEdges PROVE j < i
  <2>1. j + 1 < i + 1
    BY <1>2, <1>4 DEF TodoOK
  <2> QED
    BY <2>1, <1>2
<1>5. \A a \in Agents : CanStart(a) => a \in new \/ Listed(a, t)
  BY <1>2 DEF TodoOK
<1> QED
  BY <1>2, <1>3, <1>4, <1>5 DEF TodoOK, t

\* The order of the sort is one to go through.
LEMMA OrderIsTodo ==
    ASSUME GraphKept, ~TopologicalSort.err, \A a \in Agents : CanStart(a) => a \in Known
    PROVE  TodoOK(TopologicalSort.order, {})
<1> DEFINE o == TopologicalSort.order
<1>1. OrderSound /\ SortResult(Known, TopologicalSort)
  BY OrderFacts
<1>2. o \in Seq(Known) /\ Distinct(o)
  BY <1>1 DEF SortResult
<1>3. ToSet(o) = Known /\ \A e \in DownEdges : Before(o, e[2], e[1])
  BY <1>1 DEF OrderSound, IsStartOrder, DownEdges
<1>4. \A a \in Known : Listed(a, o)
  BY <1>3 DEF ToSet, Listed
<1>5. ASSUME NEW i \in DOMAIN o, NEW j \in DOMAIN o, <<o[i], o[j]>> \in DownEdges PROVE j < i
  <2>1. Before(o, o[j], o[i])
    BY <1>3, <1>5
  <2>2. PICK x \in DOMAIN o, y \in DOMAIN o : x < y /\ o[x] = o[j] /\ o[y] = o[i]
    BY <2>1 DEF Before
  <2>3. x = j /\ y = i
    BY <2>2, <1>2 DEF Distinct
  <2> QED
    BY <2>2, <2>3
<1> HIDE DEF o
<1> QED
  BY <1>2, <1>4, <1>5 DEF TodoOK, o

\* What the invariant says of the declarations and the sort is kept with them.
LEMMA DeclaredKept ==
    ASSUME scene'.graph = scene.graph, scene'.kind = scene.kind
    PROVE  /\ \A a : Requires(a)' = Requires(a) /\ CanStart(a)' = CanStart(a)
           /\ \A S : StartedOK(S)' = StartedOK(S)
           /\ cur' = cur => /\ Known' = Known /\ TopologicalSort' = TopologicalSort
                            /\ \A td, st : TodoOK(td, st)' = TodoOK(td, st)
<1>1. \A a : Requires(a)' = Requires(a)
  BY DEF Requires, Named
<1>2. \A a : CanStart(a)' = CanStart(a)
  BY <1>1 DEF CanStart
<1>3. \A S : StartedOK(S)' = StartedOK(S)
  BY <1>1 DEF StartedOK
<1>4. ASSUME cur' = cur
      PROVE  /\ Known' = Known /\ TopologicalSort' = TopologicalSort
             /\ \A td, st : TodoOK(td, st)' = TodoOK(td, st)
  <2>1. Known' = Known
    BY <1>4 DEF Known
  <2>2. TopologicalSort' = TopologicalSort
    BY <2>1 DEF TopologicalSort
  <2>3. DownEdges' = DownEdges
    BY <2>1 DEF DownEdges, Hard
  <2>4. \A td, st : TodoOK(td, st)' = TodoOK(td, st)
    BY <2>1, <2>3, <1>2 DEF TodoOK
  <2> QED
    BY <2>1, <2>2, <2>4
<1> QED
  BY <1>1, <1>2, <1>3, <1>4

\* setupAgents passes an agent: it was not startable, or it was armed or started.
LEMMA PassStep ==
    ASSUME BootInv, KnownInv, StartsInv, RoundOK, SkipAgent \/ ArmAgent \/ AgentStarted,
           RoundOK', scene' = scene, cur' = cur
    PROVE  StartsInv'
<1> DEFINE td == setup.todo
           st == setup.started
           a == Head(td)
<1>0. setup = [pc |-> setup.pc, started |-> setup.started, todo |-> setup.todo]
  BY DEF BootInv, BootShape
<1>1. td # <<>> /\ setup.pc \in {"loop", "called"} /\ StartedOK(st) /\ TodoOK(td, st)
  BY DEF SkipAgent, ArmAgent, AgentStarted, AtAgent, StartsInv, CalledOK
<1>2. ASSUME NEW new, SetupNext(new), new \in {st, st \cup {a}}, CanStart(a) => a \in new,
             StartedOK(new)
      PROVE  StartsInv'
  <2>1. setup'.pc = "loop" /\ setup'.todo = Tail(td) /\ setup'.started = new
    BY <1>0, <1>2 DEF SetupNext
  <2>2. TodoOK(Tail(td), new)
    BY <1>1, <1>2, HeadPassed
  <2>3. StartedOK(new)' /\ TodoOK(Tail(td), new)
    BY <1>2, <2>2, DeclaredKept
  <2> HIDE DEF td
  <2>4. StartedOK(setup.started)'
    BY <2>1, <2>3 DEF StartedOK
  <2>5. TodoOK(setup.todo, setup.started)'
    <3>1. TodoOK(setup'.todo, setup'.started)
      BY <2>1, <2>2
    <3>2. \A t, s : TodoOK(t, s)' = TodoOK(t, s)
      BY DeclaredKept
    <3>3. /\ Known' = Known /\ DownEdges' = DownEdges
          /\ \A x : CanStart(x)' = CanStart(x)
      BY DeclaredKept DEF DownEdges, Hard
    <3> QED
      BY <3>1, <3>3 DEF TodoOK
  <2> QED
    BY <2>1, <2>4, <2>5 DEF StartsInv
<1>3. CASE SkipAgent
  <2>1. SetupNext(st) /\ setup.pc = "loop" /\ ~Startable(a)
    BY <1>3 DEF SkipAgent, AtAgent
  <2>2. ~CanStart(a)
    BY <2>1, <1>1, HeadStartable
  <2> QED
    BY <2>1, <2>2, <1>1, <1>2
<1>4. CASE ArmAgent
  <2>1. scene.kind[a] = "lazy" /\ Startable(a) /\ SetupNext(st \cup {a})
    BY <1>4 DEF ArmAgent, RoundOK
  <2>2. StartedOK(st \cup {a})
    BY <2>1, <1>1, HeadJoins DEF Startable
  <2> QED
    BY <2>1, <2>2, <1>2
<1>5. CASE AgentStarted
  <2>1. CalledOK(SetupBy) /\ setup.pc = "called" /\ ~Inside(SetupBy)
    BY <1>5 DEF AgentStarted, StartsInv, Returned
  <2>2. ret[SetupBy] = "ok"
    BY <2>1 DEF CalledOK, ChainOK, Inside
  <2>3. SetupNext(st \cup {a})
    BY <1>5, <2>2 DEF AgentStarted
  <2>4. StartedOK(st \cup {a})
    BY <2>1, <1>1, HeadJoins DEF CalledOK
  <2> QED
    BY <2>3, <2>4, <1>2
<1> QED
  BY <1>3, <1>4, <1>5

\* setupAgents starts an agent.
LEMMA CallsStart ==
    ASSUME BootInv, StartsInv, RoundOK, StartAgent, scene' = scene, cur' = cur
    PROVE  StartsInv'
<1> DEFINE td == setup.todo
           a == Head(td)
           g == SetupBy
           o == Latest(a)
<1>0. setup = [pc |-> setup.pc, started |-> setup.started, todo |-> setup.todo]
      /\ stack \in [Goroutines -> Seq(Frames)] /\ ret \in [Goroutines -> {"none", "ok", "err"}]
      /\ scene \in Scene
  BY DEF BootInv, BootShape
<1>1. /\ setup.pc = "loop" /\ td # <<>> /\ scene.kind[a] = "service" /\ Startable(a) /\ a \in Known
      /\ EnterStart(g, <<>>, o) /\ setup' = [setup EXCEPT !.pc = "called"] /\ phase' = phase
  BY DEF StartAgent, AtAgent, Startable
<1>2. setup'.pc = "called" /\ setup'.todo = td /\ setup'.started = setup.started
  BY <1>0, <1>1
<1>3. o \in Objects /\ o[1] = a
  BY <1>1, LatestType DEF BootInv
<1>4. g \in Goroutines /\ stack[g] = <<>> /\ ret[g] = "none" /\ SetupBy' = g
  BY <1>1 DEF SetupBy, Goroutines, BootInv, PlaceInv, Inside
<1>5. StartedOK(setup.started) /\ TodoOK(td, setup.started)
  BY <1>1 DEF StartsInv
<1>6. CanStart(a)
  BY <1>1, <1>5, HeadJoins DEF Startable
<1>7. ChainOK(stack'[g], ret'[g])
  <2>e. <<>> \in Seq(Frames) /\ DOMAIN <<>> = {} /\ Len(<<>>) = 0
    OBVIOUS
  <2>1. CASE AnsweredAtOnce(o)
    <3>1. stack'[g] = <<>> /\ ret'[g] = "ok"
      BY <1>0, <1>1, <1>4, <2>1, <2>e DEF EnterStart, Visited
    <3> QED
      BY <3>1, <2>e DEF ChainOK
  <2>2. CASE ~AnsweredAtOnce(o)
    <3>1. stack'[g] = Append(<<>>, Frame(o)) /\ ret'[g] = "none"
      BY <1>0, <1>1, <1>4, <2>2, <2>e DEF EnterStart, Visited
    <3> DEFINE e == <<>>
    <3>2. e \in Seq(Frames) /\ DOMAIN e = {} /\ CanStart(o[1])
      BY <1>3, <1>6, <2>e
    <3> HIDE DEF o, e
    <3>3. e \in Seq(Frames) /\ (DOMAIN e # {} => ChainOK(e, "none"))
      BY <3>2
    <3>4. HardUpTo(Append(e, Frame(o)), Len(e) + 1) => CanStart(o[1])
      BY <3>2
    <3>5. ChainOK(Append(e, Frame(o)), "none")
      BY <1>0, <1>3, <3>3, <3>4, ChainEnters
    <3> QED
      BY <3>1, <3>5 DEF e
  <2> QED
    BY <2>1, <2>2
<1> HIDE DEF td, a, g, o
<1>8. \A x : Requires(x)' = Requires(x) /\ CanStart(x)' = CanStart(x)
  BY DeclaredKept
<1>9. ChainOK(stack[SetupBy], ret[SetupBy])'
  BY <1>4, <1>7, <1>8 DEF ChainOK, HardUpTo
<1>10. CalledOK(SetupBy)'
  BY <1>1, <1>2, <1>8, <1>9 DEF CalledOK, MissingReq, Startable, td, a
<1>11. StartedOK(setup.started)' /\ TodoOK(setup.todo, setup.started)'
  <2>1. Known' = Known /\ DownEdges' = DownEdges
    BY DeclaredKept DEF DownEdges, Hard
  <2> QED
    BY <2>1, <1>2, <1>5, <1>8 DEF StartedOK, TodoOK
<1> QED
  BY <1>2, <1>10, <1>11 DEF StartsInv

\* The round begins with the sort and ends with an empty list.
LEMMA RoundEnds ==
    ASSUME BootInv, GraphKept, KnownInv, StartsInv, SortAgents \/ SetupDone, RoundOK'
    PROVE  StartsInv'
<1>0. setup = [pc |-> setup.pc, started |-> setup.started, todo |-> setup.todo]
      /\ scene' = scene /\ cur' = cur /\ UNCHANGED <<overlap, failed>>
  BY DEF BootInv, BootShape, SortAgents, SetupDone, objVars, histVars
<1>8. \A x : Requires(x)' = Requires(x) /\ CanStart(x)' = CanStart(x)
  BY <1>0, DeclaredKept
<1>9. Known' = Known /\ DownEdges' = DownEdges /\ TopologicalSort' = TopologicalSort
  BY <1>0, DeclaredKept DEF DownEdges, Hard
<1>1. CASE SortAgents
  <2>1. /\ setup.pc = "discover" /\ setup.todo = <<>> /\ ~TopologicalSort.err
        /\ setup'.pc = "loop" /\ setup'.started = {} /\ setup'.todo = TopologicalSort.order
    BY <1>1, <1>9 DEF SortAgents, RoundOK
  <2>2. \A a \in Agents : CanStart(a) => a \in Known
    <3> SUFFICES ASSUME NEW a \in Agents, CanStart(a) PROVE a \in Known
      OBVIOUS
    <3>1. Found(a) /\ ~Listed(a, <<>>)
      BY DEF CanStart, Found, Listed
    <3> QED
      BY <3>1, <2>1 DEF KnownInv, Known
  <2>3. TodoOK(TopologicalSort.order, {})
    BY <2>1, <2>2, OrderIsTodo
  <2>4. TodoOK(setup'.todo, setup'.started)
    BY <2>1, <2>3
  <2>5. TodoOK(setup.todo, setup.started)'
    BY <2>4, <1>8, <1>9 DEF TodoOK
  <2>6. StartedOK(setup.started)'
    BY <2>1 DEF StartedOK
  <2> QED
    BY <2>1, <2>5, <2>6 DEF StartsInv
<1>2. CASE SetupDone
  <2>1. /\ setup.pc = "loop" /\ setup.todo = <<>> /\ setup'.pc = "idle"
        /\ setup'.started = setup.started /\ RoundOK
    BY <1>2, <1>0, <1>9 DEF SetupDone, RoundOK
  <2>2. StartedOK(setup.started) /\ TodoOK(<<>>, setup.started)
    BY <2>1 DEF StartsInv
  <2>3. \A a \in Agents : CanStart(a) => a \in setup.started
    BY <2>2 DEF TodoOK, Listed
  <2> QED
    BY <2>1, <2>2, <2>3, <1>0, <1>8 DEF StartsInv, StartedOK
<1> QED
  BY <1>1, <1>2

\* A step that leaves setupAgents, and the start it is in, alone.
LEMMA StartsSame ==
    ASSUME StartsInv, scene'.graph = scene.graph, scene'.kind = scene.kind, cur' = cur,
           setup' = setup, overlap => overlap', failed => failed',
           setup.pc = "called" /\ ~overlap' => UNCHANGED <<SetupBy, stack[SetupBy], ret[SetupBy]>>
    PROVE  StartsInv'
<1> SUFFICES ASSUME RoundOK' PROVE StartsInv'
  BY DEF StartsInv
<1>8. \A x : Requires(x)' = Requires(x) /\ CanStart(x)' = CanStart(x)
  BY DeclaredKept
<1>9. Known' = Known /\ DownEdges' = DownEdges /\ TopologicalSort' = TopologicalSort
  BY DeclaredKept DEF DownEdges, Hard
<1>1. RoundOK
  BY <1>9 DEF RoundOK
<1>2. StartedOK(setup.started)'
  BY <1>1, <1>8 DEF StartsInv, StartedOK
<1>3. ASSUME setup.pc # "idle" PROVE TodoOK(setup.todo, setup.started)'
  BY <1>1, <1>3, <1>8, <1>9 DEF StartsInv, TodoOK
<1>4. ASSUME setup.pc = "called" PROVE CalledOK(SetupBy)'
  <2>1. CalledOK(SetupBy) /\ UNCHANGED <<SetupBy, stack[SetupBy], ret[SetupBy]>>
    BY <1>1, <1>4 DEF StartsInv, RoundOK
  <2> QED
    BY <2>1, <1>8 DEF CalledOK, MissingReq, ChainOK, HardUpTo
<1> QED
  BY <1>1, <1>2, <1>3, <1>4, <1>8 DEF StartsInv

\* Whoever runs setupAgents is at work.
LEMMA SetupBusy ==
    ASSUME setup.pc # "idle" PROVE SetupBy \in Goroutines /\ Busy(SetupBy)
BY DEF SetupBy, Goroutines, Busy

\* A step of setupAgents.
LEMMA SetupStarts ==
    ASSUME BootInv, GraphKept, KnownInv, StartsInv, SetupStep
    PROVE  StartsInv'
<1> SUFFICES ASSUME RoundOK' PROVE StartsInv'
  BY DEF StartsInv
<1>0. setup = [pc |-> setup.pc, started |-> setup.started, todo |-> setup.todo]
  BY DEF BootInv, BootShape
<1>1. CASE Discover
  BY <1>0, <1>1 DEF Discover, AtAgent, RoundOK
<1>2. CASE SortAgents \/ SetupDone
  BY <1>2, RoundEnds
<1>3. CASE SkipAgent \/ ArmAgent \/ AgentStarted \/ StartAgent
  <2>1. scene' = scene /\ cur' = cur /\ (overlap => overlap') /\ (failed => failed')
        /\ setup.pc \in {"loop", "called"}
    BY <1>3 DEF SkipAgent, ArmAgent, AgentStarted, StartAgent, objVars, histVars, AtAgent
  <2>2. TopologicalSort' = TopologicalSort
    BY <2>1, DeclaredKept
  <2>3. RoundOK
    BY <2>1, <2>2 DEF RoundOK
  <2> QED
    BY <1>3, <2>1, <2>3, PassStep, CallsStart
<1> QED
  BY <1>1, <1>2, <1>3 DEF SetupStep

\* A step inside of a start or a stop: while setupAgents is in a start of its own,
\* it is a step of that start.
LEMMA CallStarts ==
    ASSUME BootInv, GraphKept, KnownInv, HaltInv, AwaitInv, StartsInv,
           NEW g \in Goroutines, CallStep(g)
    PROVE  StartsInv'
<1> SUFFICES ASSUME RoundOK' PROVE StartsInv'
  BY DEF StartsInv
<1>1. UNCHANGED <<scene, cur, setup, phase, overlap>> /\ (failed => failed') /\ ~failed' /\ ~overlap'
  BY DEF CallStep, StartStep, EnsureStarted, DependencyReturned, Spawn, SpawnFailed,
         BecameRunning, StartTimedOut, FinishStop, CallDone, objVars, runVars, histVars, RoundOK
<1>2. CASE setup.pc # "called"
  BY <1>1, <1>2, StartsSame
<1>3. CASE setup.pc = "called"
  <2>1. SetupBy \in Goroutines /\ Busy(SetupBy) /\ SetupBy' = SetupBy
    BY <1>1, <1>3, SetupBusy DEF SetupBy
  <2>2. Busy(g)
    BY DEF CallStep, StartStep, EnsureStarted, DependencyReturned, Spawn, SpawnFailed,
           BecameRunning, StartTimedOut, AtSpawn, FinishStop, CallDone, Returned, Busy, Idle
  <2>3. g = SetupBy
    BY <1>1, <2>1, <2>2 DEF BootInv, OneBusy
  <2>4. ~FinishStop(g)
    <3>1. halting[SetupBy] = NoObject
      BY DEF SetupBy, BootInv, PlaceInv
    <3> QED
      BY <2>3, <3>1 DEF FinishStop
  <2>5. ~CallDone(g)
    BY <2>3 DEF CallDone, SetupBy
  <2>6. StartStep(g)
    BY <2>4, <2>5 DEF CallStep
  <2>7. /\ \A x : Requires(x)' = Requires(x) /\ CanStart(x)' = CanStart(x)
        /\ Known' = Known /\ DownEdges' = DownEdges /\ TopologicalSort' = TopologicalSort
    BY <1>1, DeclaredKept DEF DownEdges, Hard
  <2>8. RoundOK
    BY <1>1, <2>7 DEF RoundOK
  <2>9. StartedOK(setup.started) /\ TodoOK(setup.todo, setup.started) /\ CalledOK(SetupBy)
    BY <1>3, <2>8 DEF StartsInv
  <2>10. ChainOK(stack[g], ret[g])'
    BY <1>1, <1>3, <2>3, <2>6, <2>8, <2>9, ChainStep DEF CalledOK, RoundOK
  <2>11. CalledOK(SetupBy)'
    <3>1. ChainOK(stack[SetupBy], ret[SetupBy])'
      BY <2>1, <2>3, <2>10 DEF ChainOK, HardUpTo
    <3> QED
      BY <3>1, <1>1, <2>7, <2>9 DEF CalledOK, MissingReq
  <2>12. StartedOK(setup.started)' /\ TodoOK(setup.todo, setup.started)'
    BY <1>1, <2>7, <2>9 DEF StartedOK, TodoOK
  <2> QED
    BY <1>1, <1>3, <2>11, <2>12 DEF StartsInv
<1> QED
  BY <1>2, <1>3

\* The invariant of a round is inductive.
LEMMA StartsStep ==
    ASSUME BootInv, GraphKept, KnownInv, HaltInv, AwaitInv, StartsInv, [Next]_vars
    PROVE  StartsInv'
<1> SUFFICES ASSUME RoundOK' PROVE StartsInv'
  BY DEF StartsInv
<1>0. scene'.graph = scene.graph /\ scene'.kind = scene.kind /\ ~overlap'
  BY SceneKept DEF RoundOK
<1>b. Began => ~overlap /\ setup.pc = "idle"
  BY <1>0, NobodyBusy, SetupBusy
<1>1. CASE UNCHANGED vars \/ \E o \in Objects : Crash(o)
  <2>1. UNCHANGED <<cur, setup, stack, ret, phase, overlap, failed>>
    BY <1>1 DEF Crash, vars, objVars, callVars, runVars, histVars
  <2>2. UNCHANGED <<SetupBy, stack[SetupBy], ret[SetupBy]>>
    BY <2>1 DEF SetupBy
  <2> QED
    BY <2>1, <2>2, <1>0, StartsSame
<1>2. CASE Reload
  <2>1. setup'.pc = "discover"
    BY <1>2 DEF Reload, BootInv, BootShape
  <2> QED
    BY <2>1 DEF RoundOK
<1>3. CASE \/ Shutdown \/ \E a \in Agents : VerbStart(a) \/ VerbStop(a)
           \/ \E o \in Objects : Traffic(o)
  <2>1. UNCHANGED <<cur, setup, failed>> /\ Began
    BY <1>3 DEF Shutdown, VerbStart, VerbStop, Traffic, objVars, runVars
  <2>2. ~overlap /\ setup.pc = "idle"
    BY <2>1, <1>b
  <2> QED
    BY <2>1, <2>2, <1>0, StartsSame
<1>4. CASE StopAllStep
  <2>1. UNCHANGED <<cur, setup, failed, overlap>> /\ phase = "stopping"
    BY <1>4 DEF StopAllStep, StopAgent, AgentStopped, Exit, objVars, runVars, histVars
  <2>2. setup.pc = "idle"
    BY <2>1, <1>0, OnlyMain
  <2> QED
    BY <2>1, <2>2, <1>0, StartsSame
<1> QED
  BY <1>1, <1>2, <1>3, <1>4, SetupStarts, CallStarts DEF Next, Step

\* For any agents, kinds and declarations: boot, and a reload, starts or arms
\* exactly the agents that can start, when nothing fails, nothing else is at work
\* and no hard cycle was declared.
THEOREM BootStartsWhatCanStart == Spec => []BootStartsAll
<1> DEFINE I == BootInv /\ GraphKept /\ KnownInv /\ HaltInv /\ AwaitInv /\ StartsInv
<1>1. Init => I
  <2> SUFFICES ASSUME Init PROVE GraphKept /\ KnownInv /\ HaltInv /\ AwaitInv /\ StartsInv
    BY BootInitInv
  <2>1. GraphKept
    BY DEF Init, BootAt, GraphKept
  <2>2. setup.pc = "discover" /\ setup.todo = Sorted(Agents)
    BY DEF Init, BootAt
  <2>3. KnownInv /\ StartsInv
    BY <2>2, AllListed DEF KnownInv, StartsInv, RoundOK
  <2>4. HaltInv /\ AwaitInv
    BY DEF Init, BootAt, HaltInv, AwaitInv
  <2> QED
    BY <2>1, <2>3, <2>4
<1>2. I /\ [Next]_vars => I'
  BY BootStepInv, GraphStep, KnownStep, HaltStep, AwaitStep, StartsStep
<1>3. I => BootStartsAll
  <2> SUFFICES ASSUME I, phase = "serving", setup.pc = "idle", ~overlap, ~failed,
                      ~TopologicalSort.err
               PROVE  setup.started = {a \in Agents : CanStart(a)}
    BY DEF BootStartsAll
  <2>1. StartedOK(setup.started) /\ \A a \in Agents : CanStart(a) => a \in setup.started
    BY DEF StartsInv, RoundOK
  <2>2. setup.started \in SUBSET Agents
    BY <2>1 DEF StartedOK
  <2>3. \A a \in setup.started : CanStart(a)
    BY <2>1, <2>2 DEF StartedOK, CanStart
  <2> QED
    BY <2>1, <2>2, <2>3
<1> QED
  BY <1>1, <1>2, <1>3, PTL DEF Spec

-----------------------------------------------------------------------------
(* The registry's path search.  A path's cost is a sum along it, and what  *)
(* holds at its first node and passes along every edge holds at its last:  *)
(* the settled nodes have final distances, and an estimate that no edge    *)
(* beats is at most what any path costs.                                   *)

\* What the way to each node of a path costs.
CostsAlong(p, f) ==
    /\ f \in [1..Len(p) -> Nat] /\ f[1] = 0
    /\ \A i \in 1..(Len(p) - 1) : f[i + 1] = f[i] + stored[<<p[i], "requires", p[i + 1]>>]

Weighed == DOMAIN stored \subseteq Triples /\ \A k \in DOMAIN stored : stored[k] \in Nat

\* A number for every place up to m that holds at the first and passes on holds
\* at the last.
LEMMA AlongPath ==
    ASSUME NEW m \in Nat \ {0}, NEW T, 1 \in T,
           \A i \in 1..(m - 1) : i \in T => i + 1 \in T
    PROVE  \A i \in 1..m : i \in T
<1> DEFINE U == {n \in Nat : n + 1 \in 1..m => n + 1 \in T}
<1>1. 0 \in U
  OBVIOUS
<1>2. ASSUME NEW n \in U PROVE n + 1 \in U
  <2> SUFFICES ASSUME (n + 1) + 1 \in 1..m PROVE (n + 1) + 1 \in T
    BY <1>2
  <2>1. n + 1 \in 1..(m - 1) /\ n + 1 \in 1..m
    BY <1>2
  <2> QED
    BY <2>1, <1>2
<1>3. U = Nat
  <2>1. U \in SUBSET Nat
    OBVIOUS
  <2> HIDE DEF U
  <2> QED
    BY <1>1, <1>2, <2>1, SetInduction
<1> SUFFICES ASSUME NEW i \in 1..m PROVE i \in T
  OBVIOUS
<1>4. i - 1 \in Nat /\ (i - 1) + 1 = i
  OBVIOUS
<1>5. i - 1 \in U
  BY <1>3, <1>4
<1> QED
  BY <1>4, <1>5

\* The costs along a path exist.
LEMMA CostsExist ==
    ASSUME Weighed, NEW p \in Seq(Ids), Len(p) # 0, IsPath(p)
    PROVE  \E f : CostsAlong(p, f)
<1> DEFINE n == Len(p)
           W(i) == stored[<<p[i], "requires", p[i + 1]>>]
           Up(m, f) == /\ f \in [1..m -> Nat] /\ f[1] = 0
                       /\ \A i \in 1..(m - 1) : f[i + 1] = f[i] + W(i)
           T == {m \in Nat : \E f : Up(m, f)}
<1>1. n \in Nat \ {0}
  OBVIOUS
<1>2. \A i \in 1..(n - 1) : W(i) \in Nat
  BY DEF Weighed, IsPath
<1>3. 1 \in T
  <2>1. Up(1, [i \in 1..1 |-> 0])
    OBVIOUS
  <2> HIDE DEF Up
  <2> QED
    BY <2>1
<1>4. ASSUME NEW m \in 1..(n - 1), m \in T PROVE m + 1 \in T
  <2>1. PICK f : Up(m, f)
    BY <1>4
  <2> DEFINE g == [i \in 1..(m + 1) |-> IF i = m + 1 THEN f[m] + W(m) ELSE f[i]]
  <2>0. m \in Nat /\ m >= 1 /\ W(m) \in Nat
    BY <1>1, <1>2
  <2> HIDE DEF W, n
  <2>2. g \in [1..(m + 1) -> Nat] /\ g[1] = 0
    BY <2>0, <2>1
  <2>3. \A i \in 1..m : g[i + 1] = g[i] + W(i)
    BY <2>0, <2>1
  <2>4. Up(m + 1, g)
    <3>1. (m + 1) - 1 = m
      BY <2>0
    <3> HIDE DEF g
    <3> QED
      BY <2>2, <2>3, <3>1
  <2> HIDE DEF Up
  <2> QED
    BY <2>0, <2>4
<1>5. n \in T
  <2> HIDE DEF T, n
  <2>1. \A i \in 1..n : i \in T
    BY <1>1, <1>3, <1>4, AlongPath
  <2> QED
    BY <1>1, <2>1
<1> QED
  BY <1>5 DEF CostsAlong

\* They are unique, and PathCost is the last of them.
LEMMA CostIs ==
    ASSUME NEW p, NEW f, Len(p) \in Nat \ {0}, CostsAlong(p, f)
    PROVE  PathCost(p) = f[Len(p)]
<1> DEFINE upTo[i \in 1..Len(p)] ==
              IF i = 1 THEN 0 ELSE upTo[i - 1] + stored[<<p[i - 1], "requires", p[i]>>]
           T == {i \in 1..Len(p) : upTo[i] = f[i]}
           n == Len(p)
<1>1. PathCost(p) = upTo[n]
  BY DEF PathCost
<1>2. f = [i \in 1..Len(p) |->
             IF i = 1 THEN 0 ELSE f[i - 1] + stored[<<p[i - 1], "requires", p[i]>>]]
  <2>1. ASSUME NEW i \in 1..n, i # 1
        PROVE  f[i] = f[i - 1] + stored[<<p[i - 1], "requires", p[i]>>]
    <3>1. i - 1 \in 1..(n - 1) /\ (i - 1) + 1 = i
      BY <2>1
    <3> QED
      BY <3>1 DEF CostsAlong
  <2> QED
    BY <2>1 DEF CostsAlong
<1>3. upTo = [i \in 1..Len(p) |->
             IF i = 1 THEN 0 ELSE upTo[i - 1] + stored[<<p[i - 1], "requires", p[i]>>]]
  BY <1>2 DEF upTo
<1> HIDE DEF upTo
<1>4. 1 \in T
  BY <1>2, <1>3
<1>5. ASSUME NEW i \in 1..(n - 1), i \in T PROVE i + 1 \in T
  <2>1. i \in 1..n /\ i + 1 \in 1..n /\ i + 1 # 1 /\ (i + 1) - 1 = i
    OBVIOUS
  <2>2. upTo[i + 1] = upTo[i] + stored[<<p[i], "requires", p[i + 1]>>]
    BY <1>3, <2>1
  <2>3. f[i + 1] = f[i] + stored[<<p[i], "requires", p[i + 1]>>]
    BY DEF CostsAlong
  <2> QED
    BY <1>5, <2>1, <2>2, <2>3
<1>6. \A i \in 1..n : i \in T
  <2> HIDE DEF T, n
  <2>1. n \in Nat \ {0}
    BY DEF n
  <2> QED
    BY <1>4, <1>5, <2>1, AlongPath
<1> QED
  BY <1>1, <1>6

\* The path of one node costs nothing.
LEMMA CostOfNode ==
    ASSUME NEW s
    PROVE  PathCost(<<s>>) = 0 /\ IsPath(<<s>>)
<1> DEFINE p == <<s>>
           f == [i \in 1..1 |-> 0]
<1>1. Len(p) \in Nat \ {0} /\ 1..Len(p) = 1..1 /\ 1..(Len(p) - 1) = {} /\ f[Len(p)] = 0
  OBVIOUS
<1> HIDE DEF p
<1>2. CostsAlong(p, f)
  BY <1>1 DEF CostsAlong
<1>3. PathCost(p) = f[Len(p)]
  <2> HIDE DEF f
  <2> QED
    BY <1>1, <1>2, CostIs
<1> QED
  BY <1>1, <1>3 DEF p, IsPath

\* An edge more costs its weight more.
LEMMA CostOfEdge ==
    ASSUME Weighed, NEW p \in Seq(Ids), Len(p) # 0, IsPath(p), NEW y \in Ids,
           <<p[Len(p)], "requires", y>> \in DOMAIN stored
    PROVE  /\ IsPath(Append(p, y))
           /\ PathCost(p) \in Nat
           /\ PathCost(Append(p, y)) = PathCost(p) + stored[<<p[Len(p)], "requires", y>>]
<1> DEFINE n == Len(p)
           w == stored[<<p[n], "requires", y>>]
           q == Append(p, y)
<1>1. PICK f : CostsAlong(p, f)
  BY CostsExist
<1> DEFINE g == [i \in 1..(n + 1) |-> IF i = n + 1 THEN f[n] + w ELSE f[i]]
<1>2. /\ n \in Nat \ {0} /\ Len(q) = n + 1 /\ (\A i \in 1..n : q[i] = p[i]) /\ q[n + 1] = y
      /\ w \in Nat /\ f \in [1..n -> Nat] /\ f[1] = 0
  BY <1>1 DEF CostsAlong, Weighed
<1>3. \A i \in 1..(n - 1) : /\ f[i + 1] = f[i] + stored[<<p[i], "requires", p[i + 1]>>]
                            /\ <<p[i], "requires", p[i + 1]>> \in DOMAIN stored
  BY <1>1 DEF CostsAlong, IsPath
<1>4. w = stored[<<p[n], "requires", y>>] /\ <<p[n], "requires", y>> \in DOMAIN stored
  OBVIOUS
<1>5. PathCost(p) = f[n]
  BY <1>1, <1>2, CostIs
<1> HIDE DEF n, w, q
<1>6. ASSUME NEW i \in 1..n
      PROVE  /\ g[i + 1] = g[i] + stored[<<q[i], "requires", q[i + 1]>>]
             /\ <<q[i], "requires", q[i + 1]>> \in DOMAIN stored
  <2>1. CASE i = n
    <3>1. g[n + 1] = f[n] + w /\ g[n] = f[n] /\ q[n] = p[n] /\ q[n + 1] = y
      BY <1>2
    <3> QED
      BY <1>4, <2>1, <3>1
  <2>2. CASE i # n
    <3>1. i \in 1..(n - 1) /\ i + 1 \in 1..n /\ i \in 1..n
      BY <1>2, <2>2
    <3>2. q[i] = p[i] /\ q[i + 1] = p[i + 1] /\ g[i] = f[i] /\ g[i + 1] = f[i + 1]
      BY <1>2, <3>1
    <3> QED
      BY <1>3, <3>1, <3>2
  <2> QED
    BY <2>1, <2>2
<1>7. g \in [1..(n + 1) -> Nat] /\ g[1] = 0 /\ g[n + 1] = f[n] + w
  BY <1>2
<1> HIDE DEF g
<1>8. (n + 1) - 1 = n /\ n + 1 \in Nat \ {0}
  BY <1>2
<1>9. CostsAlong(q, g) /\ IsPath(q)
  BY <1>2, <1>6, <1>7, <1>8 DEF CostsAlong, IsPath
<1>10. PathCost(q) = g[n + 1]
  BY <1>2, <1>8, <1>9, CostIs
<1> QED
  BY <1>2, <1>5, <1>7, <1>9, <1>10 DEF n, w, q

\* An estimate that no edge raises by more than its weight, and that is zero at
\* the start, is at most what any path to a node costs.
LEMMA EstimateIsLeast ==
    ASSUME Weighed, NEW p \in Seq(Ids), Len(p) # 0, IsPath(p), NEW e \in [Ids -> Nat],
           e[p[1]] = 0,
           \A k \in DOMAIN stored : k[2] = "requires" => e[k[3]] <= e[k[1]] + stored[k]
    PROVE  e[p[Len(p)]] <= PathCost(p)
<1> DEFINE n == Len(p)
<1>1. PICK f : CostsAlong(p, f)
  BY CostsExist
<1> DEFINE T == {i \in 1..n : e[p[i]] <= f[i]}
<1>2. n \in Nat \ {0} /\ PathCost(p) = f[n] /\ f \in [1..n -> Nat] /\ f[1] = 0
  BY <1>1, CostIs DEF CostsAlong
<1>3. 1 \in T
  BY <1>2
<1>4. ASSUME NEW i \in 1..(n - 1), i \in T PROVE i + 1 \in T
  <2> DEFINE k == <<p[i], "requires", p[i + 1]>>
  <2>1. /\ k \in DOMAIN stored /\ k[1] = p[i] /\ k[2] = "requires" /\ k[3] = p[i + 1]
        /\ stored[k] \in Nat /\ f[i + 1] = f[i] + stored[k]
    BY <1>1 DEF CostsAlong, IsPath, Weighed
  <2>2. i \in 1..n /\ i + 1 \in 1..n
    BY <1>2
  <2>3. p[i] \in Ids /\ p[i + 1] \in Ids
    BY <2>2
  <2> HIDE DEF k
  <2>4. e[p[i + 1]] <= e[p[i]] + stored[k]
    BY <2>1
  <2>5. e[p[i]] \in Nat /\ e[p[i + 1]] \in Nat /\ f[i] \in Nat /\ f[i + 1] \in Nat
    BY <1>2, <2>2, <2>3
  <2>6. e[p[i]] <= f[i]
    BY <1>4
  <2>7. e[p[i + 1]] <= f[i + 1]
    BY <2>1, <2>4, <2>5, <2>6
  <2> QED
    BY <2>2, <2>7
<1>5. \A i \in 1..n : i \in T
  <2> HIDE DEF T, n
  <2> QED
    BY <1>2, <1>3, <1>4, AlongPath
<1> QED
  BY <1>2, <1>5

\* A set of nodes that no edge leaves has the end of every path that begins in it.
LEMMA ClosedUnderPaths ==
    ASSUME NEW p \in Seq(Ids), Len(p) # 0, IsPath(p), NEW V, p[1] \in V,
           \A k \in DOMAIN stored : k[2] = "requires" /\ k[1] \in V => k[3] \in V
    PROVE  p[Len(p)] \in V
<1> DEFINE n == Len(p)
           T == {i \in 1..n : p[i] \in V}
<1>1. n \in Nat \ {0}
  OBVIOUS
<1>2. 1 \in T
  BY <1>1
<1>3. ASSUME NEW i \in 1..(n - 1), i \in T PROVE i + 1 \in T
  <2> DEFINE k == <<p[i], "requires", p[i + 1]>>
  <2>1. k \in DOMAIN stored /\ k[1] = p[i] /\ k[2] = "requires" /\ k[3] = p[i + 1]
    BY DEF IsPath
  <2> HIDE DEF k
  <2>2. p[i + 1] \in V
    BY <1>3, <2>1
  <2> QED
    BY <1>1, <2>2
<1>4. \A i \in 1..n : i \in T
  <2> HIDE DEF T, n
  <2> QED
    BY <1>1, <1>2, <1>3, AlongPath
<1> QED
  BY <1>1, <1>4

Items == [cost : Nat, path : Seq(Ids)]

Searches == [at : {"idle", "pop", "found", "none"}, from : Ids \cup {NoId}, to : Ids \cup {NoId},
             visited : SUBSET Ids, pq : SUBSET Items, found : Seq(Ids), cost : Nat]

SearchShape ==
    /\ search \in Searches
    /\ search.at # "idle" => Searching /\ search.from \in Ids /\ search.to \in Ids

\* Every item of the heap is a path from the start, with its cost.
ItemOK(it) ==
    /\ Len(it.path) # 0 /\ it.path[1] = search.from /\ IsPath(it.path)
    /\ ~touched => it.cost = PathCost(it.path)

\* An item of a heap pq that ends in y and costs at most c.
Queued(pq, y, c) == \E it \in pq : Last(it.path) = y /\ it.cost <= c

\* The settled nodes have final distances d: no edge between them is shorter, an
\* edge that leaves them is in the heap, and nothing in the heap is nearer.
Distances(d) ==
    /\ d \in [search.visited -> Nat]
    /\ \A k \in DOMAIN stored : k[2] = "requires" /\ k[1] \in search.visited =>
         IF k[3] \in search.visited THEN d[k[3]] <= d[k[1]] + stored[k]
                                    ELSE Queued(search.pq, k[3], d[k[1]] + stored[k])
    /\ IF search.from \in search.visited THEN d[search.from] = 0
                                         ELSE Queued(search.pq, search.from, 0)
    /\ \A v \in search.visited : \A it \in search.pq : d[v] <= it.cost

Settling ==
    search.at = "pop" =>
      /\ \A it \in search.pq : ItemOK(it)
      /\ search.to \notin search.visited
      /\ ~touched => \E d : Distances(d)

SearchInv == SearchShape /\ Settling /\ PathIsShortest

\* A path among the simple ones.
LEMMA SimplePathIs ==
    ASSUME NEW s, NEW e, NEW p \in SimplePaths(s, e)
    PROVE  p \in Seq(Ids) /\ Len(p) # 0 /\ p[1] = s /\ p[Len(p)] = e /\ IsPath(p)
<1>1. PICK n \in 1..Cardinality(Ids) : p \in [1..n -> Ids]
  BY DEF SimplePaths
<1>2. n \in Nat /\ n >= 1
  OBVIOUS
<1>3. p \in Seq(Ids) /\ Len(p) = n
  BY <1>1, <1>2
<1>4. p[1] = s /\ p[Len(p)] = e /\ IsPath(p)
  BY DEF SimplePaths
<1> QED
  BY <1>2, <1>3, <1>4

\* When the nearest item of the heap ends in the node looked for, no path there is
\* cheaper.
LEMMA FoundIsShortest ==
    ASSUME Weighed, SearchShape, search.at = "pop", search.to \notin search.visited,
           search.from \in Ids,
           NEW d, Distances(d), NEW it \in Cheapest, Last(it.path) = search.to,
           NEW p \in SimplePaths(search.from, search.to)
    PROVE  it.cost <= PathCost(p)
<1> DEFINE V == search.visited
           e == [x \in Ids |-> IF x \in V THEN d[x] ELSE it.cost]
<1>1. /\ p \in Seq(Ids) /\ Len(p) # 0 /\ p[1] = search.from /\ p[Len(p)] = search.to
      /\ IsPath(p)
  BY SimplePathIs
<1>2. it.cost \in Nat /\ \A o \in search.pq : it.cost <= o.cost /\ o.cost \in Nat
  BY DEF Cheapest, SearchShape, Searches, Items
<1>3. d \in [V -> Nat] /\ \A v \in V : d[v] <= it.cost
  BY DEF Distances, Cheapest
<1>4. e \in [Ids -> Nat]
  BY <1>2, <1>3
<1>5. search.to \in Ids /\ e[search.to] = it.cost
  BY <1>1 DEF SearchShape
<1>6. e[search.from] = 0
  <2>1. CASE search.from \in V
    BY <2>1 DEF Distances
  <2>2. CASE search.from \notin V
    BY <2>2, <1>2 DEF Distances, Queued
  <2> QED
    BY <2>1, <2>2
<1>7. ASSUME NEW k \in DOMAIN stored, k[2] = "requires"
      PROVE  e[k[3]] <= e[k[1]] + stored[k]
  <2>1. k[1] \in Ids /\ k[3] \in Ids /\ stored[k] \in Nat
    BY DEF Weighed, Triples
  <2>2. CASE k[1] \in V /\ k[3] \in V
    BY <1>7, <2>1, <2>2 DEF Distances
  <2>3. CASE k[1] \in V /\ k[3] \notin V
    <3>1. PICK o \in search.pq : o.cost <= d[k[1]] + stored[k]
      BY <1>7, <2>3 DEF Distances, Queued
    <3>2. it.cost <= d[k[1]] + stored[k]
      BY <3>1, <2>1, <2>3, <1>2, <1>3
    <3> QED
      BY <2>1, <2>3, <3>2
  <2>4. CASE k[1] \notin V
    <3>1. e[k[3]] <= it.cost
      BY <2>1, <1>2, <1>3
    <3> QED
      BY <2>1, <2>4, <3>1, <1>2, <1>4
  <2> QED
    BY <2>2, <2>3, <2>4
<1> HIDE DEF e, V
<1>8. e[p[Len(p)]] <= PathCost(p)
  <2>1. e[p[1]] = 0
    BY <1>1, <1>6
  <2> QED
    BY <1>1, <1>4, <1>7, <2>1, EstimateIsLeast
<1> QED
  BY <1>1, <1>5, <1>8

\* When the heap is empty there is no path.
LEMMA EmptyMeansNone ==
    ASSUME search.to \notin search.visited, search.pq = {}, NEW d, Distances(d)
    PROVE  SimplePaths(search.from, search.to) = {}
<1> SUFFICES ASSUME NEW p \in SimplePaths(search.from, search.to) PROVE FALSE
  OBVIOUS
<1>1. /\ p \in Seq(Ids) /\ Len(p) # 0 /\ p[1] = search.from /\ p[Len(p)] = search.to
      /\ IsPath(p)
  BY SimplePathIs
<1>2. search.from \in search.visited
  BY DEF Distances, Queued
<1>3. \A k \in DOMAIN stored :
         k[2] = "requires" /\ k[1] \in search.visited => k[3] \in search.visited
  BY DEF Distances, Queued
<1>4. p[Len(p)] \in search.visited
  BY <1>1, <1>2, <1>3, ClosedUnderPaths
<1> QED
  BY <1>1, <1>4

\* What the search begins with.
LEMMA SearchBegins ==
    ASSUME Searching, NEW s \in Ids, NEW e \in Ids, ShortestPath(s, e)
    PROVE  SearchInv'
<1> DEFINE first == [cost |-> 0, path |-> <<s>>]
           d == [v \in {} |-> 0]
<1>1. /\ search' = [at |-> "pop", from |-> s, to |-> e, visited |-> {},
                    pq |-> {first}, found |-> <<>>, cost |-> 0]
      /\ touched' = FALSE /\ UNCHANGED <<records, stored, registers>>
  BY DEF ShortestPath
<1>2. /\ first \in Items /\ first.path = <<s>> /\ first.cost = 0 /\ Len(first.path) # 0
      /\ first.path[1] = s
  BY DEF Items
<1>3. /\ search'.at = "pop" /\ search'.from = s /\ search'.to = e /\ search'.visited = {}
      /\ search'.pq = {first}
  BY <1>1
<1>l. Last(first.path) = s
  BY <1>2 DEF Last
<1>4. search' \in Searches
  BY <1>1, <1>2 DEF Searches
<1> HIDE DEF first
<1>5. SearchShape'
  BY <1>1, <1>3, <1>4 DEF SearchShape, Searching
<1>6. IsPath(first.path)' /\ PathCost(first.path)' = 0
  <2>1. IsPath(first.path) /\ PathCost(first.path) = 0
    BY <1>2, CostOfNode
  <2>2. stored' = stored
    BY <1>1
  <2> QED
    BY <2>1, <2>2 DEF IsPath, PathCost
<1>7. ItemOK(first)'
  BY <1>2, <1>3, <1>6 DEF ItemOK
<1>8. Distances(d)'
  <2>1. Queued(search'.pq, s, 0)
    BY <1>2, <1>3, <1>l DEF Queued
  <2> QED
    BY <1>3, <2>1 DEF Distances
<1>9. Settling'
  <2> HIDE DEF d
  <2> QED
    BY <1>3, <1>7, <1>8 DEF Settling
<1>10. PathIsShortest'
  BY <1>3 DEF PathIsShortest
<1> QED
  BY <1>5, <1>9, <1>10 DEF SearchInv

\* A node that is settled already is passed over.
LEMMA SkipStep ==
    ASSUME SearchInv, search.at = "pop", NEW it \in Cheapest,
           Last(it.path) \in search.visited,
           search' = [search EXCEPT !.pq = search.pq \ {it}],
           UNCHANGED <<records, stored, registers, touched>>
    PROVE  SearchInv'
<1> USE DEF SearchInv
<1> DEFINE rest == search.pq \ {it}
<1>1. rest \in SUBSET Items /\ search \in Searches
  BY DEF SearchShape, Searches
<1>2. /\ search' \in Searches /\ search'.pq = rest /\ search'.at = search.at
      /\ search'.from = search.from /\ search'.to = search.to
      /\ search'.visited = search.visited
  <2> HIDE DEF rest
  <2>1. search' = [search EXCEPT !.pq = rest]
    BY DEF rest
  <2> QED
    BY <1>1, <2>1 DEF Searches
<1>3. SearchShape'
  BY <1>2 DEF SearchShape, Searching
<1>4. ASSUME NEW o \in rest PROVE ItemOK(o)'
  <2>1. ItemOK(o)
    BY DEF Settling
  <2> QED
    BY <2>1, <1>2 DEF ItemOK, IsPath, PathCost
<1>5. ASSUME NEW y, NEW c, y \notin search.visited, Queued(search.pq, y, c)
      PROVE  Queued(search'.pq, y, c)
  BY <1>2, <1>5 DEF Queued
<1>6. ASSUME NEW d, Distances(d) PROVE Distances(d)'
  BY <1>2, <1>5, <1>6 DEF Distances
<1>7. Settling'
  BY <1>2, <1>4, <1>6 DEF Settling
<1>8. PathIsShortest'
  BY <1>2 DEF PathIsShortest
<1> QED
  BY <1>3, <1>7, <1>8

\* The search ends at the node looked for.
LEMMA FoundStep ==
    ASSUME Weighed, SearchInv, search.at = "pop", NEW it \in Cheapest,
           Last(it.path) = search.to,
           search' = [search EXCEPT !.at = "found", !.found = it.path, !.cost = it.cost],
           UNCHANGED <<records, stored, registers, touched>>
    PROVE  SearchInv'
<1> USE DEF SearchInv
<1>1. search \in Searches /\ it.path \in Seq(Ids) /\ it.cost \in Nat /\ it \in search.pq
  BY DEF SearchShape, Searches, Items, Cheapest
<1>2. /\ search' \in Searches /\ search'.at = "found" /\ search'.from = search.from
      /\ search'.to = search.to /\ search'.found = it.path /\ search'.cost = it.cost
  BY <1>1 DEF Searches
<1>3. SearchShape'
  BY <1>2 DEF SearchShape, Searching
<1>4. ItemOK(it)
  BY <1>1 DEF Settling
<1>5. ~touched => \A p \in SimplePaths(search.from, search.to) : it.cost <= PathCost(p)
  BY FoundIsShortest DEF Settling, SearchShape
<1>6. /\ search.from' = search.from /\ search.to' = search.to /\ search.found' = it.path
      /\ search.cost' = it.cost /\ search.at' = "found"
  BY <1>2
<1>7. /\ SimplePaths(search.from, search.to)' = SimplePaths(search.from, search.to)
      /\ \A p : PathCost(p)' = PathCost(p) /\ (IsPath(p)' <=> IsPath(p))
  BY <1>6 DEF SimplePaths, PathCost, IsPath
<1>8. PathIsShortest'
  <2>1. IsPath(search.found)' /\ PathCost(search.found)' = PathCost(it.path)
    BY <1>4, <1>6 DEF ItemOK, IsPath, PathCost
  <2> QED
    BY <1>4, <1>5, <1>6, <1>7, <2>1 DEF PathIsShortest, ItemOK
<1>9. Settling'
  BY <1>2 DEF Settling
<1> QED
  BY <1>3, <1>8, <1>9

\* What settling the end of an item pushes.
Reached(it) ==
    {[cost |-> it.cost + stored[k], path |-> Append(it.path, k[3])] :
       k \in {j \in Neighbors(stored, Last(it.path), "requires") :
                j[3] \notin search.visited \cup {Last(it.path)}}}

\* Each pushed item is the settled one with an edge more, and costs no less.
LEMMA PushedItem ==
    ASSUME Weighed, SearchShape, NEW it \in Items, ItemOK(it), NEW x \in Reached(it)
    PROVE  x \in Items /\ ItemOK(x) /\ it.cost <= x.cost
<1> DEFINE n == Last(it.path)
<1>1. PICK k \in DOMAIN stored :
         /\ k[1] = n /\ k[2] = "requires"
         /\ x = [cost |-> it.cost + stored[k], path |-> Append(it.path, k[3])]
  BY DEF Reached, Neighbors
<1>2. stored[k] \in Nat /\ k[3] \in Ids /\ k = <<k[1], k[2], k[3]>>
  BY DEF Weighed, Triples
<1>3. it.path \in Seq(Ids) /\ Len(it.path) # 0 /\ it.cost \in Nat /\ n = it.path[Len(it.path)]
  BY DEF Items, ItemOK, Last
<1>4. <<it.path[Len(it.path)], "requires", k[3]>> = k
  BY <1>1, <1>2, <1>3
<1>5. IsPath(it.path) /\ it.path[1] = search.from /\ (~touched => it.cost = PathCost(it.path))
  BY DEF ItemOK
<1> DEFINE q == it.path
           r == Append(q, k[3])
<1>6. r \in Seq(Ids) /\ Len(r) # 0 /\ r[1] = q[1]
  BY <1>2, <1>3
<1>7. x.cost = it.cost + stored[k] /\ x.path = r /\ x \in Items
  BY <1>1, <1>2, <1>3, <1>6 DEF Items
<1>8. IsPath(r) /\ PathCost(r) = PathCost(q) + stored[k]
  <2> HIDE DEF q, r
  <2>1. /\ q \in Seq(Ids) /\ Len(q) # 0 /\ IsPath(q)
        /\ <<q[Len(q)], "requires", k[3]>> \in DOMAIN stored
    BY <1>3, <1>4, <1>5 DEF q
  <2> QED
    BY <1>2, <1>4, <2>1, CostOfEdge DEF r, q
<1> HIDE DEF r
<1> QED
  BY <1>2, <1>3, <1>5, <1>6, <1>7, <1>8 DEF ItemOK

\* The node of least cost is settled.
LEMMA SettleNode ==
    ASSUME Weighed, SearchInv, search.at = "pop", NEW it \in Cheapest,
           Last(it.path) \notin search.visited, Last(it.path) # search.to,
           search' = [search EXCEPT !.visited = search.visited \cup {Last(it.path)},
                                    !.pq = (search.pq \ {it}) \cup Reached(it)],
           UNCHANGED <<records, stored, registers, touched>>
    PROVE  SearchInv'
<1> USE DEF SearchInv
<1> DEFINE n == Last(it.path)
           V == search.visited
           q == (search.pq \ {it}) \cup Reached(it)
<1>1. /\ search \in Searches /\ it \in search.pq /\ it \in Items /\ it.cost \in Nat
      /\ V \in SUBSET Ids /\ search.pq \in SUBSET Items
      /\ \A o \in search.pq : it.cost <= o.cost /\ o.cost \in Nat
  BY DEF SearchShape, Searches, Items, Cheapest
<1>2. ItemOK(it)
  BY <1>1 DEF Settling
<1>3. n \in Ids
  BY <1>1, <1>2 DEF Items, ItemOK, Last
<1>4. \A x \in Reached(it) : x \in Items /\ ItemOK(x) /\ it.cost <= x.cost /\ x.cost \in Nat
  BY <1>1, <1>2, PushedItem DEF Items
<1>5. q \in SUBSET Items /\ V \cup {n} \in SUBSET Ids
  BY <1>1, <1>3, <1>4
<1>6. /\ search' \in Searches /\ search'.pq = q /\ search'.at = search.at
      /\ search'.from = search.from /\ search'.to = search.to
      /\ search'.visited = V \cup {n}
  <2>1. search' = [search EXCEPT !.visited = V \cup {n}, !.pq = q]
    OBVIOUS
  <2>2. search \in Searches
    BY <1>1
  <2> HIDE DEF q, V, n
  <2> QED
    BY <1>5, <2>1, <2>2 DEF Searches
<1>7. SearchShape'
  BY <1>6 DEF SearchShape, Searching
<1>8. ASSUME NEW o \in q PROVE ItemOK(o)'
  <2>1. ItemOK(o)
    BY <1>4 DEF Settling
  <2> QED
    BY <2>1, <1>6 DEF ItemOK, IsPath, PathCost
<1>p. search'.pq = (search.pq \ {it}) \cup Reached(it)
  BY <1>6
<1> HIDE DEF q
<1>9. ASSUME NEW y, NEW c, y # n, Queued(search.pq, y, c) PROVE Queued(search'.pq, y, c)
  BY <1>9, <1>p DEF Queued
<1>10. ASSUME NEW d, Distances(d) PROVE \E e : Distances(e)'
  <2>0. PICK e : e = [v \in V \cup {n} |-> IF v = n THEN it.cost ELSE d[v]]
    OBVIOUS
  <2>1. d \in [V -> Nat] /\ \A v \in V : \A o \in search.pq : d[v] <= o.cost
    BY <1>10 DEF Distances
  <2>2. e \in [V \cup {n} -> Nat] /\ e[n] = it.cost /\ \A v \in V : e[v] = d[v]
    BY <2>0, <2>1, <1>1
  <2>3. \A v \in V : d[v] \in Nat /\ d[v] <= it.cost
    BY <2>1, <1>1
  <2>4. ASSUME NEW v \in V \cup {n}, NEW o \in search'.pq PROVE e[v] <= o.cost
    <3>1. it.cost <= o.cost /\ o.cost \in Nat
      BY <1>1, <1>4, <1>p
    <3> QED
      BY <1>1, <2>2, <2>3, <3>1
  <2>5. ASSUME NEW k \in DOMAIN stored, k[2] = "requires", k[1] \in V \cup {n}
        PROVE  IF k[3] \in V \cup {n} THEN e[k[3]] <= e[k[1]] + stored[k]
                                      ELSE Queued(search'.pq, k[3], e[k[1]] + stored[k])
    <3>1. stored[k] \in Nat /\ k[3] \in Ids
      BY DEF Weighed, Triples
    <3>2. CASE k[1] \in V
      <4>1. IF k[3] \in V THEN d[k[3]] <= d[k[1]] + stored[k]
                          ELSE Queued(search.pq, k[3], d[k[1]] + stored[k])
        BY <1>10, <2>5, <3>2 DEF Distances
      <4>2. CASE k[3] \in V
        BY <2>2, <3>2, <4>1, <4>2
      <4>3. CASE k[3] \notin V /\ k[3] = n
        <5>1. PICK o \in search.pq : o.cost <= d[k[1]] + stored[k]
          BY <4>1, <4>3 DEF Queued
        <5>2. it.cost <= d[k[1]] + stored[k]
          BY <1>1, <2>3, <3>1, <3>2, <5>1
        <5> QED
          BY <2>2, <3>2, <4>3, <5>2
      <4>4. CASE k[3] \notin V /\ k[3] # n
        BY <1>9, <2>2, <3>2, <4>1, <4>4
      <4> QED
        BY <4>2, <4>3, <4>4
    <3>3. CASE k[1] = n
      <4>1. CASE k[3] \in V \cup {n}
        <5>1. e[k[3]] <= it.cost /\ e[k[3]] \in Nat
          BY <1>1, <2>2, <2>3, <4>1
        <5> QED
          BY <1>1, <2>2, <3>1, <3>3, <4>1, <5>1
      <4>2. CASE k[3] \notin V \cup {n}
        <5> DEFINE x == [cost |-> it.cost + stored[k], path |-> Append(it.path, k[3])]
        <5>1. x \in Reached(it)
          BY <2>5, <3>3, <4>2 DEF Reached, Neighbors
        <5>2. x.cost = it.cost + stored[k] /\ x.path = Append(it.path, k[3])
          OBVIOUS
        <5>3. Last(Append(it.path, k[3])) = k[3]
          BY <1>1, <3>1 DEF Items, Last
        <5> HIDE DEF x
        <5>4. it.cost + stored[k] \in Nat
          BY <1>1, <3>1
        <5>5. Queued(search'.pq, k[3], it.cost + stored[k])
          <6>1. x \in search'.pq /\ Last(x.path) = k[3] /\ x.cost <= it.cost + stored[k]
            BY <1>p, <5>1, <5>2, <5>3, <5>4
          <6> QED
            BY <6>1 DEF Queued
        <5> QED
          BY <2>2, <3>3, <4>2, <5>5
      <4> QED
        BY <4>1, <4>2
    <3> QED
      BY <2>5, <3>2, <3>3
  <2>6. IF search.from \in V \cup {n} THEN e[search.from] = 0
                                      ELSE Queued(search'.pq, search.from, 0)
    <3>1. IF search.from \in V THEN d[search.from] = 0 ELSE Queued(search.pq, search.from, 0)
      BY <1>10 DEF Distances
    <3>2. CASE search.from \in V
      BY <2>2, <3>1, <3>2
    <3>3. CASE search.from \notin V /\ search.from = n
      <4>1. it.cost <= 0
        BY <1>1, <3>1, <3>3 DEF Queued
      <4> QED
        BY <1>1, <2>2, <3>3, <4>1
    <3>4. CASE search.from \notin V /\ search.from # n
      BY <1>9, <3>1, <3>4
    <3> QED
      BY <3>2, <3>3, <3>4
  <2>7. Distances(e)'
    <3>1. search'.visited = V \cup {n} /\ search'.from = search.from /\ stored' = stored
      BY <1>6
    <3> HIDE DEF V, n
    <3>2. e \in [search'.visited -> Nat]
      BY <2>2, <3>1
    <3>3. \A k \in DOMAIN stored' : k[2] = "requires" /\ k[1] \in search'.visited =>
            IF k[3] \in search'.visited THEN e[k[3]] <= e[k[1]] + stored'[k]
                                        ELSE Queued(search'.pq, k[3], e[k[1]] + stored'[k])
      BY <2>5, <3>1
    <3>4. IF search'.from \in search'.visited THEN e[search'.from] = 0
                                              ELSE Queued(search'.pq, search'.from, 0)
      BY <2>6, <3>1
    <3>5. \A v \in search'.visited : \A o \in search'.pq : e[v] <= o.cost
      BY <2>4, <3>1
    <3> QED
      BY <3>2, <3>3, <3>4, <3>5 DEF Distances
  <2> QED
    BY <2>7
<1>11. Settling'
  BY <1>6, <1>8, <1>10 DEF Settling
<1>12. PathIsShortest'
  BY <1>6 DEF PathIsShortest
<1> QED
  BY <1>7, <1>11, <1>12

\* The search ends with an empty heap.
LEMMA NoPathStep ==
    ASSUME SearchInv, NoPath
    PROVE  SearchInv'
<1> USE DEF SearchInv
<1>1. /\ search \in Searches /\ search' = [search EXCEPT !.at = "none"]
      /\ search.at = "pop" /\ search.pq = {}
      /\ UNCHANGED <<records, stored, registers, touched>>
  BY DEF SearchShape, NoPath
<1>2. /\ search' \in Searches /\ search'.at = "none" /\ search'.from = search.from
      /\ search'.to = search.to
  BY <1>1 DEF Searches
<1>3. SearchShape'
  BY <1>1, <1>2 DEF SearchShape, Searching
<1>4. ~touched => SimplePaths(search.from, search.to) = {}
  BY <1>1, EmptyMeansNone DEF Settling
<1>5. SimplePaths(search.from, search.to)' = SimplePaths(search.from, search.to)
  BY <1>1, <1>2 DEF SimplePaths, IsPath
<1>6. PathIsShortest' /\ Settling'
  BY <1>1, <1>2, <1>4, <1>5 DEF PathIsShortest, Settling
<1> QED
  BY <1>3, <1>6

\* An edge that is put meanwhile breaks no path.
LEMMA EdgePutStep ==
    ASSUME SearchInv, NEW k, NEW w, EdgePut(k, w)
    PROVE  SearchInv'
<1> USE DEF SearchInv
<1>1. /\ search' = search /\ search.at = "pop" /\ touched' = TRUE
      /\ stored' = PutEdge(stored, k, w) /\ UNCHANGED <<records, registers>>
  BY DEF EdgePut
<1>2. DOMAIN stored' = DOMAIN stored \cup {k}
  BY <1>1 DEF PutEdge
<1>3. stored' # NoEdges
  BY <1>2 DEF NoEdges
<1>4. SearchShape'
  BY <1>1, <1>3 DEF SearchShape, Searching
<1>5. ASSUME NEW it \in search.pq PROVE ItemOK(it)'
  <2>1. ItemOK(it)
    BY <1>1 DEF Settling
  <2> QED
    BY <1>1, <1>2, <2>1 DEF ItemOK, IsPath
<1>6. Settling' /\ PathIsShortest'
  BY <1>1, <1>5 DEF Settling, PathIsShortest
<1> QED
  BY <1>4, <1>6

\* The invariant of the searches is inductive.
LEMMA SearchStep == RegInv /\ SearchInv /\ [RegistryNext]_regVars => SearchInv'
<1> SUFFICES ASSUME RegInv, SearchInv, [RegistryNext]_regVars PROVE SearchInv'
  OBVIOUS
<1>w. Weighed
  BY DEF RegInv, RegistryTypeOK, Weighed, Triples
<1>1. CASE RegisterNext
  <2>1. search' = search /\ search.at = "idle"
    BY <1>1 DEF RegisterNext, Register, SetRecord, AddEdge, Registered, SortSyncs,
                GetDependencies, GetWants, SearchInv, SearchShape
  <2> QED
    BY <2>1 DEF SearchInv, SearchShape, Settling, PathIsShortest
<1>2. CASE SearchNext
  <2>1. ASSUME NEW a \in Arcs, ShortestPath(a[1], a[2]) PROVE SearchInv'
    <3>1. a[1] \in Ids /\ a[2] \in Ids
      BY RegistryAssumption
    <3> QED
      BY <1>2, <2>1, <3>1, SearchBegins DEF SearchNext
  <2>2. CASE Settle
    <3>1. search.at = "pop" /\ UNCHANGED <<records, stored, registers, touched>>
      BY <2>2 DEF Settle
    <3>2. PICK it \in Cheapest :
            \/ /\ Last(it.path) \in search.visited
               /\ search' = [search EXCEPT !.pq = search.pq \ {it}]
            \/ /\ Last(it.path) = search.to
               /\ search' = [search EXCEPT !.at = "found", !.found = it.path, !.cost = it.cost]
            \/ /\ Last(it.path) \notin search.visited /\ Last(it.path) # search.to
               /\ search' = [search EXCEPT !.visited = search.visited \cup {Last(it.path)},
                                           !.pq = (search.pq \ {it}) \cup Reached(it)]
      BY <2>2 DEF Settle, Reached
    <3> QED
      BY <1>w, <3>1, <3>2, SkipStep, FoundStep, SettleNode
  <2>3. CASE NoPath
    BY <2>3, NoPathStep
  <2>4. CASE \E k \in Keys(Arcs), w \in Weights : EdgePut(k, w)
    BY <2>4, EdgePutStep
  <2> QED
    BY <1>2, <2>1, <2>2, <2>3, <2>4 DEF SearchNext
<1>3. CASE UNCHANGED regVars
  <2>1. UNCHANGED <<search, stored, touched, records, registers>>
    BY <1>3 DEF regVars
  <2> QED
    <3>1. (\A it : ItemOK(it)' <=> ItemOK(it)) /\ (\A d : Distances(d)' <=> Distances(d))
      BY <2>1 DEF ItemOK, Distances, IsPath, PathCost
    <3>2. PathIsShortest' <=> PathIsShortest
      BY <2>1 DEF PathIsShortest, SimplePaths, IsPath, PathCost
    <3> QED
      BY <2>1, <3>1, <3>2 DEF SearchInv, SearchShape, Searching, Settling
<1> QED
  BY <1>1, <1>2, <1>3 DEF RegistryNext

\* For any graph, weights and pair of nodes: what ShortestPath answers is a path
\* of the graph, whoever puts edges meanwhile; and if nobody does, no path is
\* cheaper, and none exists when it says so.
THEOREM RegistryPathIsShortest == RegistrySpec => []PathIsShortest
<1>1. RegistryInit => SearchInv
  BY DEF RegistryInit, RegistryOn, SearchInv, SearchShape, Searches, NoId, Settling,
         PathIsShortest
<1>2. SearchInv => PathIsShortest
  BY DEF SearchInv
<1> QED
  BY <1>1, <1>2, RegistryInitInv, RegistryStepInv, SearchStep, PTL DEF RegistrySpec

-----------------------------------------------------------------------------
(* The supervisor's types: what is being started is marked in flight, and  *)
(* by one goroutine; what is being stopped is registered.                  *)

\* What a goroutine is inside of starting is marked in flight, and nobody else is
\* inside of it.
FlightInv ==
    /\ \A g \in Goroutines : Objs(stack[g]) \subseteq starting
    /\ \A g, h \in Goroutines : g # h => Objs(stack[g]) \cap Objs(stack[h]) = {}

\* A stack that gains nothing.
LEMMA FlightKept ==
    ASSUME FlightInv, UNCHANGED starting,
           \A h \in Goroutines : Objs(stack'[h]) \subseteq Objs(stack[h])
    PROVE  FlightInv'
<1> HIDE DEF Objs
<1>1. \A h \in Goroutines : Objs(stack[h])' = Objs(stack'[h])
  BY DEF Objs
<1> QED
  BY <1>1 DEF FlightInv

\* beginStart refuses an object that is in flight, so a start that is entered is
\* nobody else's.
LEMMA FlightBegins ==
    ASSUME BootShape, FlightInv, NEW g \in Goroutines, NEW frames \in Seq(Frames),
           NEW o \in Objects, Objs(frames) \subseteq Objs(stack[g]), EnterStart(g, frames, o)
    PROVE  FlightInv'
<1>1. Frame(o) \in Frames /\ Frame(o).obj = o
  BY FrameType DEF BootShape
<1>2. Objs(Append(frames, Frame(o))) = Objs(frames) \cup {o}
  BY <1>1, ObjsOf
<1>3. CASE stack' = [stack EXCEPT ![g] = frames] /\ UNCHANGED starting
  <2> HIDE DEF Objs
  <2>1. \A h \in Goroutines : Objs(stack'[h]) \subseteq Objs(stack[h])
    BY <1>3 DEF BootShape
  <2> QED
    BY <1>3, <2>1, FlightKept
<1>4. CASE /\ stack' = [stack EXCEPT ![g] = Append(frames, Frame(o))]
           /\ starting' = starting \cup {o} /\ ~AnsweredAtOnce(o)
  <2>1. o \notin starting
    BY <1>4 DEF AnsweredAtOnce
  <2>2. /\ stack'[g] = Append(frames, Frame(o))
        /\ \A h \in Goroutines : h # g => stack'[h] = stack[h]
    BY <1>4 DEF BootShape
  <2>3. \A h \in Goroutines : Objs(stack[h])' = Objs(stack'[h])
    BY DEF Objs
  <2> HIDE DEF Objs
  <2>4. /\ Objs(stack'[g]) \subseteq Objs(stack[g]) \cup {o}
        /\ \A h \in Goroutines : h # g => Objs(stack'[h]) = Objs(stack[h])
    BY <1>2, <2>2
  <2>5. \A h \in Goroutines : Objs(stack'[h]) \subseteq starting'
    BY <1>4, <2>4 DEF FlightInv
  <2>6. ASSUME NEW h \in Goroutines, NEW k \in Goroutines, h # k
        PROVE  Objs(stack'[h]) \cap Objs(stack'[k]) = {}
    <3>1. Objs(stack[h]) \cap Objs(stack[k]) = {} /\ o \notin Objs(stack[h]) \cup Objs(stack[k])
      BY <2>1, <2>6 DEF FlightInv
    <3> QED
      BY <2>4, <2>6, <3>1
  <2> QED
    BY <2>3, <2>5, <2>6 DEF FlightInv
<1> QED
  BY <1>3, <1>4 DEF EnterStart

\* The innermost start of a goroutine is not also further out.
LEMMA TopIsAlone ==
    ASSUME BootInv, NEW g \in Goroutines, Inside(g)
    PROVE  Top(g).obj \notin Objs(Front(stack[g]))
<1> DEFINE s == stack[g]
<1>1. s \in Seq(Frames) /\ s # <<>>
  BY DEF BootInv, BootShape, Inside
<1>2. /\ Len(s) \in Nat \ {0} /\ DOMAIN s = 1..Len(s) /\ Last(s) = s[Len(s)]
      /\ DOMAIN Front(s) = 1..(Len(s) - 1)
      /\ \A i \in 1..(Len(s) - 1) : Front(s)[i] = s[i]
  <2> HIDE DEF s
  <2> QED
    BY <1>1, FrontOf
<1>3. \A i, j \in DOMAIN s : i # j => s[i].obj[1] # s[j].obj[1]
  BY DEF BootInv, StackInv
<1> HIDE DEF s
<1>4. ASSUME NEW i \in 1..(Len(s) - 1) PROVE s[i].obj # s[Len(s)].obj
  <2>1. i \in DOMAIN s /\ Len(s) \in DOMAIN s /\ i # Len(s)
    BY <1>2
  <2> QED
    BY <1>3, <2>1
<1>5. Last(s).obj \notin Objs(Front(s))
  BY <1>2, <1>4 DEF Objs
<1> QED
  BY <1>5 DEF s, Top

\* A start that returns is no longer in flight, and was nobody else's.
LEMMA FlightEnds ==
    ASSUME BootInv, FlightInv, NEW g \in Goroutines, Inside(g), NEW res, LeaveStart(g, res)
    PROVE  FlightInv'
<1> DEFINE x == Top(g).obj
<1>1. stack' = [stack EXCEPT ![g] = Front(stack[g])] /\ starting' = starting \ {x}
  BY DEF LeaveStart
<1>2. x \in Objs(stack[g]) /\ Objs(Front(stack[g])) \subseteq Objs(stack[g]) /\ BootShape
  BY TopObjs DEF BootInv
<1>3. x \notin Objs(Front(stack[g]))
  BY TopIsAlone
<1>4. \A h \in Goroutines : Objs(stack[h])' = Objs(stack'[h])
  BY DEF Objs
<1> HIDE DEF Objs, x
<1>5. /\ Objs(stack'[g]) \subseteq Objs(stack[g]) /\ x \notin Objs(stack'[g])
      /\ \A h \in Goroutines : h # g => Objs(stack'[h]) = Objs(stack[h])
  BY <1>1, <1>2, <1>3 DEF BootShape
<1> QED
  BY <1>1, <1>2, <1>4, <1>5 DEF FlightInv

\* A step of a goroutine inside of a start.
LEMMA FlightGoesOn ==
    ASSUME BootInv, FlightInv, NEW g \in Goroutines, StartStep(g)
    PROVE  FlightInv'
<1>0. BootShape
  BY DEF BootInv
<1>i. Inside(g)
  BY DEF StartStep, EnsureStarted, DependencyReturned, Spawn, SpawnFailed, BecameRunning,
         StartTimedOut, AtSpawn
<1>t. /\ Top(g) \in Frames
      /\ \A f \in Frames : f.obj = Top(g).obj =>
           /\ Append(Front(stack[g]), f) \in Seq(Frames)
           /\ Objs(Append(Front(stack[g]), f)) \subseteq Objs(stack[g])
  BY <1>0, <1>i, TopObjs
<1>f. /\ \A d \in Agents : /\ [Top(g) EXCEPT !.dep = d] \in Frames
                           /\ [Top(g) EXCEPT !.dep = d].obj = Top(g).obj
      /\ \A p \in {"await", "stale"} : /\ [Top(g) EXCEPT !.pc = p] \in Frames
                                       /\ [Top(g) EXCEPT !.pc = p].obj = Top(g).obj
      /\ \A x : /\ [Top(g) EXCEPT !.hard = @ \ {x}, !.dep = 0] \in Frames
                /\ [Top(g) EXCEPT !.hard = @ \ {x}, !.dep = 0].obj = Top(g).obj
                /\ [Top(g) EXCEPT !.soft = @ \ {x}, !.dep = 0] \in Frames
                /\ [Top(g) EXCEPT !.soft = @ \ {x}, !.dep = 0].obj = Top(g).obj
  BY <1>t DEF Frames
<1>1. ASSUME NEW f \in Frames, f.obj = Top(g).obj, UNCHANGED starting,
             stack' = [stack EXCEPT ![g] = Append(Front(stack[g]), f)]
      PROVE  FlightInv'
  <2>1. Objs(Append(Front(stack[g]), f)) \subseteq Objs(stack[g])
    BY <1>t, <1>1
  <2> HIDE DEF Objs
  <2>2. \A h \in Goroutines : Objs(stack'[h]) \subseteq Objs(stack[h])
    BY <1>0, <1>1, <2>1 DEF BootShape
  <2> QED
    BY <1>1, <2>2, FlightKept
<1>2. CASE \E res : LeaveStart(g, res)
  BY <1>2, <1>i, FlightEnds
<1>3. CASE EnsureStarted(g)
  <2>1. PICK d \in IF Top(g).hard # {} THEN Top(g).hard ELSE Top(g).soft :
          LET f == [Top(g) EXCEPT !.dep = d]
          IN  IF d \in Known
                THEN EnterStart(g, Append(Front(stack[g]), f), Latest(d))
                ELSE SetTop(g, f) /\ UNCHANGED starting
    BY <1>3 DEF EnsureStarted
  <2>2. d \in Agents
    BY <1>t DEF Frames
  <2> DEFINE f == [Top(g) EXCEPT !.dep = d]
             fr == Append(Front(stack[g]), f)
  <2>3. f \in Frames /\ f.obj = Top(g).obj
    BY <1>f, <2>2
  <2>4. IF d \in Known THEN EnterStart(g, fr, Latest(d)) ELSE SetTop(g, f) /\ UNCHANGED starting
    BY <2>1
  <2>n. d \notin Known => stack' = [stack EXCEPT ![g] = fr] /\ UNCHANGED starting
    BY <2>4 DEF SetTop
  <2> HIDE DEF f
  <2>5. fr \in Seq(Frames) /\ Objs(fr) \subseteq Objs(stack[g])
    BY <1>t, <2>3
  <2>6. CASE d \in Known
    <3>1. Latest(d) \in Objects
      BY <1>0, <2>6, LatestType
    <3>2. EnterStart(g, fr, Latest(d))
      BY <2>4, <2>6
    <3> HIDE DEF fr
    <3> QED
      BY <1>0, <2>5, <3>1, <3>2, FlightBegins
  <2>7. CASE d \notin Known
    BY <1>1, <2>3, <2>7, <2>n
  <2> QED
    BY <2>6, <2>7
<1>4. CASE (DependencyReturned(g) \/ Spawn(g)) /\ ~\E res : LeaveStart(g, res)
  <2>1. UNCHANGED starting
    BY <1>4 DEF DependencyReturned, Spawn
  <2>2. \E f \in Frames : f.obj = Top(g).obj
                          /\ stack' = [stack EXCEPT ![g] = Append(Front(stack[g]), f)]
    <3>1. CASE DependencyReturned(g)
      BY <1>4, <3>1, <1>f DEF DependencyReturned, SetTop
    <3>2. CASE Spawn(g)
      BY <1>4, <3>2, <1>f DEF Spawn, SetTop
    <3> QED
      BY <1>4, <3>1, <3>2
  <2> QED
    BY <1>1, <2>1, <2>2
<1>5. SpawnFailed(g) \/ BecameRunning(g) \/ StartTimedOut(g) => \E res : LeaveStart(g, res)
  BY DEF SpawnFailed, BecameRunning, StartTimedOut
<1> QED
  BY <1>2, <1>3, <1>4, <1>5 DEF StartStep

\* Every step.
LEMMA FlightStep == ASSUME BootInv, FlightInv, [Next]_vars PROVE FlightInv'
<1>0. BootShape
  BY DEF BootInv
<1>e. \A h \in Goroutines : <<>> \in Seq(Frames) /\ Objs(<<>>) \subseteq Objs(stack[h])
  BY DEF Objs
<1>1. CASE UNCHANGED <<stack, starting>>
  <2> HIDE DEF Objs
  <2>1. \A h \in Goroutines : Objs(stack'[h]) \subseteq Objs(stack[h])
    BY <1>1
  <2> QED
    BY <1>1, <2>1, FlightKept
<1>2. ASSUME NEW g \in Goroutines, NEW o \in Objects, EnterStart(g, <<>>, o)
      PROVE  FlightInv'
  <2> DEFINE s == <<>>
  <2>1. s \in Seq(Frames) /\ Objs(s) \subseteq Objs(stack[g]) /\ EnterStart(g, s, o)
    BY <1>2, <1>e
  <2> HIDE DEF s, Objs
  <2> QED
    BY <1>0, <2>1, FlightBegins
<1>g. Main \in Goroutines /\ Reloader \in Goroutines /\ Handler \in Goroutines
      /\ SetupBy \in Goroutines /\ \A o \in Objects : o \in Goroutines
  BY DEF Goroutines, SetupBy
<1>3. CASE StartAgent
  <2> DEFINE a == Head(setup.todo)
  <2>1. a \in Known /\ EnterStart(SetupBy, <<>>, Latest(a))
    BY <1>3 DEF StartAgent, Startable
  <2>2. Latest(a) \in Objects
    BY <1>0, <2>1, LatestType
  <2> QED
    BY <1>2, <1>g, <2>1, <2>2
<1>4. ASSUME NEW a \in Agents, VerbStart(a) PROVE FlightInv'
  <2>1. a \in Known /\ EnterStart(Handler, <<>>, Latest(a))
    BY <1>4 DEF VerbStart, Handle
  <2>2. Latest(a) \in Objects
    BY <1>0, <2>1, LatestType
  <2> QED
    BY <1>2, <1>g, <2>1, <2>2
<1>5. ASSUME NEW o \in Objects, Traffic(o) PROVE FlightInv'
  BY <1>2, <1>5, <1>g DEF Traffic
<1>6. \/ SortAgents \/ SkipAgent \/ AgentStarted \/ SetupDone \/ Discover \/ ArmAgent
      \/ StopAllStep \/ Reload \/ Shutdown \/ UNCHANGED vars
      \/ (\E g \in Goroutines : FinishStop(g) \/ CallDone(g))
      \/ (\E a \in Agents : VerbStop(a)) \/ (\E o \in Objects : Crash(o))
      => UNCHANGED <<stack, starting>>
  BY DEF SortAgents, SkipAgent, AgentStarted, SetupDone, Discover, ArmAgent, StopAllStep,
         StopAgent, AgentStopped, Exit, Reload, Shutdown, vars, FinishStop, CallDone, VerbStop,
         Crash, objVars, callVars
<1>7. ASSUME NEW g \in Goroutines, StartStep(g) PROVE FlightInv'
  BY <1>7, FlightGoesOn
<1> QED
  BY <1>1, <1>3, <1>4, <1>5, <1>6, <1>7 DEF Next, Step, SetupStep, CallStep

\* What is armed is hooked, what is halted is an object, and StopAll's list has
\* registered agents.
RestInv ==
    /\ armed \subseteq hooked
    /\ \A g \in Goroutines : halting[g] \in Objects \cup {NoObject}
    /\ \A i \in DOMAIN down.todo : down.todo[i] \in Known

\* Only StopAll and the verbs begin to stop something, and something registered.
LEMMA HaltsRegistered ==
    ASSUME BootShape, RestInv, NEW g \in Goroutines, NEW a \in Known, EnterStop(g, Latest(a))
    PROVE  \A h \in Goroutines : halting'[h] \in Objects \cup {NoObject}
<1>1. Latest(a) \in Objects
  BY LatestType
<1> QED
  BY <1>1 DEF EnterStop, RestInv, BootShape

\* The list StopAll begins with, and what is left of it.
LEMMA ListIsRegistered ==
    ASSUME BootInv, GraphKept, DownInv, RestInv, Shutdown \/ AgentStopped
    PROVE  \A i \in DOMAIN down'.todo : down'.todo[i] \in Known
<1>1. CASE Shutdown
  <2> DEFINE r == TopologicalSort
             t == StopOrder(r.order)
  <2>1. down'.todo = t
    BY <1>1 DEF Shutdown
  <2>2. SortResult(Known, r)
    BY OrderFacts
  <2>3. CASE r.order = <<>>
    <3>1. t = <<>>
      BY <2>3 DEF StopOrder, Reverse
    <3> QED
      BY <2>1, <3>1
  <2>4. CASE r.order \in Seq(Known)
    <3> DEFINE s == r.order
               n == Len(s)
    <3>1. n \in Nat /\ s \in [1..n -> Known] /\ t = [i \in 1..n |-> s[(n - i) + 1]]
      BY <2>4 DEF StopOrder, Reverse
    <3> HIDE DEF r, t, n, s
    <3>2. \A i \in 1..n : (n - i) + 1 \in 1..n
      BY <3>1
    <3>3. \A i \in DOMAIN t : t[i] \in Known
      BY <3>1, <3>2
    <3> QED
      BY <2>1, <3>3
  <2> QED
    BY <2>2, <2>3, <2>4 DEF SortResult
<1>2. CASE AgentStopped
  <2> DEFINE s == down.todo
  <2>1. down' = IF ret[Main] = "ok" THEN [down EXCEPT !.todo = Tail(@)]
                                    ELSE [todo |-> <<>>, err |-> TRUE]
    BY <1>2 DEF AgentStopped
  <2>2. down = [todo |-> down.todo, err |-> down.err] /\ s \in Seq(Agents)
    BY DEF DownInv
  <2>3. s # <<>>
    BY <1>2 DEF AgentStopped, Returned, DownInv
  <2>4. down'.todo = Tail(s) \/ down'.todo = <<>>
    BY <2>1, <2>2
  <2>5. CASE down'.todo = Tail(s)
    <3>1. \A i \in DOMAIN Tail(s) : i + 1 \in DOMAIN s /\ Tail(s)[i] = s[i + 1]
      <4> HIDE DEF s
      <4> QED
        BY <2>2, <2>3, TailOf
    <3>2. \A i \in DOMAIN s : s[i] \in Known
      BY DEF RestInv
    <3> HIDE DEF s
    <3> QED
      BY <2>5, <3>1, <3>2
  <2>6. CASE down'.todo = <<>>
    BY <2>6
  <2> QED
    BY <2>4, <2>5, <2>6
<1> QED
  BY <1>1, <1>2

\* A registered agent stays registered.
LEMMA KnownGrows == ASSUME BootInv, [Next]_vars PROVE Known \subseteq Known'
<1>1. /\ cur \in [Agents -> 0..MaxGen] /\ cur' \in [Agents -> 0..MaxGen]
      /\ \A a \in Agents : cur'[a] >= cur[a]
  BY BootStepInv, StepAdds DEF BootInv, BootShape, Adds
<1> QED
  BY <1>1, BoundsAssumption DEF Known

\* Every step.
LEMMA RestInvStep == ASSUME BootInv, GraphKept, DownInv, RestInv, [Next]_vars PROVE RestInv'
<1>0. BootShape /\ Known \subseteq Known'
  BY KnownGrows DEF BootInv
<1>g. Main \in Goroutines /\ Handler \in Goroutines
  BY DEF Goroutines
<1>1. armed' \subseteq hooked'
  BY DEF RestInv, Next, Step, SetupStep, StopAllStep, CallStep, StartStep, Discover, SortAgents,
         SkipAgent, ArmAgent, Arm, StartAgent, AgentStarted, SetupDone, StopAgent, AgentStopped,
         Exit, Reload, Shutdown, EnsureStarted, DependencyReturned, Spawn, SpawnFailed,
         BecameRunning, StartTimedOut, FinishStop, CallDone, VerbStart, VerbStop, Traffic, Crash,
         vars, objVars, histVars
<1>2. \A h \in Goroutines : halting'[h] \in Objects \cup {NoObject}
  <2>1. CASE UNCHANGED halting
    BY <2>1 DEF RestInv
  <2>2. CASE StopAgent
    <3> DEFINE a == Head(down.todo)
    <3>1. EnterStop(Main, Latest(a)) /\ down.todo # <<>> /\ down.todo \in Seq(Agents)
      BY <2>2 DEF StopAgent, DownInv
    <3>2. a = down.todo[1] /\ 1 \in DOMAIN down.todo
      BY <3>1, TailOf
    <3>3. a \in Known
      BY <3>2 DEF RestInv
    <3> HIDE DEF a
    <3> QED
      BY <1>0, <1>g, <3>1, <3>3, HaltsRegistered
  <2>3. ASSUME NEW a \in Agents, VerbStop(a)
        PROVE  \A h \in Goroutines : halting'[h] \in Objects \cup {NoObject}
    <3>1. a \in Known /\ EnterStop(Handler, Latest(a))
      BY <2>3 DEF VerbStop, Handle
    <3> QED
      BY <1>0, <1>g, <3>1, HaltsRegistered
  <2>4. ASSUME NEW g \in Goroutines, FinishStop(g)
        PROVE  \A h \in Goroutines : halting'[h] \in Objects \cup {NoObject}
    BY <1>0, <2>4 DEF FinishStop, RestInv, BootShape
  <2>5. \/ SetupStep \/ AgentStopped \/ Exit \/ Reload \/ Shutdown \/ UNCHANGED vars
        \/ (\E g \in Goroutines : StartStep(g) \/ CallDone(g))
        \/ (\E a \in Agents : VerbStart(a)) \/ (\E o \in Objects : Traffic(o) \/ Crash(o))
        => UNCHANGED halting
    BY DEF SetupStep, StartStep, Discover, SortAgents,
         SkipAgent, ArmAgent, StartAgent, AgentStarted, SetupDone, AgentStopped,
         Exit, Reload, Shutdown, EnsureStarted, DependencyReturned, Spawn, SpawnFailed,
         BecameRunning, StartTimedOut, CallDone, VerbStart, Traffic, Crash, vars, callVars
  <2> QED
    BY <2>1, <2>2, <2>3, <2>4, <2>5 DEF Next, Step, StopAllStep, CallStep
<1>3. \A i \in DOMAIN down'.todo : down'.todo[i] \in Known'
  <2>1. CASE Shutdown \/ AgentStopped
    BY <1>0, <2>1, ListIsRegistered
  <2>2. CASE UNCHANGED down
    BY <1>0, <2>2 DEF RestInv
  <2>3. \/ SetupStep \/ StopAgent \/ Exit \/ Reload \/ UNCHANGED vars
        \/ (\E g \in Goroutines : CallStep(g))
        \/ (\E a \in Agents : VerbStart(a) \/ VerbStop(a))
        \/ (\E o \in Objects : Traffic(o) \/ Crash(o))
        => UNCHANGED down
    BY DEF SetupStep, CallStep, StartStep, Discover, SortAgents,
         SkipAgent, ArmAgent, StartAgent, AgentStarted, SetupDone, StopAgent,
         Exit, Reload, EnsureStarted, DependencyReturned, Spawn, SpawnFailed,
         BecameRunning, StartTimedOut, FinishStop, CallDone, VerbStart, VerbStop, Traffic, Crash,
         vars, runVars
  <2> QED
    BY <2>1, <2>2, <2>3 DEF Next, Step, StopAllStep
<1> QED
  BY <1>1, <1>2, <1>3 DEF RestInv

\* A history variable is only ever set.
LEMMA FailedStep == failed \in BOOLEAN /\ [Next]_vars => failed' \in BOOLEAN
<1>1. [Next]_vars => failed' = failed \/ failed' = TRUE
  BY DEF Next, Step, SetupStep, StopAllStep, CallStep, StartStep, Discover, SortAgents,
         SkipAgent, ArmAgent, StartAgent, AgentStarted, SetupDone, StopAgent, AgentStopped,
         Exit, Reload, Shutdown, EnsureStarted, DependencyReturned, Spawn, SpawnFailed,
         BecameRunning, StartTimedOut, FinishStop, CallDone, VerbStart, VerbStop, Traffic, Crash,
         vars, histVars
<1> QED
  BY <1>1

\* A goroutine is inside of one start of an agent, so of no more than there are
\* agents.
LEMMA StackIsShallow ==
    ASSUME BootInv, NEW g \in Goroutines
    PROVE  Len(stack[g]) <= Cardinality(Agents)
<1> DEFINE s == stack[g]
           n == Len(s)
           f == [i \in 1..n |-> s[i].obj[1]]
<1>1. s \in Seq(Frames)
  BY DEF BootInv, BootShape
<1>2. n \in Nat /\ DOMAIN s = 1..n /\ \A i \in 1..n : s[i] \in Frames
  BY <1>1
<1>3. \A i, j \in DOMAIN s : i # j => s[i].obj[1] # s[j].obj[1]
  BY DEF BootInv, StackInv
<1> HIDE DEF s, n
<1>4. f \in Injection(1..n, Agents)
  <2>1. \A i \in 1..n : s[i].obj[1] \in Agents
    BY <1>2 DEF Frames, Objects
  <2> QED
    BY <1>2, <1>3, <2>1 DEF Injection, IsInjective
<1>5. IsFiniteSet(1..n) /\ Cardinality(1..n) = n
  BY <1>2, FS_Interval
<1>6. Cardinality(1..n) <= Cardinality(Agents)
  <2> HIDE DEF f
  <2> QED
    BY <1>4, AgentsAssumption, FS_Injection
<1> QED
  BY <1>5, <1>6 DEF n, s

\* For any agents, declarations, verbs, traffic, crashes and reloads: the types;
\* nested starts are no deeper than there are agents; and what a goroutine is
\* starting is marked in flight until that start returns, whoever else starts it.
THEOREM BootTypeCorrect == Spec => []TypeOK
<1> DEFINE I == BootInv /\ GraphKept /\ ChildInv /\ DownInv /\ FlightInv /\ RestInv
             /\ failed \in BOOLEAN
<1>1. Init => I
  <2> SUFFICES ASSUME Init PROVE /\ GraphKept /\ ChildInv /\ DownInv /\ FlightInv /\ RestInv
                                 /\ failed \in BOOLEAN
    BY BootInitInv
  <2>1. GraphKept /\ ChildInv
    BY DEF Init, BootAt, GraphKept, ChildInv, Objs
  <2>2. DownInv
    BY DEF Init, BootAt, DownInv
  <2>3. FlightInv
    BY DEF Init, BootAt, FlightInv, Objs
  <2>f. failed \in BOOLEAN
    BY DEF Init, BootAt
  <2>r. RestInv
    BY DEF Init, BootAt, RestInv
  <2> QED
    BY <2>1, <2>2, <2>3, <2>r, <2>f
<1>2. I /\ [Next]_vars => I'
  BY BootStepInv, GraphStep, ChildStep, DownStep, FlightStep, RestInvStep, FailedStep
<1>3. I => TypeOK
  <2> SUFFICES ASSUME I PROVE TypeOK
    OBVIOUS
  <2>1. \A o \in starting : o \in Objects
    <3> SUFFICES ASSUME NEW o \in starting PROVE o \in Objects
      OBVIOUS
    <3>1. PICK g \in Goroutines : \E i \in DOMAIN stack[g] : stack[g][i].obj = o
      BY DEF BootInv, StackInv, InStack
    <3>2. o \in Objs(stack[g])
      BY <3>1 DEF Objs
    <3> QED
      BY <3>2 DEF ChildInv, Built
  <2>2. children \subseteq Objects /\ hooked \subseteq Objects
    BY DEF ChildInv, Built
  <2>3. ASSUME NEW g \in Goroutines, NEW i \in DOMAIN stack[g]
        PROVE  TypeFrame(stack[g][i]) /\ stack[g][i].obj \in starting
    <3>1. stack[g][i] \in Frames
      BY DEF BootInv, BootShape
    <3>2. stack[g][i].obj \in Objs(stack[g])
      BY DEF Objs
    <3> QED
      BY <3>1, <3>2 DEF TypeFrame, Frames, FlightInv
  <2>4. \A g \in Goroutines : Len(stack[g]) <= Cardinality(Agents)
    BY StackIsShallow
  <2> QED
    BY <2>1, <2>2, <2>3, <2>4 DEF TypeOK, BootInv, BootShape, RestInv
<1> QED
  BY <1>1, <1>2, <1>3, PTL DEF Spec
=============================================================================
