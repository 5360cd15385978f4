------------------------------- MODULE MCBoot -------------------------------
(* The supervisor's agents, and the registry that remembers them: they     *)
(* share no state, and one behaviour exercises one of them.                *)
EXTENDS Boot, Registry

VARIABLE exercised

Pairs == {p \in Agents \X Agents : p[1] # p[2]}

\* Every way to declare up to n relations out of rels, at most one for each
\* ordered pair.
Graphs(n, rels) ==
    LET ones == {<<p[1], rel, p[2]>> : p \in Pairs, rel \in rels}
    IN  {g \in {{}} \cup {ToSet(s) : s \in [1..n -> ones]} :
            \A x, y \in g : x[1] = y[1] /\ x[3] = y[3] => x = y}

AllServices == [a \in Agents |-> "service"]
Only(a, k)  == [AllServices EXCEPT ![a] = k]

\* Boot and shutdown alone.
Quiet(graphs, kinds) ==
    [graph : graphs, kind : kinds, verbs : {0}, reloads : {0}, crashes : {0}]

\* With agent 3 missing: every way two agents can require and want each other,
\* one of them started by traffic.
TwoAgents == {g \in Graphs(2, {"requires", "wants"}) :
                \A d \in g : 3 \notin {d[1], d[3]}}
OneLazy   == {<<"service", "lazy", "broken">>, <<"lazy", "service", "broken">>}

\* An agent that names itself, and one that depends on it.
Selfish == {{<<1, rel, 1>>, <<2, "requires", 1>>} : rel \in Relations}

MCScenes ==
    Quiet(Selfish, {AllServices})
      \cup Quiet(Graphs(3, {"requires", "wants"}) \cup Graphs(2, Relations), {AllServices})
      \cup Quiet(Graphs(1, {"requires", "wants"}),
                 {Only(a, k) : a \in Agents, k \in Kinds})
      \cup [graph : TwoAgents, kind : OneLazy, verbs : {1}, reloads : {0},
            crashes : {0}]
      \cup [graph : {{<<1, "requires", 2>>}}, kind : OneLazy, verbs : {1},
            reloads : {0}, crashes : {1}]
      \cup [graph : {{<<1, "requires", 2>>}}, kind : {Only(3, "broken")},
            verbs : {0}, reloads : {1}, crashes : {0}]

-----------------------------------------------------------------------------
D(i, r, w, wb, rb) ==
    [id |-> i, requires |-> r, wants |-> w, wantedBy |-> wb, requiredBy |-> rb]

\* Agent 1 is described twice, the second time without one of its relations.
MCDescriptions == {D(1, {2}, {3}, {}, {}), D(1, {3}, {}, {}, {}),
                   D(2, {}, {3}, {1}, {3})}

\* A cheap detour, a cycle, and a dead end.
MCArcs == {<<1, 2>>, <<1, 3>>, <<2, 3>>, <<3, 2>>, <<2, 4>>, <<3, 4>>}

-----------------------------------------------------------------------------
NoScene == [graph |-> {}, kind |-> AllServices, verbs |-> 0, reloads |-> 0, crashes |-> 0]

\* What a behaviour does not exercise is over, or idle, from the beginning.
MCBootInit ==
    \/ exercised = "boot" /\ Init /\ RegistryOn({NoEdges})
    \/ /\ exercised = "registry" /\ scene = NoScene /\ BootAt("exited") /\ RegistryInit

MCBootNext ==
    /\ UNCHANGED exercised
    /\ \/ exercised = "boot" /\ Next /\ UNCHANGED regVars
       \/ exercised = "registry" /\ RegistryNext /\ UNCHANGED vars

MCBootSpec ==
    MCBootInit /\ [][MCBootNext]_<<exercised, vars, regVars>> /\ Fairness
=============================================================================
