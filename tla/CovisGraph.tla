----------------------------- MODULE CovisGraph -----------------------------
(***************************************************************************)
(* The weighted undirected graph of MC-Calib (McCalib/src/Graph.cpp) that  *)
(* relates boards, cameras, camera groups and objects seen together.       *)
(*                                                                         *)
(* A graph holds its vertex names in the order they were created and its   *)
(* edges as <<v1, v2, n>>: every edge of the program is added with the     *)
(* weight 1 / n for the n poses measured between v1 and v2, so n stands    *)
(* for the weight.  Parallel edges are allowed, as in adjacency_list with  *)
(* listS.                                                                  *)
(***************************************************************************)
EXTENDS Integers, Sequences, FiniteSets, FiniteSetsExt, SequencesExt

EmptyGraph == [vertex |-> << >>, edge |-> {}]

Vertices(g) == {g.vertex[i] : i \in DOMAIN g.vertex}

AddVertex(g, v) ==
    IF v \in Vertices(g) THEN g
    ELSE [vertex |-> Append(g.vertex, v), edge |-> g.edge]

\* Missing end points are created, the first one first.
AddEdge(g, v1, v2, n) ==
    LET h == AddVertex(AddVertex(g, v1), v2)
    IN  [vertex |-> h.vertex, edge |-> h.edge \cup {<<v1, v2, n>>}]

\* The order of std::pair<int, int>.
Before(p, q) == p[1] < q[1] \/ (p[1] = q[1] /\ p[2] < q[2])

Increasing(S) == {p \in S \X S : p[1] < p[2]}

Lexicographic(S) == {p \in S \X S : Before(p[1], p[2])}

\* The elements of S in the order less, a set of pairs.
Ascending(S, less) ==
    [i \in 1 .. Cardinality(S) |->
        CHOOSE x \in S : Cardinality({y \in S : <<y, x>> \in less}) = i - 1]

\* addVertex for each element of S and then addEdge for each pair of DOMAIN n,
\* both in the ascending order of the std::map they are read from.
BuildGraph(S, n) ==
    LET pairs == Ascending(DOMAIN n, Lexicographic(DOMAIN n))
        g[k \in 0 .. Len(pairs)] ==
            IF k = 0
            THEN [vertex |-> Ascending(S, Increasing(S)), edge |-> {}]
            ELSE AddEdge(g[k - 1], pairs[k][1], pairs[k][2], n[pairs[k]])
    IN  g[Len(pairs)]

Adjacent(g, u, v) == \E e \in g.edge : {e[1], e[2]} = {u, v}

\* The sets that contain v and no end of an edge without the other.
Closed(g, v) ==
    {S \in SUBSET Vertices(g) :
        v \in S /\ \A e \in g.edge : e[1] \in S <=> e[2] \in S}

\* The vertices that chains of edges join to v.
Component(g, v) ==
    LET closed == Closed(g, v)
    IN  {w \in Vertices(g) : \A S \in closed : w \in S}

\* boost::connected_components numbers a component when it meets its first
\* vertex in creation order.
ConnectedComponents(g) ==
    LET firsts == {i \in DOMAIN g.vertex :
                      \A j \in 1 .. i - 1 :
                         g.vertex[j] \notin Component(g, g.vertex[i])}
        order  == Ascending(firsts, Increasing(firsts))
    IN  [k \in DOMAIN order |-> Component(g, g.vertex[order[k]])]

-----------------------------------------------------------------------------
(* What shortestPathBetween can return.                                    *)

\* The weight 1 / n as Dijkstra adds it: the distances are int, so the sum of
\* an int and 1 / n is truncated.
IntWeight(n) == 1 \div n

\* The cheapest truncated weight among the parallel edges of u and v.
Hop(g, u, v) == Min({IntWeight(e[3]) : e \in {d \in g.edge :
                                                {d[1], d[2]} = {u, v}}})

\* The edges in both directions with their truncated weights.
Hops(g) == UNION {{<<e[1], e[2], IntWeight(e[3])>>,
                   <<e[2], e[1], IntWeight(e[3])>>} : e \in g.edge}

\* Where a walk of at most k hops from s can end and what it adds up to, for
\* every k.
Walks(g, s) ==
    LET hops == Hops(g)
        w[k \in Nat] ==
            IF k = 0 THEN {<<s, 0>>}
            ELSE LET shorter == w[k - 1]
                 IN  shorter \cup {<<p[2][2], p[1][2] + p[2][3]>> :
                         p \in {q \in shorter \X hops : q[1][1] = q[2][1]}}
    IN  w

\* The truncated distance from s of every vertex of its component.
Distance(g, s) ==
    LET walks == Walks(g, s)[Len(g.vertex)]
    IN  [v \in Component(g, s) |-> Min({w[2] : w \in {x \in walks : x[1] = v}})]

\* The paths from s to t without repetition along which Dijkstra's truncated
\* distances are attained; a vertex that costs nothing from the source hangs
\* directly below it, because the source is expanded first and a predecessor
\* is only replaced by a strictly nearer one.
Paths(g, s, t) ==
    LET C    == Component(g, s)
        dist == Distance(g, s)
        Below(u, v) ==
            /\ Adjacent(g, u, v) /\ dist[u] + Hop(g, u, v) = dist[v]
            /\ u = s \/ ~Adjacent(g, s, v) \/ Hop(g, s, v) # dist[v]
    IN  {p \in {<<s>> \o q : q \in UNION {[1 .. k -> C \ {s}] :
                                            k \in 0 .. Cardinality(C) - 1}} :
            /\ Last(p) = t /\ IsInjective(p)
            /\ \A i \in 1 .. Len(p) - 1 : Below(p[i], p[i + 1])}
=============================================================================
