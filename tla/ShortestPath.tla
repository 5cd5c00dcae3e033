---------------------------- MODULE ShortestPath ----------------------------
(***************************************************************************)
(* Graph::shortestPathBetween and Graph::getPath (McCalib/src/Graph.cpp):  *)
(* boost::dijkstra_shortest_paths run with an int distance map over double *)
(* weights, then the walk back along the predecessor map.                  *)
(*                                                                         *)
(* Which of several nearest vertices is expanded first is Boost's heap's   *)
(* business; here it is any of them.                                       *)
(***************************************************************************)
EXTENDS CovisGraph

CONSTANTS
    Graphs,   \* the graphs to run on
    MaxInt    \* the distance of a vertex not reached, numeric_limits<int>::max

ASSUME GraphsAssumption ==
    /\ MaxInt \in Nat
    /\ \A h \in Graphs :
         /\ h.vertex \in Seq(Nat) /\ MaxInt > Len(h.vertex)
         /\ h.edge \subseteq Vertices(h) \X Vertices(h) \X (Nat \ {0})

VARIABLES
    g,        \* graph_
    v1, v2,   \* the arguments
    pc,       \* "start", "search", "walk", "done"
    distances,
    p_map,    \* predecessor map
    gray,     \* reached, not yet expanded
    black,    \* expanded
    current,  \* getPath: where the walk back stands
    path      \* getPath: the walk so far, already reversed

vars == <<g, v1, v2, pc, distances, p_map, gray, black, current, path>>

V == Vertices(g)

Init ==
    /\ g \in Graphs
    /\ v1 \in V \cup {-1} /\ v2 \in V \cup {-1}
    /\ (v1 \in V /\ v2 \in V) => v2 \in Component(g, v1)
    /\ pc = "start"
    /\ distances = [v \in V |-> 0] /\ p_map = [v \in V |-> 0]
    /\ gray = {} /\ black = {} /\ current = v2 /\ path = << >>

\* An unknown name: an empty path.
Unknown ==
    /\ pc = "start" /\ (v1 \notin V \/ v2 \notin V)
    /\ pc' = "done"
    /\ UNCHANGED <<g, v1, v2, distances, p_map, gray, black, current, path>>

\* Every vertex is its own predecessor until it is reached.
Start ==
    /\ pc = "start" /\ v1 \in V /\ v2 \in V
    /\ distances' = [v \in V |-> IF v = v1 THEN 0 ELSE MaxInt]
    /\ p_map' = [v \in V |-> v]
    /\ gray' = {v1}
    /\ pc' = "search"
    /\ UNCHANGED <<g, v1, v2, black, current, path>>

\* Mutant: hops are counted instead of weights.
CombineHops(d, n) == d + 1

\* closed_plus<int>: the double weight is truncated when it is added.
Combine(d, n) == d + IntWeight(n)

\* The distance of w by way of u, over the best of the parallel edges.
Through(u, w) == Min({Combine(distances[u], e[3]) :
                        e \in {d \in g.edge : {d[1], d[2]} = {u, w}}})

\* Mutant: any vertex that is not farther is moved, expanded ones too.
RelaxedAlways(u) == {w \in V : w # u /\ Adjacent(g, u, w)
                               /\ Through(u, w) <= distances[w]}

\* relax() moves w below u only when that is strictly nearer.
Relaxed(u) == {w \in V \ black : /\ w # u /\ Adjacent(g, u, w)
                                 /\ Through(u, w) < distances[w]}

Nearest == {u \in gray : \A w \in gray : distances[u] <= distances[w]}

\* Mutant: the vertex expanded stays in the queue.
ReachedAgain(u) == gray \cup {w \in V \ black : w # u /\ Adjacent(g, u, w)}

\* The queue after u was taken from it.
Reached(u) == (gray \ {u}) \cup {w \in V \ black : w # u /\ Adjacent(g, u, w)}

Expand(u) ==
    /\ pc = "search" /\ u \in Nearest
    /\ distances' = [w \in V |-> IF w \in Relaxed(u) THEN Through(u, w)
                                 ELSE distances[w]]
    /\ p_map' = [w \in V |-> IF w \in Relaxed(u) THEN u ELSE p_map[w]]
    /\ gray' = Reached(u)
    /\ black' = black \cup {u}
    /\ UNCHANGED <<g, v1, v2, pc, current, path>>

Searched ==
    /\ pc = "search" /\ gray = {}
    /\ pc' = "walk"
    /\ UNCHANGED <<g, v1, v2, distances, p_map, gray, black, current, path>>

WalkBack ==
    /\ pc = "walk" /\ current # v1
    /\ path' = <<current>> \o path
    /\ current' = p_map[current]
    /\ UNCHANGED <<g, v1, v2, pc, distances, p_map, gray, black>>

EndWalk ==
    /\ pc = "walk" /\ current = v1
    /\ path' = <<v1>> \o path
    /\ pc' = "done"
    /\ UNCHANGED <<g, v1, v2, distances, p_map, gray, black, current>>

Done == pc = "done" /\ UNCHANGED vars

Next == \/ Unknown \/ Start \/ (\E u \in gray : Expand(u)) \/ Searched
        \/ WalkBack \/ EndWalk \/ Done

\* A sequential function that runs to its end.
Spec == Init /\ [][Next]_vars /\ WF_vars(Next)

-----------------------------------------------------------------------------
TypeOK ==
    /\ g.edge \subseteq V \X V \X Nat /\ v1 \in V \cup {-1} /\ v2 \in V \cup {-1}
    /\ pc \in {"start", "search", "walk", "done"}
    /\ distances \in [V -> 0 .. MaxInt]
    /\ DOMAIN p_map = V
    /\ gray \subseteq V /\ black \subseteq V /\ gray \cap black = {}
    /\ current \in V \cup {-1} /\ IsInjective(path)

\* While the search runs, following the predecessors from any vertex reached
\* leads back to the source along edges, never farther: hops of no length do
\* not close a cycle, in which getPath would not end.
TreeOfPredecessors ==
    /\ TypeOK
    /\ pc \in {"search", "walk"} =>
        LET reached == (gray \cup black) \ {v1}
        IN  /\ \A v \in reached :
                  /\ p_map[v] \in black /\ Adjacent(g, p_map[v], v)
                  /\ distances[p_map[v]] <= distances[v]
            /\ \A cycle \in (SUBSET reached) \ {{}} :
                  \E v \in cycle : p_map[v] \notin cycle

\* The path returned is one of those Paths describes, which is what the model
\* of the calibration uses in place of this search.
PathIsExpected ==
    pc = "done" /\ v1 \in V /\ v2 \in V => path \in Paths(g, v1, v2)

\* For two vertices of a component a path is always returned: the walk back
\* reaches the source.
PathReturned == <>(pc = "done")
=============================================================================
