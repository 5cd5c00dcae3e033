------------------------- MODULE ShortestPathProofs -------------------------
(***************************************************************************)
(* Proofs about the search for a path in the graph of what was seen        *)
(* together, for graphs of any size and any truncated distances: the       *)
(* predecessors form a tree, so that getPath ends at the source, and it    *)
(* returns a path along edges from the one vertex to the other.            *)
(***************************************************************************)
EXTENDS ShortestPath, FiniteSetTheorems, SequenceTheorems, WellFoundedInduction, TLAPS

-----------------------------------------------------------------------------
(* The least number of a set, in place of an induction.                    *)
LEMMA LeastNumber ==
    ASSUME NEW S \in SUBSET Nat, S # {}
    PROVE  \E n \in S : \A m \in S : n <= m
<1>1. PICK n \in S : \A m \in S : ~ (<<m, n>> \in OpToRel(<, Nat))
  BY NatLessThanWellFounded, WFMin
<1>2. \A m \in S : ~(m < n)
  BY <1>1 DEF OpToRel
<1> QED BY <1>2

\* Min of the community modules finds it.
LEMMA MinOfNumbers ==
    ASSUME NEW S \in SUBSET Nat, S # {}
    PROVE  Min(S) \in S /\ \A m \in S : Min(S) <= m
BY LeastNumber DEF Min

-----------------------------------------------------------------------------
(* Functions on the natural numbers defined by recursion.                  *)

\* f starts at x and takes n steps.
StepsUpTo(W, x, step, n) ==
    {f \in [0 .. n -> W] : f[0] = x /\ \A k \in 1 .. n : f[k] = step[f[k - 1]]}

\* n steps can be taken from x.
LEMMA StepsExist ==
    ASSUME NEW W, NEW x \in W, NEW step \in [W -> W], NEW n \in Nat
    PROVE  StepsUpTo(W, x, step, n) # {}
<1> DEFINE bad == {m \in Nat : StepsUpTo(W, x, step, m) = {}}
<1> SUFFICES ASSUME bad # {}
             PROVE  FALSE
  OBVIOUS
<1>1. PICK m \in bad : \A l \in bad : m <= l
  BY LeastNumber
<1>2. m # 0
  <2>1. [k \in 0 .. 0 |-> x] \in StepsUpTo(W, x, step, 0)
    BY DEF StepsUpTo
  <2> QED BY <2>1, <1>1
<1>3. m - 1 \in Nat /\ m - 1 \notin bad
  BY <1>1, <1>2
<1>4. PICK f : f \in StepsUpTo(W, x, step, m - 1)
  BY <1>3
<1>5. f \in [0 .. m - 1 -> W] /\ f[0] = x /\ \A k \in 1 .. m - 1 : f[k] = step[f[k - 1]]
  BY <1>4 DEF StepsUpTo
<1> DEFINE e == [k \in 0 .. m |-> IF k = m THEN step[f[m - 1]] ELSE f[k]]
<1>6. step[f[m - 1]] \in W
  BY <1>3, <1>5
<1>7. e \in [0 .. m -> W] /\ e[0] = x
  BY <1>3, <1>5, <1>6
<1>8. ASSUME NEW k \in 1 .. m
      PROVE  e[k] = step[e[k - 1]]
  <2>1. k - 1 \in 0 .. m - 1 /\ e[k - 1] = f[k - 1]
    BY <1>3
  <2> QED BY <1>3, <1>5, <2>1
<1>9. e \in StepsUpTo(W, x, step, m)
  BY <1>7, <1>8 DEF StepsUpTo
<1> QED BY <1>1, <1>9

\* In one way only.
LEMMA StepsAgree ==
    ASSUME NEW W, NEW x, NEW step, NEW n \in Nat, NEW m \in Nat,
           NEW e \in StepsUpTo(W, x, step, n), NEW f \in StepsUpTo(W, x, step, m)
    PROVE  \A k \in Nat : k <= n /\ k <= m => e[k] = f[k]
<1> DEFINE bad == {k \in Nat : k <= n /\ k <= m /\ e[k] # f[k]}
<1> SUFFICES ASSUME bad # {}
             PROVE  FALSE
  OBVIOUS
<1>1. PICK k \in bad : \A l \in bad : k <= l
  BY LeastNumber
<1>2. k # 0
  BY <1>1 DEF StepsUpTo
<1>3. k - 1 \in Nat /\ k - 1 \notin bad /\ k \in 1 .. n /\ k \in 1 .. m
  BY <1>1, <1>2
<1>4. e[k - 1] = f[k - 1]
  BY <1>1, <1>3
<1>5. e[k] = step[e[k - 1]] /\ f[k] = step[f[k - 1]]
  BY <1>3 DEF StepsUpTo
<1> QED BY <1>1, <1>4, <1>5

\* There is a function that starts at x and takes a step from each number to
\* the next.
LEMMA RecursionExists ==
    ASSUME NEW W, NEW x \in W, NEW step \in [W -> W]
    PROVE  \E c \in [Nat -> W] : c[0] = x /\ \A k \in Nat \ {0} : c[k] = step[c[k - 1]]
<1> DEFINE some(k) == CHOOSE f : f \in StepsUpTo(W, x, step, k)
           c == [k \in Nat |-> some(k)[k]]
<1>1. \A k \in Nat : some(k) \in StepsUpTo(W, x, step, k)
  BY StepsExist
<1> HIDE DEF some
<1>2. c[0] = x /\ c \in [Nat -> W]
  BY <1>1 DEF StepsUpTo
<1>3. ASSUME NEW k \in Nat, k # 0
      PROVE  c[k] = step[c[k - 1]]
  <2>1. /\ some(k) \in StepsUpTo(W, x, step, k)
        /\ some(k - 1) \in StepsUpTo(W, x, step, k - 1) /\ k - 1 \in Nat
    BY <1>1, <1>3
  <2>2. c[k] = some(k)[k] /\ c[k - 1] = some(k - 1)[k - 1]
    BY <2>1
  <2> HIDE DEF c
  <2>3. some(k - 1)[k - 1] = some(k)[k - 1]
    BY <2>1, StepsAgree
  <2>4. some(k)[k] = step[some(k)[k - 1]]
    BY <1>3, <2>1 DEF StepsUpTo
  <2> QED BY <2>2, <2>3, <2>4
<1> QED BY <1>2, <1>3

-----------------------------------------------------------------------------
(* Who leaves a set of vertices takes an edge out of it: a component is in *)
(* every set that its vertex is in and no edge leaves.                     *)

\* A component lies in a set of its vertex and all neighbours.
LEMMA ComponentInClosed ==
    ASSUME NEW h \in Graphs, NEW v, NEW S \in SUBSET Vertices(h), v \in S,
           \A u \in S : \A w \in Vertices(h) : Adjacent(h, u, w) => w \in S
    PROVE  Component(h, v) \subseteq S
<1>1. \A e \in h.edge : e[1] \in Vertices(h) /\ e[2] \in Vertices(h)
  BY GraphsAssumption
<1>2. \A e \in h.edge : Adjacent(h, e[1], e[2]) /\ Adjacent(h, e[2], e[1])
  BY DEF Adjacent
<1>3. S \in Closed(h, v)
  BY <1>1, <1>2 DEF Closed
<1> QED BY <1>3 DEF Component

-----------------------------------------------------------------------------
(* The inductive invariant.                                                *)

\* The two vertices are in the graph, and the search has begun.
Searching == pc # "start" /\ v1 \in V /\ v2 \in V

\* Vertices that the search has not come to are as far as can be, the others
\* as many hops at most as vertices were expanded.
Distances ==
    /\ v1 \in gray \cup black /\ distances[v1] = 0
    /\ \A v \in V \ (gray \cup black) : distances[v] = MaxInt
    /\ \A v \in gray \cup black : distances[v] <= Cardinality(black)

\* A vertex is as far as its predecessor and the hop between them.
Predecessors ==
    \A v \in (gray \cup black) \ {v1} :
        /\ p_map[v] \in black /\ Adjacent(g, p_map[v], v)
        /\ distances[v] = distances[p_map[v]] + Hop(g, p_map[v], v)

\* Following the predecessors leads out of every set without the source.
NoCycle ==
    \A cycle \in SUBSET ((gray \cup black) \ {v1}) :
        cycle # {} => \E v \in cycle : p_map[v] \notin cycle

\* No edge out of an expanded vertex is a short cut any more.
Settled ==
    \A u \in black :
        /\ \A w \in V : Adjacent(g, u, w) =>
              w \in gray \cup black /\ distances[w] <= distances[u] + Hop(g, u, w)
        /\ \A w \in gray : distances[u] <= distances[w]

\* The source is expanded first, and a neighbour that keeps the distance it
\* got from the source keeps the source as predecessor.
SourceFirst ==
    /\ black = {} => gray = {v1}
    /\ black # {} => v1 \in black
    /\ \A w \in (gray \cup black) \ {v1} :
         Adjacent(g, v1, w) => p_map[w] = v1 \/ distances[w] < Hop(g, v1, w)

\* Consecutive vertices of the path are predecessor and successor, and only its
\* first may be the source.
Chain ==
    /\ path \in Seq(black) /\ IsInjective(path)
    /\ \A i \in 1 .. Len(path) - 1 : path[i] = p_map[path[i + 1]] /\ path[i + 1] # v1

\* The walk back stands at the predecessor of the first vertex of the path,
\* which ends where it was to end.
Walk ==
    /\ gray = {} /\ v2 \in black
    /\ Chain
    /\ pc = "walk" =>
         /\ current \in black
         /\ IF path = <<>> THEN current = v2
            ELSE current = p_map[path[1]] /\ path[1] # v1
    /\ pc = "done" => path # <<>> /\ path[1] = v1
    /\ path # <<>> => Last(path) = v2

SearchInv ==
    /\ g \in Graphs /\ v1 \in V \cup {-1} /\ v2 \in V \cup {-1}
    /\ current \in V \cup {-1}
    /\ v1 \in V /\ v2 \in V => v2 \in Component(g, v1)
    /\ pc \in {"start", "search", "walk", "done"}
    /\ distances \in [V -> 0 .. MaxInt]
    /\ DOMAIN p_map = V
    /\ gray \subseteq V /\ black \subseteq V /\ gray \cap black = {}
    /\ pc = "start" => gray = {} /\ black = {}
    /\ pc \in {"search", "walk"} => v1 \in V /\ v2 \in V
    /\ pc \in {"start", "search"} \/ ~Searching => path = <<>> /\ current = v2
    /\ Searching => /\ p_map \in [V -> V]
                    /\ Distances /\ Predecessors /\ NoCycle /\ Settled /\ SourceFirst
    /\ Searching /\ pc # "search" => Walk

-----------------------------------------------------------------------------
(* Hops cost nothing or one.                                               *)
LEMMA IntWeightValue ==
    ASSUME NEW n \in Nat \ {0}
    PROVE  IntWeight(n) \in {0, 1}
BY DEF IntWeight

\* The cheapest of parallel edges, as a number.
LEMMA HopValue ==
    ASSUME NEW h \in Graphs, NEW u, NEW w, Adjacent(h, u, w)
    PROVE  /\ Hop(h, u, w) \in {0, 1}
           /\ \A e \in h.edge : {e[1], e[2]} = {u, w} => Hop(h, u, w) <= IntWeight(e[3])
           /\ \E e \in h.edge : {e[1], e[2]} = {u, w} /\ Hop(h, u, w) = IntWeight(e[3])
<1> DEFINE H == {IntWeight(e[3]) : e \in {d \in h.edge : {d[1], d[2]} = {u, w}}}
<1>1. \A e \in h.edge : e[3] \in Nat \ {0}
  BY GraphsAssumption
<1>2. H \subseteq {0, 1}
  BY <1>1, IntWeightValue
<1>3. H # {}
  BY DEF Adjacent
<1>4. Hop(h, u, w) = Min(H)
  BY DEF Hop
<1>5. Min(H) \in H /\ \A m \in H : Min(H) <= m
  <2> HIDE DEF H
  <2>1. H \in SUBSET Nat
    BY <1>2
  <2> QED BY <1>3, <2>1, MinOfNumbers
<1> QED BY <1>2, <1>4, <1>5

\* The distance by way of a neighbour, as a number.
LEMMA ThroughValue ==
    ASSUME g \in Graphs, NEW u, NEW w, Adjacent(g, u, w), distances[u] \in Nat
    PROVE  Through(u, w) = distances[u] + Hop(g, u, w)
<1> DEFINE T == {Combine(distances[u], e[3]) : e \in {d \in g.edge : {d[1], d[2]} = {u, w}}}
           x == distances[u] + Hop(g, u, w)
<1>1. \A e \in g.edge : e[3] \in Nat \ {0}
  BY GraphsAssumption
<1>2. \A e \in g.edge : Combine(distances[u], e[3]) = distances[u] + IntWeight(e[3])
                        /\ IntWeight(e[3]) \in {0, 1}
  BY <1>1, IntWeightValue DEF Combine
<1>3. T \subseteq Nat
  BY <1>2
<1>4. x \in T
  BY <1>2, HopValue
<1>5. \A m \in T : x <= m
  BY <1>2, HopValue
<1>6. Min(T) \in T /\ \A m \in T : Min(T) <= m
  BY <1>3, <1>4, MinOfNumbers
<1>7. Min(T) = x
  <2>1. x \in Nat /\ Min(T) \in Nat
    BY <1>3, <1>4, <1>6
  <2>2. x <= Min(T)
    BY <1>5, <1>6
  <2>3. Min(T) <= x
    BY <1>4, <1>6
  <2> HIDE DEF T, x
  <2> QED BY <2>1, <2>2, <2>3
<1> QED BY <1>7 DEF Through

\* The vertices are finitely many, and their number fits into an int.
LEMMA FewVertices ==
    ASSUME NEW h \in Graphs
    PROVE  /\ IsFiniteSet(Vertices(h)) /\ Cardinality(Vertices(h)) <= Len(h.vertex)
           /\ Cardinality(Vertices(h)) \in Nat
           /\ Len(h.vertex) \in Nat /\ Len(h.vertex) < MaxInt
           /\ Vertices(h) \subseteq Nat
<1>1. /\ h.vertex \in Seq(Nat) /\ Len(h.vertex) \in Nat /\ Len(h.vertex) < MaxInt
      /\ DOMAIN h.vertex = 1 .. Len(h.vertex)
  BY GraphsAssumption, LenProperties
<1>2. h.vertex \in Surjection(1 .. Len(h.vertex), Vertices(h))
  <2>1. h.vertex \in [1 .. Len(h.vertex) -> Vertices(h)]
    BY <1>1, LenProperties DEF Vertices
  <2> QED BY <1>1, <2>1 DEF Surjection, Vertices
<1>3. /\ IsFiniteSet(1 .. Len(h.vertex))
      /\ Cardinality(1 .. Len(h.vertex)) = Len(h.vertex)
  BY <1>1, FS_Interval
<1>4. IsFiniteSet(Vertices(h)) /\ Cardinality(Vertices(h)) <= Len(h.vertex)
  BY <1>2, <1>3, FS_Surjection
<1>5. Vertices(h) \subseteq Nat
  BY <1>1 DEF Vertices
<1> QED BY <1>1, <1>4, <1>5, FS_CardinalityType

-----------------------------------------------------------------------------
(* The search.                                                             *)
LEMMA StartStep ==
    ASSUME SearchInv, Start
    PROVE  SearchInv'
<1> USE DEF Start, SearchInv
<1>1. UNCHANGED <<g, v1, v2, black, current, path>> /\ V' = V
  BY DEF V
<1>2. black = {} /\ gray' = {v1} /\ v1 \in V /\ v2 \in V /\ V \subseteq Nat /\ MaxInt \in Nat
  BY FewVertices, GraphsAssumption DEF V
<1>3. distances' \in [V -> 0 .. MaxInt] /\ p_map' \in [V -> V]
  BY <1>2
<1>4. Distances'
  BY <1>1, <1>2, FS_EmptySet DEF Distances
<1>5. Predecessors' /\ NoCycle' /\ Settled' /\ SourceFirst'
  BY <1>1, <1>2 DEF Predecessors, NoCycle, Settled, SourceFirst
<1>6. Component(g, v1)' = Component(g, v1)
  BY <1>1
<1> QED BY <1>1, <1>2, <1>3, <1>4, <1>5, <1>6 DEF Searching

\* Expanding a nearest vertex keeps the invariant;
LEMMA ExpandStep ==
    ASSUME SearchInv, NEW u \in gray, Expand(u)
    PROVE  SearchInv'
<1> DEFINE d == distances
           R == Relaxed(u)
           N == {w \in V \ black : w # u /\ Adjacent(g, u, w)}
<1> USE DEF SearchInv
<1>1. /\ UNCHANGED <<g, v1, v2, pc, current, path>> /\ V' = V
      /\ pc = "search" /\ Searching /\ pc' = "search" /\ Searching'
      /\ gray' = (gray \ {u}) \cup N /\ black' = black \cup {u}
      /\ u \in V /\ u \notin black
      /\ \A w \in gray : d[u] <= d[w]
  BY DEF Expand, Nearest, Reached, Searching, V
<1>2. /\ d \in [V -> 0 .. MaxInt] /\ MaxInt \in Nat
      /\ \A w \in V : d[w] \in Nat
  BY GraphsAssumption
<1>3. /\ IsFiniteSet(V) /\ IsFiniteSet(black) /\ Cardinality(black) \in Nat
      /\ IsFiniteSet(black') /\ Cardinality(black') = Cardinality(black) + 1
      /\ Cardinality(black') < MaxInt
  <2>1. /\ IsFiniteSet(V) /\ Cardinality(V) \in Nat /\ Cardinality(V) < MaxInt
    BY FewVertices, <1>2 DEF V
  <2>2. IsFiniteSet(black) /\ Cardinality(black) \in Nat
    BY <2>1, FS_Subset, FS_CardinalityType
  <2>3. IsFiniteSet(black') /\ Cardinality(black') = Cardinality(black) + 1
    BY <1>1, <2>2, FS_AddElement
  <2>4. Cardinality(black') <= Cardinality(V)
    BY <1>1, <2>1, FS_Subset
  <2> QED BY <1>2, <2>1, <2>2, <2>3, <2>4
<1>4. \A w \in V : Adjacent(g, u, w) =>
        /\ Hop(g, u, w) \in {0, 1}
        /\ Through(u, w) = d[u] + Hop(g, u, w)
  BY <1>1, <1>2, HopValue, ThroughValue
<1>5. d[u] <= Cardinality(black)
  BY <1>1 DEF Distances
<1>6. /\ R \subseteq N
      /\ \A w \in N : IF w \in R THEN Through(u, w) < d[w] ELSE d[w] <= Through(u, w)
  BY <1>2, <1>4 DEF Relaxed
<1>7. /\ distances' = [w \in V |-> IF w \in R THEN Through(u, w) ELSE d[w]]
      /\ p_map' = [w \in V |-> IF w \in R THEN u ELSE p_map[w]]
  BY DEF Expand
<1> HIDE DEF R, N
<1>8. /\ \A w \in R : distances'[w] = d[u] + Hop(g, u, w) /\ p_map'[w] = u
      /\ \A w \in V \ R : distances'[w] = d[w] /\ p_map'[w] = p_map[w]
      /\ \A w \in V : distances'[w] <= d[w]
      /\ \A w \in N : distances'[w] <= d[u] + Hop(g, u, w) /\ d[u] <= distances'[w]
  <2>1. \A w \in N : w \in V /\ Adjacent(g, u, w) /\ w \notin black /\ w # u
    BY DEF N
  <2>2. \A w \in N : d[u] <= d[w]
    <3>1. \A w \in V \ (gray \cup black) : d[w] = MaxInt
      BY <1>1 DEF Distances
    <3> QED BY <1>1, <1>2, <2>1, <3>1
  <2> QED BY <1>2, <1>4, <1>6, <1>7, <2>1, <2>2
<1>9. /\ distances' \in [V -> 0 .. MaxInt]
      /\ \A w \in V : distances'[w] \in Nat
  BY <1>2, <1>4, <1>6, <1>7, <1>8 DEF N
<1>10. p_map' \in [V -> V]
  BY <1>1, <1>7
<1>11. \A w \in N : w \notin gray => w \in R
  <2>1. \A w \in V \ (gray \cup black) : d[w] = MaxInt
    BY <1>1 DEF Distances
  <2>2. ASSUME NEW w \in N, w \notin gray
        PROVE  w \in R
    <3>1. d[w] = MaxInt /\ w \in V /\ Adjacent(g, u, w)
      BY <2>1, <2>2 DEF N
    <3>2. Through(u, w) < MaxInt
      BY <1>2, <1>3, <1>4, <1>5, <3>1
    <3> QED BY <1>1, <1>2, <1>4, <1>6, <2>2, <3>1, <3>2
  <2> QED BY <2>2
<1>12. Distances'
  <2>1. v1 \in gray' \cup black' /\ distances'[v1] = 0
    BY <1>1, <1>2, <1>8, <1>9 DEF Distances
  <2>2. \A v \in V \ (gray' \cup black') : distances'[v] = MaxInt
    BY <1>1, <1>6, <1>8 DEF Distances
  <2>3. ASSUME NEW v \in gray' \cup black'
        PROVE  distances'[v] <= Cardinality(black')
    <3>1. v \in V
      BY <1>1 DEF N
    <3>2. CASE v \in gray \cup black
      <4>1. d[v] <= Cardinality(black)
        BY <1>1, <3>2 DEF Distances
      <4> QED BY <1>2, <1>3, <1>8, <1>9, <3>1, <4>1
    <3>3. CASE v \in N
      BY <1>2, <1>3, <1>4, <1>5, <1>8, <1>9, <3>1, <3>3 DEF N
    <3> QED BY <1>1, <2>3, <3>2, <3>3
  <2> QED BY <1>1, <2>1, <2>2, <2>3 DEF Distances
<1>13. \A v \in black' : v \notin R
  BY <1>1, <1>6 DEF N
<1>14. ASSUME NEW v \in (gray' \cup black') \ {v1}, v \notin R
       PROVE  v \in (gray \cup black) \ {v1}
  BY <1>1, <1>6, <1>11, <1>14
<1>15. Predecessors'
  <2>1. ASSUME NEW v \in (gray' \cup black') \ {v1}
        PROVE  /\ p_map'[v] \in black' /\ Adjacent(g, p_map'[v], v)
               /\ distances'[v] = distances'[p_map'[v]] + Hop(g, p_map'[v], v)
    <3>1. CASE v \in R
      <4>1. distances'[u] = d[u]
        BY <1>1, <1>8, <1>13
      <4> QED BY <1>1, <1>6, <1>8, <3>1, <4>1 DEF N
    <3>2. CASE v \notin R
      <4>1. v \in (gray \cup black) \ {v1} /\ v \in V
        BY <1>14, <2>1, <3>2
      <4>2. /\ p_map[v] \in black /\ Adjacent(g, p_map[v], v)
            /\ d[v] = d[p_map[v]] + Hop(g, p_map[v], v)
        BY <1>1, <4>1 DEF Predecessors
      <4>3. distances'[p_map[v]] = d[p_map[v]]
        BY <1>1, <1>8, <1>13, <4>2
      <4> QED BY <1>1, <1>8, <3>2, <4>1, <4>2, <4>3
    <3> QED BY <3>1, <3>2
  <2> QED BY <1>1, <2>1 DEF Predecessors
<1>16. NoCycle'
  <2> SUFFICES ASSUME NEW cycle \in SUBSET ((gray' \cup black') \ {v1}), cycle # {},
                      \A v \in cycle : p_map'[v] \in cycle
               PROVE  FALSE
    BY <1>1 DEF NoCycle
  <2>1. \A v \in cycle : p_map'[v] \in black'
    BY <1>1, <1>15 DEF Predecessors
  <2> DEFINE old == cycle \cap black
  <2>2. \A v \in old : p_map'[v] = p_map[v] /\ p_map[v] \in black
    BY <1>1, <1>8, <1>13 DEF Predecessors
  <2>3. \A v \in old : p_map[v] \in old
    BY <2>2
  <2>4. old = {}
    BY <1>1, <2>3 DEF NoCycle
  <2>5. u \in cycle
    BY <1>1, <2>1, <2>4
  <2>6. p_map'[u] = p_map[u] /\ p_map[u] \in black
    BY <1>1, <1>8, <1>13, <2>5 DEF Predecessors
  <2> QED BY <2>4, <2>5, <2>6
<1>17. Settled'
  <2>1. ASSUME NEW b \in black', NEW w \in V, Adjacent(g, b, w)
        PROVE  w \in gray' \cup black' /\ distances'[w] <= distances'[b] + Hop(g, b, w)
    <3>1. distances'[b] = d[b] /\ b \in V
      BY <1>1, <1>8, <1>13
    <3>2. Hop(g, b, w) \in {0, 1}
      BY <2>1, HopValue
    <3>3. CASE b \in black
      <4>1. w \in gray \cup black /\ d[w] <= d[b] + Hop(g, b, w)
        BY <1>1, <2>1, <3>3 DEF Settled
      <4> QED BY <1>1, <1>2, <1>8, <1>9, <3>1, <3>2, <4>1
    <3>4. CASE b = u /\ w \in N
      BY <1>1, <1>8, <3>1, <3>4
    <3>5. CASE b = u /\ w \notin N
      <4>1. w \in black \/ w = u
        BY <2>1, <3>5 DEF N
      <4>2. d[w] <= d[u]
        BY <1>1, <1>2, <4>1 DEF Settled
      <4> QED BY <1>1, <1>2, <1>8, <1>9, <3>1, <3>2, <3>5, <4>1, <4>2
    <3> QED BY <1>1, <3>3, <3>4, <3>5
  <2>2. ASSUME NEW b \in black', NEW w \in gray'
        PROVE  distances'[b] <= distances'[w]
    <3>1. distances'[b] = d[b] /\ b \in V /\ w \in V
      BY <1>1, <1>8, <1>13 DEF N
    <3>2. d[b] <= d[u]
      BY <1>1, <1>2 DEF Settled
    <3>3. d[u] <= distances'[w]
      <4>1. CASE w \in N
        BY <1>8, <4>1
      <4>2. CASE w \notin N
        BY <1>1, <1>6, <1>8, <2>2, <3>1, <4>2
      <4> QED BY <4>1, <4>2
    <3> QED BY <1>1, <1>2, <1>9, <3>1, <3>2, <3>3
  <2> QED BY <1>1, <2>1, <2>2 DEF Settled
<1>18. SourceFirst'
  <2>1. v1 \in black'
    BY <1>1 DEF SourceFirst
  <2>2. ASSUME NEW w \in (gray' \cup black') \ {v1}, Adjacent(g, v1, w)
        PROVE  p_map'[w] = v1 \/ distances'[w] < Hop(g, v1, w)
    <3>1. w \in V /\ Hop(g, v1, w) \in {0, 1}
      BY <1>1, <2>2, HopValue DEF N
    <3>2. CASE w \notin R
      <4>1. w \in (gray \cup black) \ {v1}
        BY <1>14, <2>2, <3>2
      <4> QED BY <1>1, <1>8, <2>2, <3>1, <3>2, <4>1 DEF SourceFirst
    <3>3. CASE w \in R /\ u = v1
      BY <1>8, <3>3
    <3>4. CASE w \in R /\ u # v1
      <4>1. v1 \in black
        BY <1>1, <3>4 DEF SourceFirst
      <4>2. d[w] <= d[v1] + Hop(g, v1, w) /\ d[v1] = 0
        BY <1>1, <2>2, <3>1, <4>1 DEF Settled, Distances
      <4>3. distances'[w] < d[w]
        BY <1>6, <1>7, <3>1, <3>4
      <4> QED BY <1>2, <1>9, <3>1, <4>2, <4>3
    <3> QED BY <3>2, <3>3, <3>4
  <2> QED BY <1>1, <2>1, <2>2 DEF SourceFirst
<1>19. /\ gray' \subseteq V' /\ black' \subseteq V' /\ gray' \cap black' = {}
       /\ distances' \in [V' -> 0 .. MaxInt] /\ DOMAIN p_map' = V' /\ p_map' \in [V' -> V']
       /\ path' = <<>> /\ current' = v2' /\ Component(g, v1)' = Component(g, v1)
  BY <1>1, <1>9, <1>10 DEF N
<1> QED BY <1>1, <1>12, <1>15, <1>16, <1>17, <1>18, <1>19

\* so do the end of the search,
LEMMA SearchedStep ==
    ASSUME SearchInv, Searched
    PROVE  SearchInv'
<1> USE DEF SearchInv, Searched
<1>1. /\ UNCHANGED <<g, v1, v2, distances, p_map, gray, black, current, path>>
      /\ V' = V /\ Searching /\ Searching' /\ pc' = "walk" /\ pc = "search"
      /\ v1 \in V /\ v2 \in Component(g, v1) /\ gray = {}
  BY DEF Searching, V
<1>2. v2 \in black
  <2>1. v1 \in black
    BY <1>1 DEF Distances
  <2>2. \A u \in black : \A w \in V : Adjacent(g, u, w) => w \in black
    BY <1>1 DEF Settled
  <2>3. g.vertex \in Seq(Nat)
    BY GraphsAssumption
  <2>4. Component(g, v1) \subseteq black
    BY <2>1, <2>2, <2>3, ComponentInClosed DEF V
  <2> QED BY <1>1, <2>4
<1>3. Distances' /\ Predecessors' /\ NoCycle' /\ Settled' /\ SourceFirst'
  BY <1>1 DEF Distances, Predecessors, NoCycle, Settled, SourceFirst
<1>4. Walk'
  <2>1. path' = <<>> /\ current' = v2'
    BY <1>1
  <2>2. Chain'
    BY <2>1 DEF Chain, IsInjective
  <2> QED BY <1>1, <1>2, <2>1, <2>2 DEF Walk
<1> QED BY <1>1, <1>3, <1>4

-----------------------------------------------------------------------------
(* The walk back.                                                          *)

\* The walk back does not come to a vertex of the path again, or the path would
\* hold a cycle of predecessors.
LEMMA NotOnPath ==
    ASSUME SearchInv, pc = "walk", NEW n \in 1 .. Len(path)
    PROVE  path[n] # current
<1> SUFFICES ASSUME path[n] = current
             PROVE  FALSE
  OBVIOUS
<1>1. /\ NoCycle /\ Chain /\ path # <<>> /\ current = p_map[path[1]]
      /\ path[1] # v1
  BY DEF SearchInv, Searching, Walk
<1>2. path \in Seq(black) /\ Len(path) \in Nat
  BY <1>1, LenProperties DEF Chain
<1> DEFINE cycle == {path[i] : i \in 1 .. n}
<1>3. ASSUME NEW i \in 1 .. n
      PROVE  path[i] \in black /\ path[i] # v1 /\ p_map[path[i]] \in cycle
  <2>1. i \in 1 .. Len(path) /\ path[i] \in black
    BY <1>2, ElementOfSeq
  <2>2. CASE i = 1
    BY <1>1, <2>1, <2>2
  <2>3. CASE i # 1
    <3>1. i - 1 \in 1 .. Len(path) - 1 /\ i - 1 \in 1 .. n /\ (i - 1) + 1 = i
      BY <1>2, <2>3
    <3>2. path[i - 1] = p_map[path[i]] /\ path[i] # v1
      BY <1>1, <3>1 DEF Chain
    <3> QED BY <2>1, <3>1, <3>2
  <2> QED BY <2>2, <2>3
<1>4. cycle \in SUBSET ((gray \cup black) \ {v1}) /\ cycle # {}
  BY <1>3
<1>5. \A v \in cycle : p_map[v] \in cycle
  BY <1>3
<1> HIDE DEF cycle
<1> QED BY <1>1, <1>4, <1>5 DEF NoCycle

\* a path that grows at its front,
LEMMA LongerPath ==
    ASSUME SearchInv, pc = "walk", path' = <<current>> \o path,
           UNCHANGED <<v1, p_map, black>>
    PROVE  Chain' /\ path' # <<>> /\ path'[1] = current /\ Last(path') = v2
<1> DEFINE k == Len(path)
<1>1. /\ Chain /\ current \in black
      /\ IF path = <<>> THEN current = v2
         ELSE current = p_map[path[1]] /\ path[1] # v1
      /\ path # <<>> => Last(path) = v2
  BY DEF SearchInv, Searching, Walk
<1>2. path \in Seq(black) /\ k \in Nat /\ (path = <<>> <=> k = 0)
  BY <1>1, LenProperties, EmptySeq DEF Chain
<1>3. /\ path' \in Seq(black) /\ Len(path') = k + 1
      /\ path'[1] = current
      /\ \A i \in 1 .. k : path'[i + 1] = path[i]
      /\ \A i \in 2 .. k + 1 : path'[i] = path[i - 1]
  BY <1>1, <1>2
<1>4. IsInjective(path)'
  <2>1. \A i, j \in 1 .. k : path[i] = path[j] => i = j
    BY <1>1, <1>2, LenProperties DEF Chain, IsInjective
  <2>2. \A i \in 1 .. k : path[i] # current
    BY NotOnPath
  <2>3. ASSUME NEW i \in 1 .. k + 1, NEW j \in 1 .. k + 1, path'[i] = path'[j]
        PROVE  i = j
    <3> HIDE DEF k
    <3>1. CASE i = 1 /\ j # 1
      BY <1>2, <1>3, <2>2, <2>3, <3>1
    <3>2. CASE i # 1 /\ j = 1
      BY <1>2, <1>3, <2>2, <2>3, <3>2
    <3>3. CASE i # 1 /\ j # 1
      <4>1. i - 1 \in 1 .. k /\ j - 1 \in 1 .. k
        BY <1>2, <3>3
      <4>2. i - 1 = j - 1
        BY <1>2, <1>3, <2>1, <2>3, <3>3, <4>1
      <4> QED BY <1>2, <4>2
    <3> QED BY <3>1, <3>2, <3>3
  <2> QED BY <1>2, <1>3, <2>3, LenProperties DEF IsInjective
<1>5. ASSUME NEW i \in 1 .. Len(path') - 1
      PROVE  path'[i] = p_map[path'[i + 1]] /\ path'[i + 1] # v1
  <2>1. i \in 1 .. k /\ path'[i + 1] = path[i]
    BY <1>2, <1>3
  <2>2. CASE i = 1
    BY <1>1, <1>2, <1>3, <2>1, <2>2
  <2>3. CASE i # 1
    <3>1. i - 1 \in 1 .. k - 1 /\ (i - 1) + 1 = i /\ path'[i] = path[i - 1]
      BY <1>2, <1>3, <2>1, <2>3
    <3>2. path[i - 1] = p_map[path[i]] /\ path[i] # v1
      BY <1>1, <3>1 DEF Chain
    <3> QED BY <2>1, <3>1, <3>2
  <2> QED BY <2>2, <2>3
<1>6. Last(path') = v2
  BY <1>1, <1>2, <1>3 DEF Last
<1>7. path' # <<>>
  BY <1>2, <1>3
<1> QED BY <1>3, <1>4, <1>5, <1>6, <1>7 DEF Chain

\* a step back to a predecessor,
LEMMA WalkBackStep ==
    ASSUME SearchInv, WalkBack
    PROVE  SearchInv'
<1>1. /\ UNCHANGED <<g, v1, v2, pc, distances, p_map, gray, black>> /\ V' = V
      /\ pc = "walk" /\ current # v1 /\ Searching /\ Searching'
      /\ path' = <<current>> \o path /\ current' = p_map[current]
  BY DEF WalkBack, SearchInv, Searching, V
<1>2. Chain' /\ path' # <<>> /\ path'[1] = current /\ Last(path') = v2
  BY <1>1, LongerPath
<1>3. /\ Walk /\ Distances /\ Predecessors /\ NoCycle /\ Settled /\ SourceFirst
  BY <1>1 DEF SearchInv
<1>4. p_map[current] \in black /\ p_map[current] \in V
  BY <1>1, <1>3 DEF Walk, Predecessors, SearchInv
<1>5. Walk'
  BY <1>1, <1>2, <1>3, <1>4 DEF Walk
<1>6. Distances' /\ Predecessors' /\ NoCycle' /\ Settled' /\ SourceFirst'
  BY <1>1, <1>3 DEF Distances, Predecessors, NoCycle, Settled, SourceFirst
<1> QED BY <1>1, <1>4, <1>5, <1>6 DEF SearchInv

\* and the arrival at the source.
LEMMA EndWalkStep ==
    ASSUME SearchInv, EndWalk
    PROVE  SearchInv'
<1>1. /\ UNCHANGED <<g, v1, v2, distances, p_map, gray, black, current>> /\ V' = V
      /\ pc = "walk" /\ pc' = "done" /\ current = v1 /\ Searching /\ Searching'
      /\ path' = <<current>> \o path
  BY DEF EndWalk, SearchInv, Searching, V
<1>2. Chain' /\ path' # <<>> /\ path'[1] = current /\ Last(path') = v2
  BY <1>1, LongerPath
<1>3. /\ Walk /\ Distances /\ Predecessors /\ NoCycle /\ Settled /\ SourceFirst
  BY <1>1 DEF SearchInv
<1>4. Walk'
  BY <1>1, <1>2, <1>3 DEF Walk
<1>5. Distances' /\ Predecessors' /\ NoCycle' /\ Settled' /\ SourceFirst'
  BY <1>1, <1>3 DEF Distances, Predecessors, NoCycle, Settled, SourceFirst
<1> QED BY <1>1, <1>4, <1>5 DEF SearchInv

\* The invariant holds before the search.
LEMMA SearchInit ==
    ASSUME Init
    PROVE  SearchInv
<1>1. distances \in [V -> 0 .. MaxInt]
  BY GraphsAssumption DEF Init
<1> QED BY <1>1 DEF Init, SearchInv, Searching

\* Every step keeps the invariant.
LEMMA SearchNext ==
    ASSUME SearchInv, [Next]_vars
    PROVE  SearchInv'
<1>1. CASE Unknown
  <2>1. /\ UNCHANGED <<g, v1, v2, distances, p_map, gray, black, current, path>>
        /\ V' = V /\ ~Searching' /\ pc = "start" /\ pc' = "done"
    BY <1>1 DEF Unknown, Searching, V
  <2> QED BY <2>1 DEF SearchInv
<1>2. CASE UNCHANGED vars
  <2>1. /\ UNCHANGED <<g, v1, v2, pc, distances, p_map, gray, black, current, path>>
        /\ V' = V /\ Searching' = Searching
    BY <1>2 DEF vars, Searching, V
  <2> QED BY <2>1 DEF SearchInv, Distances, Predecessors, NoCycle, Settled, SourceFirst,
                      Walk, Chain
<1> QED BY <1>1, <1>2, StartStep, ExpandStep, SearchedStep, WalkBackStep,
           EndWalkStep DEF Next, Done

\* What dijkstra's search keeps in the distances, the predecessors and the colors
\* (shortestPathBetween), for any graph and weights.
THEOREM SearchInvariant == Spec => []SearchInv
<1>1. Init => SearchInv
  BY SearchInit
<1>2. SearchInv /\ [Next]_vars => SearchInv'
  BY SearchNext
<1> QED BY <1>1, <1>2, PTL DEF Spec

\* While the search runs the predecessors form a tree rooted at the source, for
\* any graph, any weights and whatever vertex is expanded among the nearest:
\* the walk back of getPath cannot go round in a circle.
THEOREM PredecessorsFormTree == Spec => []TreeOfPredecessors
<1>1. SearchInv => TypeOK
  <2> SUFFICES ASSUME SearchInv
               PROVE  TypeOK
    OBVIOUS
  <2>1. g.edge \subseteq V \X V \X Nat
    BY GraphsAssumption DEF SearchInv, V
  <2>2. current \in V \cup {-1}
    BY DEF SearchInv
  <2>3. IsInjective(path)
    <3>1. IsInjective(<<>>)
      BY DEF IsInjective
    <3> QED BY <3>1 DEF SearchInv, Searching, Walk, Chain
  <2> QED BY <2>1, <2>2, <2>3 DEF SearchInv, TypeOK
<1>2. SearchInv => TreeOfPredecessors
  <2> SUFFICES ASSUME SearchInv, pc \in {"search", "walk"}
               PROVE  /\ \A v \in (gray \cup black) \ {v1} :
                            /\ p_map[v] \in black /\ Adjacent(g, p_map[v], v)
                            /\ distances[p_map[v]] <= distances[v]
                      /\ \A cycle \in (SUBSET ((gray \cup black) \ {v1})) \ {{}} :
                            \E v \in cycle : p_map[v] \notin cycle
    BY <1>1 DEF TreeOfPredecessors
  <2>1. /\ Searching /\ Predecessors /\ NoCycle /\ g \in Graphs
        /\ distances \in [V -> 0 .. MaxInt] /\ black \subseteq V /\ MaxInt \in Nat
    BY GraphsAssumption DEF SearchInv, Searching
  <2>2. ASSUME NEW v \in (gray \cup black) \ {v1}
        PROVE  /\ p_map[v] \in black /\ Adjacent(g, p_map[v], v)
               /\ distances[p_map[v]] <= distances[v]
    <3>1. /\ p_map[v] \in black /\ Adjacent(g, p_map[v], v)
          /\ distances[v] = distances[p_map[v]] + Hop(g, p_map[v], v)
      BY <2>1 DEF Predecessors
    <3>2. Hop(g, p_map[v], v) \in {0, 1}
      BY <2>1, <3>1, HopValue
    <3> QED BY <2>1, <3>1, <3>2
  <2>3. \A cycle \in (SUBSET ((gray \cup black) \ {v1})) \ {{}} :
           \E v \in cycle : p_map[v] \notin cycle
    BY <2>1 DEF NoCycle
  <2> QED BY <2>2, <2>3
<1> QED BY <1>2, SearchInvariant, PTL

-----------------------------------------------------------------------------
(* What the search finds is what Distance and Paths describe.              *)

\* A set that grows until it is all of a finite set is all of it after as many
\* steps as there are elements.
LEMMA GrowsToAll ==
    ASSUME NEW S, IsFiniteSet(S), NEW A \in [Nat -> SUBSET S],
           \A k \in Nat : A[k] \subseteq A[k + 1] /\ (A[k] # S => A[k + 1] # A[k])
    PROVE  \A k \in Nat : Cardinality(S) <= k => A[k] = S
<1> DEFINE bad == {k \in Nat : A[k] # S /\ Cardinality(A[k]) < k}
<1>1. \A k \in Nat : /\ A[k] \subseteq S /\ IsFiniteSet(A[k])
                     /\ Cardinality(A[k]) \in Nat
  BY FS_Subset, FS_CardinalityType
<1>2. Cardinality(S) \in Nat
  BY FS_CardinalityType
<1>3. bad = {}
  <2> SUFFICES ASSUME bad # {}
               PROVE  FALSE
    OBVIOUS
  <2>1. PICK m \in bad : \A l \in bad : m <= l
    BY LeastNumber
  <2>2. m # 0
    BY <1>1, <2>1
  <2>3. m - 1 \in Nat /\ m - 1 \notin bad /\ (m - 1) + 1 = m
    BY <2>1, <2>2
  <2>4. A[m - 1] \subseteq A[m] /\ (A[m - 1] # S => A[m] # A[m - 1])
    BY <2>3
  <2>5. A[m - 1] # S
    <3>1. A[m] # S /\ A[m] \subseteq S
      BY <1>1, <2>1
    <3> QED BY <2>4, <3>1
  <2>6. ~(Cardinality(A[m - 1]) < m - 1)
    BY <2>3, <2>5
  <2>7. /\ Cardinality(A[m - 1]) <= Cardinality(A[m])
        /\ Cardinality(A[m - 1]) # Cardinality(A[m])
    BY <1>1, <2>1, <2>4, <2>5, FS_Subset
  <2>8. Cardinality(A[m]) < m /\ Cardinality(A[m]) \in Nat /\ Cardinality(A[m - 1]) \in Nat
        /\ m \in Nat
    BY <1>1, <2>1, <2>3
  <2> HIDE DEF bad
  <2> QED BY <2>6, <2>7, <2>8
<1>4. ASSUME NEW k \in Nat, Cardinality(S) <= k, A[k] # S
      PROVE  FALSE
  <2>1. ~(Cardinality(A[k]) < k)
    BY <1>3, <1>4
  <2>2. Cardinality(A[k]) <= Cardinality(S) /\ Cardinality(A[k]) # Cardinality(S)
    BY <1>1, <1>4, FS_Subset
  <2> QED BY <1>1, <1>2, <1>4, <2>1, <2>2
<1> QED BY <1>4

\* What grows from the source along the predecessors holds all vertices after
\* as many steps as the graph has.
LEMMA GrowsAlongTree ==
    ASSUME SearchInv, Searching, NEW A \in [Nat -> SUBSET black],
           v1 \in A[0],
           \A k \in Nat : /\ A[k] \subseteq A[k + 1]
                          /\ \A v \in black \ {v1} : p_map[v] \in A[k] => v \in A[k + 1]
    PROVE  A[Len(g.vertex)] = black
<1>1. /\ NoCycle /\ Predecessors /\ black \subseteq V /\ g \in Graphs
  BY DEF SearchInv
<1>2. /\ IsFiniteSet(black) /\ Cardinality(black) <= Len(g.vertex)
      /\ Len(g.vertex) \in Nat
  <2>1. /\ IsFiniteSet(V) /\ Cardinality(V) <= Len(g.vertex) /\ Len(g.vertex) \in Nat
        /\ Cardinality(V) \in Nat
    BY <1>1, FewVertices DEF V
  <2>2. IsFiniteSet(black) /\ Cardinality(black) <= Cardinality(V)
    BY <1>1, <2>1, FS_Subset
  <2>3. Cardinality(black) \in Nat
    BY <2>2, FS_CardinalityType
  <2> QED BY <2>1, <2>2, <2>3
<1>3. \A k \in Nat : v1 \in A[k]
  <2> DEFINE bad == {k \in Nat : v1 \notin A[k]}
  <2> SUFFICES ASSUME bad # {}
               PROVE  FALSE
    OBVIOUS
  <2>1. PICK k \in bad : \A l \in bad : k <= l
    BY LeastNumber
  <2>2. k - 1 \in Nat /\ k - 1 \notin bad /\ k = (k - 1) + 1
    BY <2>1
  <2> QED BY <2>1, <2>2
<1>4. ASSUME NEW k \in Nat, A[k] # black
      PROVE  A[k + 1] # A[k]
  <2> DEFINE rest == black \ A[k]
  <2>1. A[k] \subseteq black /\ rest # {} /\ rest \subseteq (gray \cup black) \ {v1}
    BY <1>3, <1>4
  <2>2. PICK v \in rest : p_map[v] \notin rest
    BY <1>1, <2>1 DEF NoCycle
  <2>3. p_map[v] \in black
    BY <1>1, <2>1, <2>2 DEF Predecessors
  <2>4. v \in A[k + 1]
    BY <2>1, <2>2, <2>3
  <2> QED BY <2>2, <2>4
<1> QED BY <1>2, <1>4, GrowsToAll

\* The search comes to the whole component of the source and to nothing else.
LEMMA ComponentIsSearched ==
    ASSUME SearchInv, Searching, gray = {}
    PROVE  black = Component(g, v1)
<1>1. /\ Distances /\ Predecessors /\ Settled /\ g \in Graphs /\ black \subseteq V
      /\ v1 \in V
  BY DEF SearchInv, Searching
<1>2. v1 \in black
  BY <1>1 DEF Distances
<1>3. Component(g, v1) \subseteq black
  <2>1. \A u \in black : \A w \in V : Adjacent(g, u, w) => w \in black
    BY <1>1 DEF Settled
  <2> QED BY <1>1, <1>2, <2>1, ComponentInClosed DEF V
<1>4. ASSUME NEW S \in Closed(g, v1)
      PROVE  black \subseteq S
  <2> DEFINE A == [k \in Nat |-> S \cap black]
  <2>1. A \in [Nat -> SUBSET black] /\ v1 \in A[0]
    BY <1>2, <1>4 DEF Closed
  <2>2. ASSUME NEW v \in black \ {v1}, p_map[v] \in S
        PROVE  v \in S
    <3>1. Adjacent(g, p_map[v], v)
      BY <1>1 DEF Predecessors
    <3>2. PICK e \in g.edge : {e[1], e[2]} = {p_map[v], v}
      BY <3>1 DEF Adjacent
    <3> QED BY <1>4, <2>2, <3>2 DEF Closed
  <2>3. \A k \in Nat : A[k] = S \cap black /\ A[k + 1] = S \cap black
    OBVIOUS
  <2>4. \A k \in Nat : /\ A[k] \subseteq A[k + 1]
                       /\ \A v \in black \ {v1} : p_map[v] \in A[k] => v \in A[k + 1]
    BY <2>2, <2>3
  <2>5. Len(g.vertex) \in Nat
    BY <1>1, FewVertices
  <2> HIDE DEF A
  <2>6. A[Len(g.vertex)] = black
    BY <2>1, <2>4, GrowsAlongTree
  <2> QED BY <2>3, <2>5, <2>6
<1>5. black \subseteq Component(g, v1)
  BY <1>1, <1>4 DEF Component, V
<1> QED BY <1>3, <1>5

-----------------------------------------------------------------------------
(* The distances that CovisGraph describes.                                *)

\* The hops of CovisGraph!Walks are the edges, in both directions.
LEMMA HopsValue ==
    ASSUME NEW h \in Graphs
    PROVE  /\ \A t \in Hops(h) : /\ t[1] \in Vertices(h) /\ t[2] \in Vertices(h)
                                 /\ Adjacent(h, t[1], t[2]) /\ t[3] \in {0, 1}
                                 /\ Hop(h, t[1], t[2]) <= t[3]
           /\ \A u, w : Adjacent(h, u, w) => <<u, w, Hop(h, u, w)>> \in Hops(h)
<1>1. \A e \in h.edge : /\ e[1] \in Vertices(h) /\ e[2] \in Vertices(h)
                        /\ IntWeight(e[3]) \in {0, 1}
  BY GraphsAssumption, IntWeightValue
<1>2. ASSUME NEW t \in Hops(h)
      PROVE  /\ t[1] \in Vertices(h) /\ t[2] \in Vertices(h)
             /\ Adjacent(h, t[1], t[2]) /\ t[3] \in {0, 1}
             /\ Hop(h, t[1], t[2]) <= t[3]
  <2>1. PICK e \in h.edge : \/ t = <<e[1], e[2], IntWeight(e[3])>>
                            \/ t = <<e[2], e[1], IntWeight(e[3])>>
    BY DEF Hops
  <2>2. {e[1], e[2]} = {t[1], t[2]} /\ t[3] = IntWeight(e[3])
    BY <2>1
  <2>3. Adjacent(h, t[1], t[2])
    BY <2>2 DEF Adjacent
  <2>4. Hop(h, t[1], t[2]) <= t[3]
    BY <2>2, <2>3, HopValue
  <2> QED BY <1>1, <2>1, <2>3, <2>4
<1>3. ASSUME NEW u, NEW w, Adjacent(h, u, w)
      PROVE  <<u, w, Hop(h, u, w)>> \in Hops(h)
  <2>1. PICK e \in h.edge : {e[1], e[2]} = {u, w} /\ Hop(h, u, w) = IntWeight(e[3])
    BY <1>3, HopValue
  <2>2. (u = e[1] /\ w = e[2]) \/ (u = e[2] /\ w = e[1])
    BY <2>1
  <2> QED BY <2>1, <2>2 DEF Hops
<1> QED BY <1>2, <1>3

\* The walks one hop longer.
Longer(h, S) ==
    S \cup {<<p[2][2], p[1][2] + p[2][3]>> :
               p \in {q \in S \X Hops(h) : q[1][1] = q[2][1]}}

\* The recursive definition of Walks defines what it says.
LEMMA WalksUnfold ==
    ASSUME NEW h \in Graphs, NEW s
    PROVE  /\ Walks(h, s)[0] = {<<s, 0>>}
           /\ \A k \in Nat : Walks(h, s)[k + 1] = Longer(h, Walks(h, s)[k])
<1> DEFINE inner(w, k) == IF k = 0 THEN {<<s, 0>>} ELSE Longer(h, w[k - 1])
           W == SUBSET ((Vertices(h) \cup {s}) \X Nat)
           step == [S \in W |-> Longer(h, S)]
<1>1. {<<s, 0>>} \in W
  OBVIOUS
<1>2. step \in [W -> W]
  <2> SUFFICES ASSUME NEW S \in W
               PROVE  Longer(h, S) \in W
    OBVIOUS
  <2>1. ASSUME NEW p \in S \X Hops(h)
        PROVE  <<p[2][2], p[1][2] + p[2][3]>> \in (Vertices(h) \cup {s}) \X Nat
    <3>1. p[1] \in S /\ p[2] \in Hops(h)
      OBVIOUS
    <3>2. p[1][2] \in Nat /\ p[2][2] \in Vertices(h) /\ p[2][3] \in {0, 1}
      BY <3>1, HopsValue
    <3> QED BY <3>2
  <2> QED BY <2>1 DEF Longer
<1>3. PICK c \in [Nat -> W] : /\ c[0] = {<<s, 0>>}
                              /\ \A k \in Nat \ {0} : c[k] = step[c[k - 1]]
  <2> HIDE DEF W, step
  <2> QED BY <1>1, <1>2, RecursionExists
<1>4. c = [k \in Nat |-> inner(c, k)]
  <2>1. c = [k \in Nat |-> c[k]]
    OBVIOUS
  <2>2. ASSUME NEW k \in Nat
        PROVE  c[k] = inner(c, k)
    <3>1. CASE k = 0
      BY <1>3, <3>1
    <3>2. CASE k # 0
      <4>1. k - 1 \in Nat /\ c[k - 1] \in W
        BY <3>2
      <4> HIDE DEF W
      <4> QED BY <1>3, <3>2, <4>1
    <3> QED BY <3>1, <3>2
  <2> HIDE DEF inner
  <2>3. [k \in Nat |-> c[k]] = [k \in Nat |-> inner(c, k)]
    BY <2>2
  <2> QED BY <2>1, <2>3
<1>5. Walks(h, s) = CHOOSE w : w = [k \in Nat |-> inner(w, k)]
  BY DEF Walks, Longer
<1> HIDE DEF inner
<1>6. Walks(h, s) = [k \in Nat |-> inner(Walks(h, s), k)]
  BY <1>4, <1>5
<1>7. \A k \in Nat : Walks(h, s)[k] = inner(Walks(h, s), k)
  BY <1>6
<1>8. Walks(h, s)[0] = {<<s, 0>>}
  BY <1>7 DEF inner
<1>9. ASSUME NEW k \in Nat
      PROVE  Walks(h, s)[k + 1] = Longer(h, Walks(h, s)[k])
  <2>1. k + 1 \in Nat /\ k + 1 # 0 /\ (k + 1) - 1 = k
    OBVIOUS
  <2>2. Walks(h, s)[k + 1] = inner(Walks(h, s), k + 1)
    BY <1>7, <2>1
  <2> QED BY <2>1, <2>2 DEF inner
<1> QED BY <1>8, <1>9

\* At the end of the search every distance is the one Distance describes: no
\* walk adds up to less, and the walk down the tree adds up to it.
LEMMA DistancesAreLeast ==
    ASSUME SearchInv, Searching, gray = {}
    PROVE  /\ DOMAIN Distance(g, v1) = black
           /\ \A v \in black : Distance(g, v1)[v] = distances[v]
<1> DEFINE N == Len(g.vertex)
           w == Walks(g, v1)
<1>1. /\ Distances /\ Predecessors /\ Settled /\ g \in Graphs /\ black \subseteq V
      /\ v1 \in V /\ v1 \in black /\ distances[v1] = 0
      /\ distances \in [V -> 0 .. MaxInt] /\ MaxInt \in Nat
  BY GraphsAssumption DEF SearchInv, Searching, Distances
<1>2. \A v \in black : distances[v] \in Nat
  BY <1>1
<1>3. black = Component(g, v1) /\ N \in Nat
  BY <1>1, ComponentIsSearched, FewVertices
<1>4. w[0] = {<<v1, 0>>} /\ \A k \in Nat : w[k + 1] = Longer(g, w[k])
  BY <1>1, WalksUnfold
<1> HIDE DEF w
<1> DEFINE Dear(p) == p[1] \in black /\ p[2] \in Nat /\ distances[p[1]] <= p[2]
           bad == {k \in Nat : \E p \in w[k] : ~Dear(p)}
<1>5. bad = {}
  <2> SUFFICES ASSUME bad # {}
               PROVE  FALSE
    OBVIOUS
  <2>1. PICK k \in bad : \A l \in bad : k <= l
    BY LeastNumber
  <2>2. k # 0
    BY <1>1, <1>4, <2>1
  <2>3. k - 1 \in Nat /\ k - 1 \notin bad /\ (k - 1) + 1 = k
    BY <2>1, <2>2
  <2>4. w[k] = Longer(g, w[k - 1]) /\ \A p \in w[k - 1] : Dear(p)
    BY <1>4, <2>3
  <2>5. ASSUME NEW p \in w[k - 1], NEW t \in Hops(g), p[1] = t[1]
        PROVE  Dear(<<t[2], p[2] + t[3]>>)
    <3>1. p[1] \in black /\ p[2] \in Nat /\ distances[p[1]] <= p[2]
      BY <2>4
    <3>2. /\ t[2] \in V /\ Adjacent(g, p[1], t[2]) /\ t[3] \in {0, 1}
          /\ Hop(g, p[1], t[2]) <= t[3]
      BY <1>1, <2>5, HopsValue DEF V
    <3>3. t[2] \in black /\ distances[t[2]] <= distances[p[1]] + Hop(g, p[1], t[2])
      BY <1>1, <3>1, <3>2 DEF Settled
    <3>4. Hop(g, p[1], t[2]) \in {0, 1}
      BY <1>1, <3>2, HopValue
    <3> DEFINE x == distances[t[2]]
               y == distances[p[1]]
               z == Hop(g, p[1], t[2])
    <3>5. x \in Nat /\ y \in Nat
      BY <1>2, <3>1, <3>3
    <3>6. z \in {0, 1} /\ z <= t[3] /\ x <= y + z /\ y <= p[2]
      BY <3>1, <3>2, <3>3, <3>4
    <3> HIDE DEF x, y, z
    <3>7. x <= p[2] + t[3] /\ p[2] + t[3] \in Nat
      BY <3>1, <3>2, <3>5, <3>6
    <3> QED BY <3>3, <3>7 DEF x
  <2> HIDE DEF Dear
  <2>6. \A p \in w[k] : Dear(p)
    <3> TAKE p \in w[k]
    <3>1. \/ p \in w[k - 1]
          \/ \E q \in w[k - 1] \X Hops(g) :
                q[1][1] = q[2][1] /\ p = <<q[2][2], q[1][2] + q[2][3]>>
      BY <2>4 DEF Longer
    <3> QED BY <2>4, <2>5, <3>1
  <2> QED BY <2>1, <2>6
<1>6. \A p \in w[N] : Dear(p)
  BY <1>3, <1>5
<1> HIDE DEF bad
<1> DEFINE A == [k \in Nat |-> {v \in black : <<v, distances[v]>> \in w[k]}]
<1>7. A \in [Nat -> SUBSET black] /\ v1 \in A[0]
  BY <1>1, <1>4
<1>8. ASSUME NEW k \in Nat
      PROVE  /\ A[k] \subseteq A[k + 1]
             /\ \A v \in black \ {v1} : p_map[v] \in A[k] => v \in A[k + 1]
  <2>1. w[k] \subseteq w[k + 1]
    BY <1>4 DEF Longer
  <2>2. ASSUME NEW v \in black \ {v1}, p_map[v] \in A[k]
        PROVE  v \in A[k + 1]
    <3> DEFINE u == p_map[v]
               t == <<u, v, Hop(g, u, v)>>
    <3>1. /\ Adjacent(g, u, v) /\ distances[v] = distances[u] + Hop(g, u, v)
          /\ <<u, distances[u]>> \in w[k]
      BY <1>1, <2>2 DEF Predecessors
    <3>2. t \in Hops(g)
      BY <1>1, <3>1, HopsValue
    <3>3. <<<<u, distances[u]>>, t>> \in w[k] \X Hops(g)
      BY <3>1, <3>2
    <3>4. <<t[2], distances[u] + t[3]>> \in Longer(g, w[k])
      <4> DEFINE q == <<<<u, distances[u]>>, t>>
      <4>1. /\ q[1][1] = q[2][1]
            /\ <<t[2], distances[u] + t[3]>> = <<q[2][2], q[1][2] + q[2][3]>>
        OBVIOUS
      <4>2. q \in {r \in w[k] \X Hops(g) : r[1][1] = r[2][1]}
        BY <3>3, <4>1
      <4> HIDE DEF q, t
      <4> QED BY <4>1, <4>2 DEF Longer
    <3> HIDE DEF u
    <3>5. <<v, distances[v]>> \in w[k + 1]
      BY <1>4, <3>1, <3>4
    <3> QED BY <3>5
  <2> QED BY <2>1, <2>2
<1> HIDE DEF A
<1>9. A[N] = black
  BY <1>7, <1>8, GrowsAlongTree DEF N
<1>10. \A v \in black : <<v, distances[v]>> \in w[N]
  BY <1>3, <1>9 DEF A
<1> DEFINE sums(v) == {p[2] : p \in {x \in w[N] : x[1] = v}}
<1>11. Distance(g, v1) = [v \in black |-> Min(sums(v))]
  BY <1>3 DEF Distance, w
<1> HIDE DEF N
<1>12. ASSUME NEW v \in black
       PROVE  Min(sums(v)) = distances[v]
  <2>1. \A m \in sums(v) : m \in Nat /\ distances[v] <= m
    BY <1>6
  <2>2. distances[v] \in sums(v) /\ distances[v] \in Nat
    <3> DEFINE p == <<v, distances[v]>>
    <3>1. p \in w[N] /\ p[1] = v /\ p[2] = distances[v]
      BY <1>10
    <3> HIDE DEF p
    <3>2. distances[v] \in sums(v)
      BY <3>1
    <3> QED BY <1>2, <3>2
  <2> HIDE DEF sums
  <2>3. Min(sums(v)) \in sums(v) /\ Min(sums(v)) <= distances[v]
    BY <2>1, <2>2, MinOfNumbers
  <2> DEFINE x == Min(sums(v))
             y == distances[v]
  <2>4. x \in Nat /\ y \in Nat /\ x <= y /\ y <= x
    BY <2>1, <2>2, <2>3
  <2> HIDE DEF x, y
  <2>5. x = y
    BY <2>4
  <2> QED BY <2>5 DEF x, y
<1> HIDE DEF sums
<1> QED BY <1>11, <1>12

-----------------------------------------------------------------------------
\* What Paths asks of consecutive vertices.
Under(h, s, u, v) ==
    /\ Adjacent(h, u, v) /\ Distance(h, s)[u] + Hop(h, u, v) = Distance(h, s)[v]
    /\ u = s \/ ~Adjacent(h, s, v) \/ Hop(h, s, v) # Distance(h, s)[v]

\* The path that getPath returns is one of Paths.
LEMMA PathIsOneOfPaths ==
    ASSUME SearchInv, pc = "done", v1 \in V, v2 \in V
    PROVE  path \in Paths(g, v1, v2)
<1> DEFINE n == Len(path)
           D == DOMAIN Distance(g, v1)
<1>1. /\ Searching /\ gray = {} /\ Chain /\ path # <<>> /\ path[1] = v1 /\ Last(path) = v2
      /\ g \in Graphs /\ black \subseteq V
      /\ Distances /\ Predecessors /\ SourceFirst
  BY DEF SearchInv, Searching, Walk
<1>2. D = black /\ \A v \in black : Distance(g, v1)[v] = distances[v]
  BY <1>1, DistancesAreLeast
<1>3. /\ path \in Seq(black) /\ n \in Nat \ {0} /\ IsInjective(path)
      /\ path \in [1 .. n -> black]
      /\ \A i \in 1 .. n : path[i] \in black
  BY <1>1, LenProperties, EmptySeq DEF Chain
<1>4. n <= Cardinality(black) /\ Cardinality(black) \in Nat
  <2>1. IsFiniteSet(V)
    BY <1>1, FewVertices DEF V
  <2>2. IsFiniteSet(black)
    BY <1>1, <2>1, FS_Subset
  <2>3. Cardinality(black) \in Nat
    BY <2>2, FS_CardinalityType
  <2>4. path \in Injection(1 .. n, black)
    BY <1>3 DEF Injection
  <2>5. Cardinality(1 .. n) <= Cardinality(black)
    BY <2>2, <2>4, FS_Injection
  <2> HIDE DEF n
  <2>6. Cardinality(1 .. n) = n
    BY <1>3, FS_Interval
  <2> QED BY <2>3, <2>5, <2>6
<1>5. ASSUME NEW i \in 1 .. n - 1
      PROVE  Under(g, v1, path[i], path[i + 1])
  <2> DEFINE u == path[i]
             v == path[i + 1]
  <2>1. u = p_map[v] /\ v # v1 /\ v \in black /\ u \in black
    BY <1>1, <1>3 DEF Chain
  <2>2. /\ Adjacent(g, u, v) /\ distances[v] = distances[u] + Hop(g, u, v)
        /\ Adjacent(g, v1, v) => u = v1 \/ distances[v] < Hop(g, v1, v)
    BY <1>1, <2>1 DEF Predecessors, SourceFirst
  <2>3. distances[v] < Hop(g, v1, v) => distances[v] # Hop(g, v1, v)
    <3>1. Adjacent(g, v1, v) => Hop(g, v1, v) \in {0, 1}
      BY <1>1, HopValue
    <3>2. distances[v] \in 0 .. MaxInt /\ MaxInt \in Nat
      BY <1>1, <2>1, GraphsAssumption DEF SearchInv
    <3> QED BY <3>1, <3>2
  <2> HIDE DEF u, v
  <2>4. Under(g, v1, u, v)
    BY <1>2, <2>1, <2>2, <2>3 DEF Under
  <2> QED BY <2>4 DEF u, v
<1> DEFINE C == Component(g, v1)
           q == [i \in 1 .. n - 1 |-> path[i + 1]]
<1>6. C = black /\ v1 \in black
  BY <1>1, ComponentIsSearched DEF Distances
<1>7. \A i \in 1 .. n - 1 : path[i + 1] \in C \ {v1}
  <2>1. \A i \in 1 .. n - 1 : 1 \in 1 .. n /\ i + 1 \in 1 .. n /\ i + 1 # 1
    BY <1>3
  <2>2. \A i, j \in 1 .. n : path[i] = path[j] => i = j
    BY <1>3 DEF IsInjective
  <2> QED BY <1>1, <1>3, <1>6, <2>1, <2>2
<1>8. q \in [1 .. n - 1 -> C \ {v1}] /\ n - 1 \in 0 .. Cardinality(C) - 1
  <2>1. n - 1 \in 0 .. Cardinality(C) - 1
    BY <1>3, <1>4, <1>6
  <2> HIDE DEF n, C
  <2> QED BY <1>7, <2>1
<1>9. path = <<v1>> \o q
  <2>1. q \in Seq(black) /\ Len(q) = n - 1
    <3>1. q \in [1 .. n - 1 -> black] /\ n - 1 \in Nat
      BY <1>3, <1>6, <1>8
    <3> HIDE DEF q, n
    <3> QED BY <3>1, SeqDef, LenProperties
  <2>2. <<v1>> \in Seq(black) /\ Len(<<v1>>) = 1
    BY <1>6
  <2> DEFINE r == <<v1>> \o q
  <2> HIDE DEF q, n
  <2>3. /\ r \in Seq(black) /\ Len(r) = 1 + (n - 1)
        /\ \A i \in 1 .. 1 + (n - 1) : r[i] = IF i <= 1 THEN <<v1>>[i] ELSE q[i - 1]
    BY <2>1, <2>2, ConcatProperties
  <2>4. 1 + (n - 1) = n
    BY <1>3
  <2>5. ASSUME NEW i \in 1 .. n
        PROVE  r[i] = path[i]
    <3>1. CASE i = 1
      BY <1>1, <2>3, <2>4, <3>1
    <3>2. CASE i # 1
      <4>1. i - 1 \in 1 .. n - 1 /\ ~(i <= 1) /\ (i - 1) + 1 = i
        BY <1>3, <3>2
      <4>2. q[i - 1] = path[i]
        BY <4>1 DEF q
      <4> QED BY <2>3, <2>4, <4>1, <4>2
    <3> QED BY <3>1, <3>2
  <2> HIDE DEF r
  <2>6. Len(path) = n
    BY DEF n
  <2>7. path = r
    BY <1>3, <2>3, <2>4, <2>5, <2>6, SeqEqual
  <2> QED BY <2>7 DEF r
<1>10. path \in {<<v1>> \o p : p \in UNION {[1 .. k -> C \ {v1}] : k \in 0 .. Cardinality(C) - 1}}
  <2> HIDE DEF q, n, C
  <2> QED BY <1>8, <1>9
<1> HIDE DEF q
<1> QED BY <1>1, <1>3, <1>5, <1>10 DEF Paths, Under

\* Whatever the weights, and whichever of the nearest vertices is expanded, the
\* path returned by shortestPathBetween is one of those Paths describes: simple,
\* along edges, of least truncated length.  The model of the calibration stands
\* on this when it takes any of Paths for the path.
THEOREM SearchFindsExpectedPath == Spec => []PathIsExpected
<1>1. SearchInv => PathIsExpected
  BY PathIsOneOfPaths DEF PathIsExpected
<1> QED BY <1>1, SearchInvariant, PTL
=============================================================================
