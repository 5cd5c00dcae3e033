------------------------- MODULE CalibrationProofs --------------------------
(***************************************************************************)
(* Proofs about the calibration workflow, for any number of cameras,       *)
(* frames and boards, any detections and any of the shortest paths: the    *)
(* observations that each stage reads are those of the present objects and *)
(* groups, and objects and groups are exactly what the images justify.     *)
(***************************************************************************)
EXTENDS Calibration, FiniteSetTheorems, SequenceTheorems, WellFoundedInduction,
        TLAPS

-----------------------------------------------------------------------------
(* The least and the greatest of a set of numbers.                         *)

\* A set of numbers has a least one; this stands in for induction.
LEMMA LeastNumber ==
    ASSUME NEW S \in SUBSET Nat, S # {}
    PROVE  \E n \in S : \A m \in S : n <= m
<1>1. PICK n \in S : \A m \in S : ~ (<<m, n>> \in OpToRel(<, Nat))
  BY NatLessThanWellFounded, WFMin
<1>2. \A m \in S : ~(m < n)
  BY <1>1 DEF OpToRel
<1> QED BY <1>2

\* Min of the community modules finds it.
LEMMA MinOfNumbers ==
    ASSUME NEW S \in SUBSET Nat, S # {}
    PROVE  Min(S) \in S /\ \A m \in S : Min(S) <= m
BY LeastNumber DEF Min

\* W is closed under steps, so that n of them can be taken from x.
Steps(n, W) == [1 .. n -> [W -> W]]

TakesSteps(f, n, x, next) ==
    f[0] = x /\ \A k \in 1 .. n : f[k] = next[k][f[k - 1]]

\* n steps can be taken, so a recursive function of n is its own unfolding.
LEMMA StepsExist ==
    ASSUME NEW n \in Nat, NEW W, NEW x \in W, NEW next \in Steps(n, W)
    PROVE  \E f \in [0 .. n -> W] : TakesSteps(f, n, x, next)
<1> DEFINE Taken(f, m) == f[0] = x /\ \A k \in 1 .. m : f[k] = next[k][f[k - 1]]
           bad == {m \in 0 .. n : ~ \E f \in [0 .. n -> W] : Taken(f, m)}
<1>1. bad = {}
  <2> SUFFICES ASSUME bad # {}
               PROVE  FALSE
    OBVIOUS
  <2>0. bad \in SUBSET Nat
    OBVIOUS
  <2>1. PICK m \in bad : \A l \in bad : m <= l
    <3> HIDE DEF bad
    <3> QED BY <2>0, LeastNumber
  <2>2. m # 0
    <3>1. [k \in 0 .. n |-> x] \in [0 .. n -> W] /\ Taken([k \in 0 .. n |-> x], 0)
      OBVIOUS
    <3> QED BY <2>1, <3>1
  <2>3. m \in 0 .. n /\ m - 1 \in 0 .. n /\ m - 1 \notin bad
    <3>1. m \in 0 .. n
      BY <2>1
    <3> HIDE DEF bad
    <3> QED BY <2>1, <2>2, <3>1
  <2>4. PICK f \in [0 .. n -> W] : Taken(f, m - 1)
    BY <2>3
  <2> DEFINE y == next[m][f[m - 1]]
             h == [f EXCEPT ![m] = y]
  <2>5. y \in W
    BY <2>2, <2>3 DEF Steps
  <2>6. h \in [0 .. n -> W] /\ h[m] = y /\ \A k \in 0 .. n : k # m => h[k] = f[k]
    BY <2>3, <2>5
  <2> HIDE DEF h
  <2>7. \A k \in 1 .. m : h[k] = next[k][h[k - 1]]
    <3> TAKE k \in 1 .. m
    <3>1. k \in 0 .. n /\ k - 1 \in 0 .. n /\ k - 1 # m
      BY <2>3
    <3>2. h[k - 1] = f[k - 1]
      BY <2>6, <3>1
    <3>3. CASE k = m
      BY <2>6, <3>2, <3>3
    <3>4. CASE k # m
      <4>1. k \in 1 .. m - 1 /\ h[k] = f[k]
        BY <2>3, <2>6, <3>1, <3>4
      <4> QED BY <2>4, <3>2, <4>1
    <3> QED BY <3>3, <3>4
  <2>8. Taken(h, m)
    BY <2>2, <2>3, <2>4, <2>6, <2>7
  <2> QED BY <2>1, <2>6, <2>8
<1>2. n \in 0 .. n
  OBVIOUS
<1>3. \E f \in [0 .. n -> W] : Taken(f, n)
  BY <1>1, <1>2
<1> QED BY <1>3 DEF TakesSteps

-----------------------------------------------------------------------------
(* Elements in ascending order.                                            *)

\* less is a strict total order of S.
Orders(less, S) ==
    /\ \A x \in S : <<x, x>> \notin less
    /\ \A x, y, z \in S : <<x, y>> \in less /\ <<y, z>> \in less => <<x, z>> \in less
    /\ \A x, y \in S : x # y => <<x, y>> \in less \/ <<y, x>> \in less

\* Every element of a finite set has one place in the order.
LEMMA AscendingBijection ==
    ASSUME NEW S, IsFiniteSet(S), NEW less, Orders(less, S)
    PROVE  Ascending(S, less) \in Bijection(1 .. Cardinality(S), S)
<1> DEFINE n == Cardinality(S)
           below(x) == {y \in S : <<y, x>> \in less}
           rank == [x \in S |-> Cardinality(below(x)) + 1]
<1>1. n \in Nat
  BY FS_CardinalityType
<1>2. ASSUME NEW x \in S
      PROVE  /\ IsFiniteSet(below(x)) /\ Cardinality(below(x)) \in Nat
             /\ Cardinality(below(x)) < n
  <2>1. below(x) \in SUBSET S /\ x \notin below(x)
    BY DEF Orders
  <2> HIDE DEF below
  <2>2. IsFiniteSet(below(x)) /\ Cardinality(below(x)) <= n /\ Cardinality(below(x)) # n
    BY <2>1, FS_Subset
  <2> QED BY <1>1, <2>2, FS_CardinalityType
<1>3. ASSUME NEW x \in S, NEW y \in S, <<x, y>> \in less
      PROVE  Cardinality(below(x)) < Cardinality(below(y))
  <2>1. below(x) \subseteq below(y) /\ x \in below(y) /\ x \notin below(x)
    BY <1>3 DEF Orders
  <2>2. IsFiniteSet(below(y)) /\ Cardinality(below(y)) \in Nat /\ Cardinality(below(x)) \in Nat
    BY <1>2
  <2> HIDE DEF below
  <2>3. Cardinality(below(x)) <= Cardinality(below(y)) /\ Cardinality(below(x)) # Cardinality(below(y))
    BY <2>1, <2>2, FS_Subset
  <2> QED BY <2>2, <2>3
<1> HIDE DEF below
<1>4. rank \in Injection(S, 1 .. n)
  <2>1. rank \in [S -> 1 .. n]
    BY <1>1, <1>2
  <2>2. ASSUME NEW x \in S, NEW y \in S, x # y
        PROVE  rank[x] # rank[y]
    <3>1. <<x, y>> \in less \/ <<y, x>> \in less
      BY <2>2 DEF Orders
    <3>2. Cardinality(below(x)) \in Nat /\ Cardinality(below(y)) \in Nat
      BY <1>2
    <3> QED BY <1>3, <3>1, <3>2
  <2> QED BY <2>1, <2>2 DEF Injection, IsInjective
<1>5. rank \in Surjection(S, 1 .. n)
  <2>1. IsFiniteSet(1 .. n) /\ Cardinality(1 .. n) = n
    BY <1>1, FS_Interval
  <2> HIDE DEF rank
  <2> QED BY <1>4, <2>1, FS_Injection
<1> DEFINE place == Ascending(S, less)
<1>6. ASSUME NEW i \in 1 .. n
      PROVE  place[i] \in S /\ rank[place[i]] = i
  <2>1. PICK x \in S : rank[x] = i
    BY <1>5 DEF Surjection
  <2>2. Cardinality(below(x)) = i - 1
    BY <1>1, <1>2, <2>1
  <2>3. place[i] = CHOOSE z \in S : Cardinality(below(z)) = i - 1
    BY DEF Ascending, below
  <2>4. place[i] \in S /\ Cardinality(below(place[i])) = i - 1
    BY <2>2, <2>3
  <2>5. rank[place[i]] = Cardinality(below(place[i])) + 1
    BY <2>4
  <2> QED BY <1>1, <2>4, <2>5
<1>7. place \in [1 .. n -> S]
  <2> DEFINE at(i) == CHOOSE z \in S : Cardinality({y \in S : <<y, z>> \in less}) = i - 1
  <2>1. place = [i \in 1 .. n |-> at(i)]
    BY DEF Ascending
  <2> HIDE DEF place, n, at
  <2>2. \A i \in 1 .. n : at(i) \in S
    BY <1>6, <2>1
  <2> QED BY <2>1, <2>2
<1> HIDE DEF rank, place
<1>8. \A i, j \in 1 .. n : place[i] = place[j] => i = j
  BY <1>6
<1>9. ASSUME NEW x \in S
      PROVE  \E i \in 1 .. n : place[i] = x
  <2>1. rank[x] \in 1 .. n
    BY <1>4 DEF Injection
  <2>2. place[rank[x]] \in S /\ rank[place[rank[x]]] = rank[x]
    BY <1>6, <2>1
  <2>3. place[rank[x]] = x
    BY <1>4, <2>2 DEF Injection, IsInjective
  <2> QED BY <2>1, <2>3
<1>10. place \in Injection(1 .. n, S) /\ place \in Surjection(1 .. n, S)
  BY <1>7, <1>8, <1>9 DEF Injection, IsInjective, Surjection
<1> QED BY <1>10 DEF Bijection, place

\* std::map reads numbers in ascending order.
LEMMA IncreasingOrders ==
    ASSUME NEW S \in SUBSET Int
    PROVE  Orders(Increasing(S), S)
BY DEF Orders, Increasing

\* std::map reads pairs of numbers in lexicographic order.
LEMMA LexicographicOrders ==
    ASSUME NEW S \in SUBSET (Int \X Int)
    PROVE  Orders(Lexicographic(S), S)
BY DEF Orders, Lexicographic, Before
-----------------------------------------------------------------------------
(* Components.                                                             *)

\* Edges are between vertices, and vertices are numbers.
IsGraph(h) ==
    /\ h.vertex \in Seq(Nat)
    /\ \A e \in h.edge : e[1] \in Vertices(h) /\ e[2] \in Vertices(h)

\* No edge leaves a component.
LEMMA ComponentClosed ==
    ASSUME NEW h, IsGraph(h), NEW v \in Vertices(h)
    PROVE  Component(h, v) \in Closed(h, v)
<1>1. v \in Component(h, v)
  BY DEF Component, Closed
<1>2. Component(h, v) \subseteq Vertices(h)
  BY DEF Component
<1>3. \A e \in h.edge : e[1] \in Component(h, v) <=> e[2] \in Component(h, v)
  BY DEF Component, Closed, IsGraph
<1> QED BY <1>1, <1>2, <1>3 DEF Closed

\* A component lies in every set that no edge leaves.
LEMMA ComponentLeast ==
    ASSUME NEW h, NEW v, NEW S \in Closed(h, v)
    PROVE  Component(h, v) \subseteq S
BY DEF Component

\* A vertex of a component has that component itself.
LEMMA SameComponent ==
    ASSUME NEW h, IsGraph(h), NEW v \in Vertices(h), NEW w \in Component(h, v)
    PROVE  Component(h, w) = Component(h, v)
<1>1. w \in Vertices(h)
  BY DEF Component
<1> DEFINE C == Component(h, v)
           D == Component(h, w)
<1>2. C \in Closed(h, v) /\ D \in Closed(h, w)
  BY <1>1, ComponentClosed
<1>3. D \subseteq C
  <2>1. C \in Closed(h, w)
    BY <1>2 DEF Closed
  <2> HIDE DEF C
  <2> QED BY <2>1, ComponentLeast
<1>4. v \in D
  <2> SUFFICES ASSUME v \notin D
               PROVE  FALSE
    OBVIOUS
  <2> DEFINE S == Vertices(h) \ D
  <2>1. S \in Closed(h, v)
    <3> HIDE DEF D
    <3> QED BY <1>2 DEF Closed, IsGraph
  <2>2. w \in S
    <3> HIDE DEF S
    <3> QED BY <2>1, ComponentLeast
  <2>3. w \in D
    <3> HIDE DEF D
    <3> QED BY <1>2 DEF Closed
  <2> QED BY <2>2, <2>3
<1>5. C \subseteq D
  <2>1. D \in Closed(h, v)
    <3> HIDE DEF D
    <3> QED BY <1>2, <1>4 DEF Closed
  <2> HIDE DEF D
  <2> QED BY <2>1, ComponentLeast
<1> QED BY <1>3, <1>5

\* Between two parts of a component there is an edge.
LEMMA ComponentWhole ==
    ASSUME NEW h, IsGraph(h), NEW v \in Vertices(h),
           NEW Q \in SUBSET Component(h, v), Q # {}, Q # Component(h, v)
    PROVE  \E e \in h.edge : \/ e[1] \in Q /\ e[2] \in Component(h, v) \ Q
                             \/ e[2] \in Q /\ e[1] \in Component(h, v) \ Q
<1> SUFFICES ASSUME \A e \in h.edge : /\ ~(e[1] \in Q /\ e[2] \in Component(h, v) \ Q)
                                      /\ ~(e[2] \in Q /\ e[1] \in Component(h, v) \ Q)
             PROVE  FALSE
  OBVIOUS
<1>1. PICK x : x \in Q
  OBVIOUS
<1>2. Component(h, v) \in Closed(h, v)
  BY ComponentClosed
<1>3. Q \in Closed(h, x)
  BY <1>1, <1>2 DEF Closed
<1>4. Component(h, x) \subseteq Q /\ Component(h, x) = Component(h, v)
  BY <1>1, <1>3, ComponentLeast, SameComponent
<1> QED BY <1>4

\* A component has one number, and a number one component.
LEMMA ComponentsNumbered ==
    ASSUME NEW h, IsGraph(h)
    PROVE  LET comp == ConnectedComponents(h)
           IN  /\ Len(comp) \in Nat /\ DOMAIN comp = 1 .. Len(comp)
               /\ \A k \in 1 .. Len(comp) : \E v \in Vertices(h) : comp[k] = Component(h, v)
               /\ \A v \in Vertices(h) : \E k \in 1 .. Len(comp) : comp[k] = Component(h, v)
               /\ \A j, k \in 1 .. Len(comp) : comp[j] = comp[k] => j = k
<1> DEFINE D == DOMAIN h.vertex
           firsts == {i \in D : \A j \in 1 .. i - 1 :
                                   h.vertex[j] \notin Component(h, h.vertex[i])}
           order == Ascending(firsts, Increasing(firsts))
           n == Cardinality(firsts)
           comp == ConnectedComponents(h)
<1>1. D = 1 .. Len(h.vertex) /\ Len(h.vertex) \in Nat
  BY LenProperties DEF IsGraph
<1>2. IsFiniteSet(firsts) /\ n \in Nat /\ firsts \subseteq D /\ firsts \in SUBSET Int
  <2>1. IsFiniteSet(D) /\ firsts \subseteq D
    BY <1>1, FS_Interval
  <2>2. firsts \in SUBSET Int
    BY <1>1
  <2> HIDE DEF firsts, D
  <2> QED BY <2>1, <2>2, FS_Subset, FS_CardinalityType
<1>3. order \in Bijection(1 .. n, firsts)
  <2> HIDE DEF firsts
  <2> QED BY <1>2, IncreasingOrders, AscendingBijection
<1>4. \A i \in D : h.vertex[i] \in Vertices(h)
  BY DEF Vertices
<1>5. comp = [k \in DOMAIN order |-> Component(h, h.vertex[order[k]])]
  BY DEF ConnectedComponents
<1> HIDE DEF order, n, comp
<1>6. /\ order \in [1 .. n -> firsts] /\ DOMAIN order = 1 .. n
      /\ \A j, k \in 1 .. n : order[j] = order[k] => j = k
      /\ \A i \in firsts : \E k \in 1 .. n : order[k] = i
  BY <1>3 DEF Bijection, Injection, Surjection, IsInjective
<1>7. /\ DOMAIN comp = 1 .. n
      /\ \A k \in 1 .. n : comp[k] = Component(h, h.vertex[order[k]])
  BY <1>5, <1>6
<1>8. Len(comp) = n
  <2>1. comp \in [1 .. n -> SUBSET Vertices(h)]
    <3>1. \A k \in 1 .. n : Component(h, h.vertex[order[k]]) \in SUBSET Vertices(h)
      BY DEF Component
    <3> QED BY <1>5, <1>6, <3>1
  <2>2. comp \in Seq(SUBSET Vertices(h))
    BY <1>2, <2>1, SeqDef
  <2> QED BY <1>2, <1>7, <2>2, LenProperties
<1>9. \A k \in 1 .. n : \E v \in Vertices(h) : comp[k] = Component(h, v)
  BY <1>2, <1>4, <1>6, <1>7
<1>10. ASSUME NEW v \in Vertices(h)
       PROVE  \E k \in 1 .. n : comp[k] = Component(h, v)
  <2> DEFINE I == {i \in D : h.vertex[i] \in Component(h, v)}
  <2>1. v \in Component(h, v)
    BY ComponentClosed DEF Closed
  <2>2. I # {} /\ I \in SUBSET Nat
    BY <1>1, <2>1 DEF Vertices
  <2>3. PICK i \in I : \A j \in I : i <= j
    <3> HIDE DEF I
    <3> QED BY <2>2, LeastNumber
  <2>4. Component(h, h.vertex[i]) = Component(h, v)
    BY <2>3, SameComponent
  <2>5. \A j \in 1 .. i - 1 : j \in D /\ j \notin I
    BY <1>1, <2>3
  <2>6. i \in firsts
    BY <2>3, <2>4, <2>5
  <2>7. PICK k \in 1 .. n : order[k] = i
    BY <1>6, <2>6
  <2> QED BY <1>7, <2>4, <2>7
<1>11. ASSUME NEW j \in 1 .. n, NEW k \in 1 .. n, comp[j] = comp[k]
       PROVE  j = k
  <2> DEFINE a == order[j]
             b == order[k]
  <2>1. a \in firsts /\ b \in firsts
    BY <1>6
  <2>2. Component(h, h.vertex[a]) = Component(h, h.vertex[b])
    BY <1>7, <1>11
  <2>3. h.vertex[a] \in Component(h, h.vertex[a]) /\ h.vertex[b] \in Component(h, h.vertex[b])
    BY <1>2, <1>4, <2>1, ComponentClosed DEF Closed
  <2>4. a \notin 1 .. b - 1 /\ b \notin 1 .. a - 1 /\ a \in 1 .. Len(h.vertex) /\ b \in 1 .. Len(h.vertex)
    BY <1>1, <2>1, <2>2, <2>3
  <2>5. a = b
    <3> HIDE DEF a, b
    <3> QED BY <1>1, <2>4
  <2> QED BY <1>6, <2>5
<1> HIDE DEF firsts, D
<1> QED BY <1>2, <1>7, <1>8, <1>9, <1>10, <1>11 DEF comp
-----------------------------------------------------------------------------
(* Building a graph.                                                       *)

\* What a graph is while it is built, with weights from R.
GraphsOver(R) == [vertex : Seq(Nat), edge : SUBSET (Nat \X Nat \X R)]

\* What Graph::addVertex adds.
LEMMA AddVertexAdds ==
    ASSUME NEW R, NEW h \in GraphsOver(R), NEW v \in Nat
    PROVE  /\ AddVertex(h, v) \in GraphsOver(R)
           /\ Vertices(AddVertex(h, v)) = Vertices(h) \cup {v}
           /\ AddVertex(h, v).edge = h.edge
<1>1. CASE v \in Vertices(h)
  BY <1>1 DEF AddVertex
<1>2. CASE v \notin Vertices(h)
  <2> DEFINE s == Append(h.vertex, v)
             n == Len(h.vertex)
  <2>1. AddVertex(h, v) = [vertex |-> s, edge |-> h.edge]
    BY <1>2 DEF AddVertex
  <2>2. h.vertex \in Seq(Nat) /\ n \in Nat /\ DOMAIN h.vertex = 1 .. n
    BY LenProperties DEF GraphsOver
  <2>3. /\ s \in Seq(Nat) /\ Len(s) = n + 1
        /\ \A i \in 1 .. n : s[i] = h.vertex[i]
        /\ s[n + 1] = v
    BY <2>2, AppendProperties
  <2>4. DOMAIN s = 1 .. n + 1
    BY <2>3, LenProperties
  <2> HIDE DEF s, n
  <2>5. {s[i] : i \in DOMAIN s} = {h.vertex[i] : i \in DOMAIN h.vertex} \cup {v}
    <3>1. \A i \in 1 .. n + 1 : i \in 1 .. n \/ i = n + 1
      BY <2>2
    <3>2. \A i \in 1 .. n : i \in 1 .. n + 1
      BY <2>2
    <3>3. n + 1 \in 1 .. n + 1
      BY <2>2
    <3> QED BY <2>2, <2>3, <2>4, <3>1, <3>2, <3>3
  <2>6. /\ AddVertex(h, v).vertex = s /\ AddVertex(h, v).edge = h.edge
        /\ AddVertex(h, v) \in GraphsOver(R)
    BY <2>1, <2>3 DEF GraphsOver
  <2> QED BY <2>5, <2>6 DEF Vertices
<1> QED BY <1>1, <1>2

\* Graph::addEdge adds one edge, whatever vertices it has to create.
LEMMA AddEdgeEdges ==
    ASSUME NEW h, NEW u, NEW v, NEW m
    PROVE  AddEdge(h, u, v, m).edge = h.edge \cup {<<u, v, m>>}
<1>1. \A g, w : AddVertex(g, w).edge = g.edge
  BY DEF AddVertex
<1>2. AddEdge(h, u, v, m).edge = AddVertex(AddVertex(h, u), v).edge \cup {<<u, v, m>>}
  BY DEF AddEdge
<1> QED BY <1>1, <1>2

\* What Graph::addEdge adds: the edge and its missing end points.
LEMMA AddEdgeAdds ==
    ASSUME NEW R, NEW h \in GraphsOver(R), NEW u \in Nat, NEW v \in Nat, NEW m \in R
    PROVE  /\ AddEdge(h, u, v, m) \in GraphsOver(R)
           /\ Vertices(AddEdge(h, u, v, m)) = Vertices(h) \cup {u, v}
           /\ AddEdge(h, u, v, m).edge = h.edge \cup {<<u, v, m>>}
<1> DEFINE f == AddVertex(AddVertex(h, u), v)
<1>1. f \in GraphsOver(R) /\ Vertices(f) = Vertices(h) \cup {u, v} /\ f.edge = h.edge
  <2>1. /\ AddVertex(h, u) \in GraphsOver(R) /\ AddVertex(h, u).edge = h.edge
        /\ Vertices(AddVertex(h, u)) = Vertices(h) \cup {u}
    BY AddVertexAdds
  <2> DEFINE e == AddVertex(h, u)
  <2> HIDE DEF e
  <2>2. e \in GraphsOver(R)
    BY <2>1 DEF e
  <2>3. AddVertex(e, v) \in GraphsOver(R) /\ AddVertex(e, v).edge = e.edge
        /\ Vertices(AddVertex(e, v)) = Vertices(e) \cup {v}
    BY <2>2, AddVertexAdds
  <2> QED BY <2>1, <2>3 DEF e
<1>2. AddEdge(h, u, v, m) = [vertex |-> f.vertex, edge |-> f.edge \cup {<<u, v, m>>}]
  BY DEF AddEdge
<1> HIDE DEF f
<1>3. /\ AddEdge(h, u, v, m).vertex = f.vertex
      /\ AddEdge(h, u, v, m).edge = f.edge \cup {<<u, v, m>>}
      /\ AddEdge(h, u, v, m) \in GraphsOver(R)
  BY <1>1, <1>2 DEF GraphsOver
<1> QED BY <1>1, <1>3 DEF Vertices

\* A graph that is built has the vertices asked for, the ends of the edges, and
\* an edge for each pair.
LEMMA GraphBuilt ==
    ASSUME NEW S \in SUBSET Nat, IsFiniteSet(S),
           NEW nb, DOMAIN nb \in SUBSET (Nat \X Nat), IsFiniteSet(DOMAIN nb)
    PROVE  /\ IsGraph(BuildGraph(S, nb))
           /\ Vertices(BuildGraph(S, nb)) = S \cup UNION {{p[1], p[2]} : p \in DOMAIN nb}
           /\ \A p \in DOMAIN nb : \E e \in BuildGraph(S, nb).edge : e[1] = p[1] /\ e[2] = p[2]
           /\ \A e \in BuildGraph(S, nb).edge : <<e[1], e[2]>> \in DOMAIN nb
<1> DEFINE P == DOMAIN nb
           pairs == Ascending(P, Lexicographic(P))
           card == Cardinality(P)
           c == Cardinality(S)
           Weights == {nb[p] : p \in P}
           Graphs == GraphsOver(Weights)
           first == [vertex |-> Ascending(S, Increasing(S)), edge |-> {}]
           grow == [k \in 1 .. card |->
                      [h \in Graphs |-> AddEdge(h, pairs[k][1], pairs[k][2], nb[pairs[k]])]]
           inner(f, k) == IF k = 0 THEN first
                          ELSE AddEdge(f[k - 1], pairs[k][1], pairs[k][2], nb[pairs[k]])
<1>1. card \in Nat /\ c \in Nat
  BY FS_CardinalityType
<1>2. pairs \in Bijection(1 .. card, P)
  <2>1. P \in SUBSET (Int \X Int) /\ IsFiniteSet(P)
    OBVIOUS
  <2> HIDE DEF P
  <2> QED BY <2>1, LexicographicOrders, AscendingBijection
<1>3. Ascending(S, Increasing(S)) \in Bijection(1 .. c, S)
  <2>1. S \in SUBSET Int
    OBVIOUS
  <2> QED BY <2>1, IncreasingOrders, AscendingBijection
<1> DEFINE order == Ascending(S, Increasing(S))
<1> HIDE DEF order
<1>4. /\ order \in [1 .. c -> S] /\ \A x \in S : \E i \in 1 .. c : order[i] = x
      /\ DOMAIN order = 1 .. c
  BY <1>3 DEF order, Bijection, Surjection
<1>5. first \in Graphs /\ Vertices(first) = S /\ first.edge = {}
  <2>1. first = [vertex |-> order, edge |-> {}]
    BY DEF order
  <2> HIDE DEF first
  <2>2. order \in [1 .. c -> Nat]
    BY <1>4
  <2>3. order \in Seq(Nat)
    BY <1>1, <2>2, SeqDef
  <2>4. {order[i] : i \in 1 .. c} = S
    BY <1>4
  <2>5. first.vertex = order /\ first.edge = {} /\ first \in Graphs
    BY <2>1, <2>3 DEF GraphsOver
  <2> QED BY <1>4, <2>4, <2>5 DEF Vertices
<1>6. /\ pairs \in [1 .. card -> P] /\ DOMAIN pairs = 1 .. card
      /\ \A p \in P : \E k \in 1 .. card : pairs[k] = p
  BY <1>2 DEF Bijection, Surjection
<1> HIDE DEF pairs, first, card
<1>7. \A k \in 1 .. card : /\ pairs[k] \in P /\ pairs[k][1] \in Nat /\ pairs[k][2] \in Nat
                        /\ nb[pairs[k]] \in Weights
  <2>1. \A k \in 1 .. card : pairs[k] \in P
    BY <1>6
  <2>2. P \subseteq Nat \X Nat
    OBVIOUS
  <2> HIDE DEF P
  <2> QED BY <2>1, <2>2
<1> HIDE DEF Weights
<1>8. Len(pairs) = card
  <2>1. pairs \in Seq(P)
    <3> HIDE DEF P
    <3> QED BY <1>1, <1>6, SeqDef
  <2> HIDE DEF P
  <2> QED BY <1>1, <1>6, <2>1, LenProperties
<1>9. grow \in [1 .. card -> [Graphs -> Graphs]]
  <2> SUFFICES ASSUME NEW k \in 1 .. card, NEW h \in Graphs
               PROVE  AddEdge(h, pairs[k][1], pairs[k][2], nb[pairs[k]]) \in Graphs
    OBVIOUS
  <2> HIDE DEF P
  <2> QED BY <1>7, AddEdgeAdds
<1>10. PICK f \in [0 .. card -> Graphs] : f[0] = first /\ \A k \in 1 .. card : f[k] = grow[k][f[k - 1]]
  <2>1. card \in Nat /\ first \in Graphs /\ grow \in Steps(card, Graphs)
    BY <1>1, <1>5, <1>9 DEF Steps
  <2> HIDE DEF Graphs, grow
  <2>2. \E f \in [0 .. card -> Graphs] : TakesSteps(f, card, first, grow)
    BY <2>1, StepsExist
  <2> QED BY <2>2 DEF TakesSteps
<1> DEFINE G == CHOOSE G : G = [k \in 0 .. card |-> inner(G, k)]
<1>11. BuildGraph(S, nb) = G[card]
  <2> DEFINE ord == Ascending(DOMAIN nb, Lexicographic(DOMAIN nb))
             in(g, k) == IF k = 0
                         THEN [vertex |-> Ascending(S, Increasing(S)), edge |-> {}]
                         ELSE AddEdge(g[k - 1], ord[k][1], ord[k][2], nb[ord[k]])
  <2>1. BuildGraph(S, nb) = (CHOOSE g : g = [k \in 0 .. Len(ord) |-> in(g, k)])[Len(ord)]
    BY DEF BuildGraph
  <2>2. ord = pairs /\ \A g, k : in(g, k) = inner(g, k)
    BY DEF pairs, first
  <2> HIDE DEF in, inner, ord
  <2>3. \A g : [k \in 0 .. card |-> in(g, k)] = [k \in 0 .. card |-> inner(g, k)]
    BY <2>2
  <2>4. BuildGraph(S, nb) = (CHOOSE g : g = [k \in 0 .. card |-> in(g, k)])[card]
    BY <1>8, <2>1, <2>2
  <2> QED BY <2>3, <2>4
<1>12. f = [k \in 0 .. card |-> inner(f, k)]
  <2>1. f = [k \in 0 .. card |-> f[k]]
    OBVIOUS
  <2>2. ASSUME NEW k \in 0 .. card
        PROVE  f[k] = inner(f, k)
    <3>1. CASE k = 0
      BY <1>10, <3>1
    <3>2. CASE k # 0
      <4>1. k \in 1 .. card /\ k - 1 \in 0 .. card
        BY <1>1, <3>2
      <4>2. f[k - 1] \in Graphs
        BY <4>1
      <4>3. grow[k][f[k - 1]] = AddEdge(f[k - 1], pairs[k][1], pairs[k][2], nb[pairs[k]])
        BY <4>1, <4>2
      <4> QED BY <1>10, <3>2, <4>1, <4>3
    <3> QED BY <3>1, <3>2
  <2> HIDE DEF inner
  <2>3. [k \in 0 .. card |-> f[k]] = [k \in 0 .. card |-> inner(f, k)]
    BY <2>2
  <2> QED BY <2>1, <2>3
<1> HIDE DEF inner
<1>13. G = [k \in 0 .. card |-> inner(G, k)]
  BY <1>12
<1> HIDE DEF G
<1>14. \A k \in 0 .. card : G[k] = inner(G, k)
  BY <1>13
<1> DEFINE Done(k) == /\ G[k] \in Graphs
                      /\ Vertices(G[k]) = S \cup UNION {{pairs[i][1], pairs[i][2]} : i \in 1 .. k}
                      /\ G[k].edge = {<<pairs[i][1], pairs[i][2], nb[pairs[i]]>> : i \in 1 .. k}
           bad == {k \in 0 .. card : ~Done(k)}
<1>15. Done(0)
  <2>1. 0 \in 0 .. card /\ \A i : i \notin 1 .. 0
    BY <1>1
  <2>2. G[0] = first
    BY <1>14, <2>1 DEF inner
  <2>3. /\ {{pairs[i][1], pairs[i][2]} : i \in 1 .. 0} = {}
        /\ {<<pairs[i][1], pairs[i][2], nb[pairs[i]]>> : i \in 1 .. 0} = {}
    BY <2>1
  <2>4. UNION {} = {}
    OBVIOUS
  <2> HIDE DEF Graphs
  <2> QED BY <1>5, <2>2, <2>3, <2>4
<1>16. ASSUME NEW k \in 1 .. card, Done(k - 1)
       PROVE  Done(k)
  <2>1. k \in 0 .. card /\ k # 0 /\ k \in 1 .. k /\ \A i \in 1 .. k : i = k \/ i \in 1 .. k - 1
    BY <1>1
  <2>2. \A i \in 1 .. k - 1 : i \in 1 .. k
    BY <1>1
  <2> DEFINE h == G[k - 1]
             from == pairs[k][1]
             to == pairs[k][2]
             weight == nb[pairs[k]]
  <2>3. G[k] = AddEdge(h, from, to, weight)
    BY <1>14, <2>1 DEF inner
  <2>4. from \in Nat /\ to \in Nat /\ weight \in Weights
    BY <1>7
  <2>5. h \in Graphs
    BY <1>16
  <2> HIDE DEF h
  <2>6. /\ G[k] \in Graphs /\ Vertices(G[k]) = Vertices(h) \cup {from, to}
        /\ G[k].edge = h.edge \cup {<<from, to, weight>>}
    <3>1. h \in GraphsOver(Weights)
      BY <2>5
    <3> HIDE DEF from, to, weight, Graphs
    <3>2. AddEdge(h, from, to, weight) \in GraphsOver(Weights)
      BY <2>4, <3>1, AddEdgeAdds, SMTT(30)
    <3>3. Vertices(AddEdge(h, from, to, weight)) = Vertices(h) \cup {from, to}
      BY <2>4, <3>1, AddEdgeAdds, SMTT(30)
    <3>4. AddEdge(h, from, to, weight).edge = h.edge \cup {<<from, to, weight>>}
      BY AddEdgeEdges
    <3> QED BY <2>3, <3>2, <3>3, <3>4 DEF Graphs
  <2>7. UNION {{pairs[i][1], pairs[i][2]} : i \in 1 .. k}
          = (UNION {{pairs[i][1], pairs[i][2]} : i \in 1 .. k - 1}) \cup {from, to}
    <3>1. {{pairs[i][1], pairs[i][2]} : i \in 1 .. k}
            = {{pairs[i][1], pairs[i][2]} : i \in 1 .. k - 1} \cup {{from, to}}
      BY <2>1, <2>2
    <3> DEFINE A == {{pairs[i][1], pairs[i][2]} : i \in 1 .. k - 1}
               e == {from, to}
    <3>2. UNION (A \cup {e}) = (UNION A) \cup e
      <4> HIDE DEF A, e
      <4> QED OBVIOUS
    <3> QED BY <3>1, <3>2
  <2>8. {<<pairs[i][1], pairs[i][2], nb[pairs[i]]>> : i \in 1 .. k}
          = {<<pairs[i][1], pairs[i][2], nb[pairs[i]]>> : i \in 1 .. k - 1} \cup {<<from, to, weight>>}
    BY <2>1, <2>2
  <2>9. /\ Vertices(h) = S \cup UNION {{pairs[i][1], pairs[i][2]} : i \in 1 .. k - 1}
        /\ h.edge = {<<pairs[i][1], pairs[i][2], nb[pairs[i]]>> : i \in 1 .. k - 1}
    BY <1>16 DEF h
  <2> DEFINE A == UNION {{pairs[i][1], pairs[i][2]} : i \in 1 .. k - 1}
             E == {<<pairs[i][1], pairs[i][2], nb[pairs[i]]>> : i \in 1 .. k - 1}
             d == {from, to}
             e == {<<from, to, weight>>}
  <2>10. /\ G[k] \in Graphs /\ Vertices(G[k]) = Vertices(h) \cup d /\ G[k].edge = h.edge \cup e
         /\ Vertices(h) = S \cup A /\ h.edge = E
         /\ UNION {{pairs[i][1], pairs[i][2]} : i \in 1 .. k} = A \cup d
         /\ {<<pairs[i][1], pairs[i][2], nb[pairs[i]]>> : i \in 1 .. k} = E \cup e
    BY <2>6, <2>7, <2>8, <2>9
  <2> HIDE DEF A, E, d, e, Graphs
  <2> QED BY <2>10
<1>17. bad = {}
  <2> SUFFICES ASSUME bad # {}
               PROVE  FALSE
    OBVIOUS
  <2>1. bad \in SUBSET Nat
    OBVIOUS
  <2>2. PICK k \in bad : \A l \in bad : k <= l
    <3> HIDE DEF bad
    <3> QED BY <2>1, LeastNumber
  <2>3. k \in 0 .. card /\ ~Done(k)
    BY <2>2
  <2> HIDE DEF Done
  <2>4. k \in 1 .. card /\ k - 1 \in 0 .. card
    BY <1>1, <1>15, <2>3
  <2>5. k - 1 \notin bad
    <3> HIDE DEF bad
    <3> QED BY <2>2, <2>4
  <2> QED BY <1>16, <2>3, <2>4, <2>5
<1>18. Done(card)
  <2>1. card \in 0 .. card
    BY <1>1
  <2> HIDE DEF Done
  <2> QED BY <1>17, <2>1
<1> HIDE DEF bad
<1> DEFINE B == BuildGraph(S, nb)
<1>19. /\ B \in Graphs
       /\ Vertices(B) = S \cup UNION {{pairs[i][1], pairs[i][2]} : i \in 1 .. card}
       /\ B.edge = {<<pairs[i][1], pairs[i][2], nb[pairs[i]]>> : i \in 1 .. card}
  BY <1>11, <1>18
<1> HIDE DEF B
<1>20. {{pairs[i][1], pairs[i][2]} : i \in 1 .. card} = {{p[1], p[2]} : p \in P}
  <2> HIDE DEF P
  <2> QED BY <1>6, <1>7
<1>21. ASSUME NEW e \in B.edge
       PROVE  <<e[1], e[2]>> \in P /\ e[1] \in Vertices(B) /\ e[2] \in Vertices(B)
  <2>1. PICK i \in 1 .. card : e = <<pairs[i][1], pairs[i][2], nb[pairs[i]]>>
    BY <1>19
  <2>2. pairs[i] \in P /\ pairs[i] = <<pairs[i][1], pairs[i][2]>>
    BY <1>7
  <2>3. e[1] = pairs[i][1] /\ e[2] = pairs[i][2]
    BY <2>1
  <2>4. <<e[1], e[2]>> \in P
    BY <2>2, <2>3
  <2>5. e[1] \in {pairs[i][1], pairs[i][2]} /\ e[2] \in {pairs[i][1], pairs[i][2]}
    BY <2>3
  <2>6. {pairs[i][1], pairs[i][2]} \subseteq Vertices(B)
    BY <1>19
  <2> QED BY <2>4, <2>5, <2>6
<1>22. \A p \in P : \E e \in B.edge : e[1] = p[1] /\ e[2] = p[2]
  <2> TAKE p \in P
  <2>1. PICK i \in 1 .. card : pairs[i] = p
    BY <1>6
  <2> DEFINE e == <<pairs[i][1], pairs[i][2], nb[pairs[i]]>>
  <2>2. e \in B.edge /\ e[1] = p[1] /\ e[2] = p[2]
    BY <1>19, <2>1
  <2> QED BY <2>2
<1>23. IsGraph(B)
  BY <1>19, <1>21 DEF IsGraph, GraphsOver
<1>24. Vertices(B) = S \cup UNION {{p[1], p[2]} : p \in P}
  BY <1>19, <1>20
<1> QED BY <1>21, <1>22, <1>23, <1>24 DEF B
-----------------------------------------------------------------------------
(* The order of the calls.                                                 *)

\* The calls of runCalibrationWorkflow, by position.
LEMMA WorkflowSteps ==
    /\ Len(Workflow) = 29
    /\ Workflow[1] = "computeBoardsPairPose" /\ Workflow[2] = "initInterBoardsGraph"
    /\ Workflow[3] = "init3DObjects" /\ Workflow[4] = "initAll3DObjectObs"
    /\ Workflow[5] = "computeCamerasPairPose" /\ Workflow[6] = "initInterCamerasGraph"
    /\ Workflow[7] = "initCameraGroup" /\ Workflow[8] = "initAllCameraGroupObs"
    /\ Workflow[9] = "initInterCamGroupGraph" /\ Workflow[10] = "computeObjectsPairPose"
    /\ Workflow[11] = "initInterObjectsGraph" /\ Workflow[12] = "mergeObjects"
    /\ Workflow[13] = "mergeAllObjectObs" /\ Workflow[14] = "mergeAllCameraGroupObs"
    /\ Workflow[15] = "findPairObjectForNonOverlap"
    /\ Workflow[16] = "findPoseNoOverlapAllCamGroup"
    /\ Workflow[17] = "initInterCamGroupGraph" /\ Workflow[18] = "mergeCameraGroup"
    /\ Workflow[19] = "mergeAllCameraGroupObs" /\ Workflow[20] = "initInterCamGroupGraph"
    /\ Workflow[21] = "computeObjectsPairPose" /\ Workflow[22] = "initInterObjectsGraph"
    /\ Workflow[23] = "mergeObjects" /\ Workflow[24] = "mergeAllObjectObs"
    /\ Workflow[25] = "mergeAllCameraGroupObs" /\ Workflow[26] = "initInterCamGroupGraph"
    /\ Workflow[27] = "mergeCameraGroup" /\ Workflow[28] = "mergeAllCameraGroupObs"
    /\ Workflow[29] = "saveCamerasParams"
BY DEF Workflow, Merge3DObjects

\* Where in the workflow each function is called.
LEMMA CallPlaces ==
    ASSUME step \in 1 .. 30
    PROVE  /\ At("computeBoardsPairPose") => step = 1
           /\ At("initInterBoardsGraph") => step = 2
           /\ At("init3DObjects") => step = 3
           /\ At("initAll3DObjectObs") => step = 4
           /\ At("computeCamerasPairPose") => step = 5
           /\ At("initInterCamerasGraph") => step = 6
           /\ At("initCameraGroup") => step = 7
           /\ At("initAllCameraGroupObs") => step = 8
           /\ At("initInterCamGroupGraph") => step \in {9, 17, 20, 26}
           /\ At("computeObjectsPairPose") => step \in {10, 21}
           /\ At("initInterObjectsGraph") => step \in {11, 22}
           /\ At("mergeObjects") => step \in {12, 23}
           /\ At("mergeAllObjectObs") => step \in {13, 24}
           /\ At("mergeAllCameraGroupObs") => step \in {14, 19, 25, 28}
           /\ At("findPairObjectForNonOverlap") => step = 15
           /\ At("findPoseNoOverlapAllCamGroup") => step = 16
           /\ At("mergeCameraGroup") => step \in {18, 27}
           /\ At("saveCamerasParams") => step = 29
<1>1. ASSUME NEW name, At(name)
      PROVE  step \in 1 .. 29 /\ Workflow[step] = name
  BY <1>1, WorkflowSteps DEF At
<1> DEFINE called == Workflow
<1>2. \A i \in 1 .. 29 :
         \/ i = 1 \/ i = 2 \/ i = 3 \/ i = 4 \/ i = 5 \/ i = 6 \/ i = 7 \/ i = 8
         \/ i = 9 \/ i = 10 \/ i = 11 \/ i = 12 \/ i = 13 \/ i = 14 \/ i = 15
         \/ i = 16 \/ i = 17 \/ i = 18 \/ i = 19 \/ i = 20 \/ i = 21 \/ i = 22
         \/ i = 23 \/ i = 24 \/ i = 25 \/ i = 26 \/ i = 27 \/ i = 28 \/ i = 29
  OBVIOUS
<1> QED BY <1>1, <1>2, WorkflowSteps

-----------------------------------------------------------------------------
(* The inductive invariant.                                                *)

\* Cameras, frames and boards are numbered, and the calls are made in order.
Sizes ==
    /\ seen \subseteq Detections /\ kept \subseteq seen
    /\ step \in 1 .. 30 /\ aborted \in BOOLEAN

\* Objects are numbered from 0 and share no board, and from init3DObjects on
\* every measured board is in one; a null object is there only from the
\* hand-eye calibration to the next initInterObjectsGraph.
Objects ==
    /\ \E n \in Nat : DOMAIN object_3d = 0 .. n - 1
    /\ \A o \in DOMAIN object_3d :
          /\ BoardsOf(o) \subseteq 0 .. NbBoard - 1
          /\ object_3d[o] = NullObject \/ object_3d[o].ref \in BoardsOf(o)
    /\ \A o, p \in DOMAIN object_3d : BoardsOf(o) \cap BoardsOf(p) # {} => o = p
    /\ step \notin 17 .. 22 => \A o \in DOMAIN object_3d : object_3d[o] # NullObject
    /\ step < 4 => DOMAIN object_3d = {}
    /\ step >= 4 => \A d \in kept : \E o \in DOMAIN object_3d : d[3] \in BoardsOf(o)

\* The same for groups, and none is ever null.
Groups ==
    /\ \E n \in Nat : DOMAIN cam_group = 0 .. n - 1
    /\ \A g \in DOMAIN cam_group :
          /\ CamsOf(g) \subseteq 0 .. NbCamera - 1
          /\ cam_group[g].ref \in CamsOf(g)
    /\ \A g, h \in DOMAIN cam_group : CamsOf(g) \cap CamsOf(h) # {} => g = h
    /\ step < 8 => DOMAIN cam_group = {}
    /\ step >= 8 => \A d \in kept : \E g \in DOMAIN cam_group : d[1] \in CamsOf(g)

\* Observations are those of the present objects and groups, but for the few
\* calls between a merge and the end of the rebuilding.
Fresh ==
    /\ step >= 5 /\ step \notin {13, 24} => object_observations = Init3DObjectObs
    /\ step >= 9 /\ step \notin {13, 14, 19, 24, 25, 28} =>
          cams_group_obs = InitCameraGroupObs
    /\ \A d \in object_observations : \E e \in kept : d[1] = e[1] /\ d[2] = e[2]

\* What is stored and saved.
Counted ==
    /\ copies \in 0 .. NbBoard
    /\ \A s \in saved : s.cam \in 0 .. NbCamera - 1

\* The pairs of values of a field that two observations in common views have.
Pairs(obs, key, same) ==
    {<<p[1][key], p[2][key]>> :
        p \in {q \in obs \X obs : /\ q[1][key] # q[2][key]
                                  /\ \A i \in same : q[1][i] = q[2][i]}}

\* Each graph, from the call that builds it to the one that reads it, is that
\* of the present observations.
PairGraphs ==
    /\ step \in {2, 3} => DOMAIN board_pose_pairs = Pairs(seen, 3, {1, 2})
    /\ step = 3 =>
          covis_boards_graph = BuildGraph({d[3] : d \in seen}, board_pose_pairs)
    /\ step \in {6, 7} =>
          DOMAIN camera_pose_pairs = Pairs(object_observations, 1, {2, 3})
    /\ step = 7 =>
          covis_camera_graph = BuildGraph({d[1] : d \in seen}, camera_pose_pairs)
    /\ step \in {11, 12, 22, 23} =>
          DOMAIN object_pose_pairs = Pairs(cams_group_obs, 4, {1, 2})
    /\ step \in {12, 23} =>
          covis_objects_graph =
             BuildGraph({d[3] : d \in object_observations}, object_pose_pairs)

\* The graph of the groups holds the groups that are observed.  The pairs that
\* were posed may be of groups that are gone.
GroupGraph ==
    /\ DOMAIN no_overlap_pair \subseteq Nat \X Nat
    /\ IsFiniteSet(DOMAIN no_overlap_pair)
    /\ step \in {17, 18} => DOMAIN no_overlap_pair \subseteq GroupPairs
    /\ step \in {18, 27} =>
          no_overlap_camgroup_graph =
             BuildGraph({d[1] : d \in cams_group_obs},
                        [p \in DOMAIN no_overlap_pair |-> no_overlap_pair[p].cnt])

\* The objects that initNonOverlapPair looks up are there, but for object 0 when
\* two groups had no frame in common.
PairsExist ==
    step = 16 => \A p \in GroupPairs : \E o, q \in DOMAIN object_3d \cup {0} :
                    no_overlap_object_pair[p] = <<o, q>>

Shape ==
    /\ Sizes /\ Objects /\ Groups /\ Fresh /\ Counted /\ PairGraphs
    /\ GroupGraph /\ PairsExist

\* The invariant holds when the boards have been detected.
LEMMA ShapeInit == Init => Shape
<1> SUFFICES ASSUME Init
             PROVE  Shape
  OBVIOUS
<1>1. Sizes
  <2>1. PICK w \in Films : seen = Scene(w).seen /\ kept = Scene(w).kept
    BY DEF Init
  <2>2. Scene(w).kept \subseteq Scene(w).seen /\ Scene(w).seen \subseteq Detections
    BY FilmsAssumption
  <2>0. step = 1 /\ aborted = FALSE
    BY DEF Init
  <2>3. step \in 1 .. 30
    BY <2>0
  <2>5. aborted \in BOOLEAN
    BY <2>0, Zenon
  <2>4. seen \subseteq Detections /\ kept \subseteq seen
    BY <2>1, <2>2, Zenon
  <2> QED BY <2>3, <2>4, <2>5 DEF Sizes
<1>2. DOMAIN object_3d = {} /\ DOMAIN cam_group = {} /\ DOMAIN no_overlap_pair = {}
  BY DEF Init
<1>3. {} = 0 .. 0 - 1
  OBVIOUS
<1>4. Objects /\ Groups
  BY <1>2, <1>3 DEF Init, Objects, Groups
<1>5. Fresh /\ Counted /\ PairGraphs
  BY SizesAssumption DEF Init, Fresh, Counted, PairGraphs
<1>6. GroupGraph /\ PairsExist
  BY <1>2, FS_EmptySet DEF Init, GroupGraph, PairsExist
<1> QED BY <1>1, <1>4, <1>5, <1>6 DEF Shape

\* One call after the other.
LEMMA StepsCount ==
    ASSUME Sizes, [Next]_vars
    PROVE  /\ Sizes' /\ seen' = seen /\ kept' = kept
           /\ step' = step \/ (step \in 1 .. 29 /\ step' = step + 1)
<1> USE WorkflowSteps DEF input
<1>1. CASE UNCHANGED vars
  BY <1>1 DEF vars, Sizes
<1>2. CASE Abort
  BY <1>2 DEF Abort, Sizes
<1>3. ASSUME NEW name, Call(name), UNCHANGED input
      PROVE  /\ Sizes' /\ seen' = seen /\ kept' = kept
             /\ step \in 1 .. 29 /\ step' = step + 1
  BY <1>3 DEF Call, At, Sizes
<1>4. CASE ComputeBoardsPairPose
  BY <1>3, <1>4 DEF ComputeBoardsPairPose
<1>5. CASE InitInterBoardsGraph
  BY <1>3, <1>5 DEF InitInterBoardsGraph
<1>6. CASE Init3DObjects
  BY <1>3, <1>6 DEF Init3DObjects
<1>7. CASE InitAll3DObjectObs
  BY <1>3, <1>7 DEF InitAll3DObjectObs
<1>8. CASE ComputeCamerasPairPose
  BY <1>3, <1>8 DEF ComputeCamerasPairPose
<1>9. CASE InitInterCamerasGraph
  BY <1>3, <1>9 DEF InitInterCamerasGraph
<1>10. CASE InitCameraGroup
  BY <1>3, <1>10 DEF InitCameraGroup
<1>11. CASE InitAllCameraGroupObs
  BY <1>3, <1>11 DEF InitAllCameraGroupObs
<1>12. CASE InitInterCamGroupGraph
  BY <1>3, <1>12 DEF InitInterCamGroupGraph
<1>13. CASE ComputeObjectsPairPose
  BY <1>3, <1>13 DEF ComputeObjectsPairPose
<1>14. CASE InitInterObjectsGraph
  BY <1>3, <1>14 DEF InitInterObjectsGraph, Call
<1>15. CASE MergeObjects
  BY <1>3, <1>15 DEF MergeObjects
<1>16. CASE MergeAllObjectObs
  BY <1>3, <1>16 DEF MergeAllObjectObs
<1>17. CASE MergeAllCameraGroupObs
  BY <1>3, <1>17 DEF MergeAllCameraGroupObs
<1>18. CASE FindPairObjectForNonOverlap
  BY <1>3, <1>18 DEF FindPairObjectForNonOverlap
<1>19. CASE FindPoseNoOverlapAllCamGroup
  BY <1>3, <1>19 DEF FindPoseNoOverlapAllCamGroup
<1>20. CASE MergeCameraGroup
  BY <1>3, <1>20 DEF MergeCameraGroup
<1>21. CASE SaveCamerasParams
  BY <1>3, <1>21 DEF SaveCamerasParams
<1>22. CASE NullObjectRead \/ NullGroupRead \/ EmptyPoseUsed
  BY <1>2, <1>22 DEF NullObjectRead, NullGroupRead, EmptyPoseUsed
<1>23. CASE Ended
  BY <1>1, <1>23 DEF Ended
<1> QED BY <1>1, <1>4, <1>5, <1>6, <1>7, <1>8, <1>9, <1>10, <1>11, <1>12, <1>13,
           <1>14, <1>15, <1>16, <1>17, <1>18, <1>19, <1>20, <1>21, <1>22, <1>23 DEF Next

\* Which calls change what.
LEMMA Changes ==
    ASSUME [Next]_vars
    PROVE  /\ \/ object_3d' = object_3d
              \/ Init3DObjects \/ MergeObjects \/ FindPoseNoOverlapAllCamGroup
           /\ cam_group' = cam_group \/ InitCameraGroup \/ MergeCameraGroup
           /\ \/ object_observations' = object_observations /\ copies' = copies
              \/ InitAll3DObjectObs \/ MergeAllObjectObs
           /\ \/ cams_group_obs' = cams_group_obs
              \/ InitAllCameraGroupObs \/ MergeAllObjectObs \/ MergeAllCameraGroupObs
           /\ \/ board_pose_pairs' = board_pose_pairs
              \/ ComputeBoardsPairPose
           /\ covis_boards_graph' = covis_boards_graph \/ InitInterBoardsGraph
           /\ camera_pose_pairs' = camera_pose_pairs \/ ComputeCamerasPairPose
           /\ covis_camera_graph' = covis_camera_graph \/ InitInterCamerasGraph
           /\ object_pose_pairs' = object_pose_pairs \/ ComputeObjectsPairPose
           /\ covis_objects_graph' = covis_objects_graph \/ InitInterObjectsGraph
           /\ no_overlap_pair' = no_overlap_pair \/ FindPoseNoOverlapAllCamGroup
           /\ \/ no_overlap_camgroup_graph' = no_overlap_camgroup_graph
              \/ InitInterCamGroupGraph
           /\ \/ no_overlap_object_pair' = no_overlap_object_pair
              \/ FindPairObjectForNonOverlap
           /\ saved' = saved \/ SaveCamerasParams
<1> USE DEF input, boardVars, cameraVars, objectVars, obsVars, pairVars
<1>1. CASE UNCHANGED vars
  BY <1>1 DEF vars
<1>2. CASE Abort
  BY <1>2 DEF Abort
<1>3. CASE ComputeBoardsPairPose
  BY <1>3 DEF ComputeBoardsPairPose
<1>4. CASE InitInterBoardsGraph
  BY <1>4 DEF InitInterBoardsGraph
<1>5. CASE Init3DObjects
  BY <1>5 DEF Init3DObjects
<1>6. CASE InitAll3DObjectObs
  BY <1>6 DEF InitAll3DObjectObs
<1>7. CASE ComputeCamerasPairPose
  BY <1>7 DEF ComputeCamerasPairPose
<1>8. CASE InitInterCamerasGraph
  BY <1>8 DEF InitInterCamerasGraph
<1>9. CASE InitCameraGroup
  BY <1>9 DEF InitCameraGroup
<1>10. CASE InitAllCameraGroupObs
  BY <1>10 DEF InitAllCameraGroupObs
<1>11. CASE InitInterCamGroupGraph
  BY <1>11 DEF InitInterCamGroupGraph
<1>12. CASE ComputeObjectsPairPose
  BY <1>12 DEF ComputeObjectsPairPose
<1>13. CASE InitInterObjectsGraph
  BY <1>13 DEF InitInterObjectsGraph
<1>14. CASE MergeObjects
  BY <1>14 DEF MergeObjects
<1>15. CASE MergeAllObjectObs
  BY <1>15 DEF MergeAllObjectObs
<1>16. CASE MergeAllCameraGroupObs
  BY <1>16 DEF MergeAllCameraGroupObs
<1>17. CASE FindPairObjectForNonOverlap
  BY <1>17 DEF FindPairObjectForNonOverlap
<1>18. CASE FindPoseNoOverlapAllCamGroup
  BY <1>18 DEF FindPoseNoOverlapAllCamGroup
<1>19. CASE MergeCameraGroup
  BY <1>19 DEF MergeCameraGroup
<1>20. CASE SaveCamerasParams
  BY <1>20 DEF SaveCamerasParams
<1>21. CASE NullObjectRead \/ NullGroupRead \/ EmptyPoseUsed
  BY <1>2, <1>21 DEF NullObjectRead, NullGroupRead, EmptyPoseUsed
<1>22. CASE Ended
  BY <1>1, <1>22 DEF Ended
<1> QED BY <1>1, <1>3, <1>4, <1>5, <1>6, <1>7, <1>8, <1>9, <1>10, <1>11, <1>12, <1>13, <1>14, <1>15, <1>16, <1>17, <1>18, <1>19, <1>20, <1>21, <1>22 DEF Next

\* The call that each step makes.
LEMMA StepCalls ==
    ASSUME Sizes, [Next]_vars, step' # step
    PROVE  /\ step = 1 => ComputeBoardsPairPose
           /\ step = 2 => InitInterBoardsGraph
           /\ step = 3 => Init3DObjects
           /\ step = 4 => InitAll3DObjectObs
           /\ step = 5 => ComputeCamerasPairPose
           /\ step = 6 => InitInterCamerasGraph
           /\ step = 7 => InitCameraGroup
           /\ step = 8 => InitAllCameraGroupObs
           /\ step \in {9, 17, 20, 26} => InitInterCamGroupGraph
           /\ step \in {10, 21} => ComputeObjectsPairPose
           /\ step \in {11, 22} => InitInterObjectsGraph
           /\ step \in {12, 23} => MergeObjects
           /\ step \in {13, 24} => MergeAllObjectObs
           /\ step \in {14, 19, 25, 28} => MergeAllCameraGroupObs
           /\ step = 15 => FindPairObjectForNonOverlap
           /\ step = 16 => FindPoseNoOverlapAllCamGroup
           /\ step \in {18, 27} => MergeCameraGroup
           /\ step = 29 => SaveCamerasParams
<1>1. step \in 1 .. 30
  BY DEF Sizes
<1>2. ~UNCHANGED vars /\ ~Abort
  BY DEF vars, Abort
<1>3. ~NullObjectRead /\ ~NullGroupRead /\ ~EmptyPoseUsed /\ ~Ended
  BY <1>2 DEF NullObjectRead, NullGroupRead, EmptyPoseUsed, Ended
<1>4. ComputeBoardsPairPose => step = 1
  BY <1>1, CallPlaces DEF ComputeBoardsPairPose, Call
<1>5. InitInterBoardsGraph => step = 2
  BY <1>1, CallPlaces DEF InitInterBoardsGraph, Call
<1>6. Init3DObjects => step = 3
  BY <1>1, CallPlaces DEF Init3DObjects, Call
<1>7. InitAll3DObjectObs => step = 4
  BY <1>1, CallPlaces DEF InitAll3DObjectObs, Call
<1>8. ComputeCamerasPairPose => step = 5
  BY <1>1, CallPlaces DEF ComputeCamerasPairPose, Call
<1>9. InitInterCamerasGraph => step = 6
  BY <1>1, CallPlaces DEF InitInterCamerasGraph, Call
<1>10. InitCameraGroup => step = 7
  BY <1>1, CallPlaces DEF InitCameraGroup, Call
<1>11. InitAllCameraGroupObs => step = 8
  BY <1>1, CallPlaces DEF InitAllCameraGroupObs, Call
<1>12. InitInterCamGroupGraph => step \in {9, 17, 20, 26}
  BY <1>1, CallPlaces DEF InitInterCamGroupGraph, Call
<1>13. ComputeObjectsPairPose => step \in {10, 21}
  BY <1>1, CallPlaces DEF ComputeObjectsPairPose, Call
<1>14. InitInterObjectsGraph => step \in {11, 22}
  BY <1>1, CallPlaces DEF InitInterObjectsGraph
<1>15. MergeObjects => step \in {12, 23}
  BY <1>1, CallPlaces DEF MergeObjects, Call
<1>16. MergeAllObjectObs => step \in {13, 24}
  BY <1>1, CallPlaces DEF MergeAllObjectObs, Call
<1>17. MergeAllCameraGroupObs => step \in {14, 19, 25, 28}
  BY <1>1, CallPlaces DEF MergeAllCameraGroupObs, Call
<1>18. FindPairObjectForNonOverlap => step = 15
  BY <1>1, CallPlaces DEF FindPairObjectForNonOverlap, Call
<1>19. FindPoseNoOverlapAllCamGroup => step = 16
  BY <1>1, CallPlaces DEF FindPoseNoOverlapAllCamGroup, Call
<1>20. MergeCameraGroup => step \in {18, 27}
  BY <1>1, CallPlaces DEF MergeCameraGroup, Call
<1>21. SaveCamerasParams => step = 29
  BY <1>1, CallPlaces DEF SaveCamerasParams, Call
<1> QED BY <1>1, <1>2, <1>3, <1>4, <1>5, <1>6, <1>7, <1>8, <1>9, <1>10, <1>11, <1>12, <1>13, <1>14, <1>15, <1>16, <1>17, <1>18, <1>19, <1>20, <1>21 DEF Next

-----------------------------------------------------------------------------
(* Graphs of observations.                                                 *)

\* The components of a graph, numbered from 0, divide its vertices.
LEMMA ComponentsDivide ==
    ASSUME NEW h, IsGraph(h), NEW comp, comp = ConnectedComponents(h)
    PROVE  /\ Len(comp) \in Nat
           /\ \A i \in 0 .. Len(comp) - 1 :
                 /\ comp[i + 1] \subseteq Vertices(h)
                 /\ Min(comp[i + 1]) \in comp[i + 1]
                 /\ \A v \in comp[i + 1] : comp[i + 1] = Component(h, v)
           /\ \A v \in Vertices(h) : \E i \in 0 .. Len(comp) - 1 : v \in comp[i + 1]
           /\ \A i, j \in 0 .. Len(comp) - 1 :
                 comp[i + 1] \cap comp[j + 1] # {} => i = j
<1> DEFINE n == Len(comp)
<1>1. /\ n \in Nat /\ DOMAIN comp = 1 .. n
      /\ \A k \in 1 .. n : \E v \in Vertices(h) : comp[k] = Component(h, v)
      /\ \A v \in Vertices(h) : \E k \in 1 .. n : comp[k] = Component(h, v)
      /\ \A j, k \in 1 .. n : comp[j] = comp[k] => j = k
  BY ComponentsNumbered
<1> HIDE DEF n
<1>2. Vertices(h) \subseteq Nat
  <2>1. \A i \in DOMAIN h.vertex : h.vertex[i] \in Nat
    BY DEF IsGraph
  <2> QED BY <2>1 DEF Vertices
<1>3. \A i \in 0 .. n - 1 : i + 1 \in 1 .. n
  BY <1>1
<1>4. ASSUME NEW k \in 1 .. n
      PROVE  /\ comp[k] \subseteq Vertices(h) /\ Min(comp[k]) \in comp[k]
             /\ \A v \in comp[k] : comp[k] = Component(h, v)
  <2>1. PICK v \in Vertices(h) : comp[k] = Component(h, v)
    BY <1>1
  <2>2. comp[k] \subseteq Vertices(h) /\ v \in comp[k]
    BY <2>1, ComponentClosed DEF Closed
  <2>3. Min(comp[k]) \in comp[k]
    BY <1>2, <2>2, MinOfNumbers
  <2>4. \A w \in comp[k] : comp[k] = Component(h, w)
    BY <2>1, SameComponent
  <2> QED BY <2>2, <2>3, <2>4
<1>5. ASSUME NEW v \in Vertices(h)
      PROVE  \E i \in 0 .. n - 1 : v \in comp[i + 1]
  <2>1. PICK k \in 1 .. n : comp[k] = Component(h, v)
    BY <1>1
  <2>2. v \in comp[k]
    BY <2>1, ComponentClosed DEF Closed
  <2>3. k - 1 \in 0 .. n - 1 /\ (k - 1) + 1 = k
    BY <1>1
  <2> QED BY <2>2, <2>3
<1>6. ASSUME NEW i \in 0 .. n - 1, NEW j \in 0 .. n - 1, comp[i + 1] \cap comp[j + 1] # {}
      PROVE  i = j
  <2>1. PICK v : v \in comp[i + 1] /\ v \in comp[j + 1]
    BY <1>6
  <2>2. comp[i + 1] = comp[j + 1]
    BY <1>3, <1>4, <2>1
  <2>3. i + 1 = j + 1
    BY <1>1, <1>3, <2>2
  <2> QED BY <1>1, <2>3
<1> QED BY <1>1, <1>3, <1>4, <1>5, <1>6 DEF n

\* A pair has a count if some two observations have its values.
LEMMA PairsCounted ==
    ASSUME NEW obs, NEW key, NEW same
    PROVE  DOMAIN PairCounts(obs, key, same) = Pairs(obs, key, same)
BY DEF PairCounts, Pairs

\* Two observations agree in some fields.
Alike(p, q, same) == \A i \in same : p[i] = q[i]

\* A graph of the pairs that observations have in common views joins two values
\* just when two observations justify it.
LEMMA ObservationGraph ==
    ASSUME NEW S \in SUBSET Nat, IsFiniteSet(S), NEW obs, NEW key, NEW same,
           \A d \in obs : d[key] \in S,
           NEW counts, DOMAIN counts = Pairs(obs, key, same)
    PROVE  /\ IsGraph(BuildGraph(S, counts))
           /\ Vertices(BuildGraph(S, counts)) = S
           /\ \A e \in BuildGraph(S, counts).edge : \E p, q \in obs :
                 p[key] = e[1] /\ q[key] = e[2] /\ e[1] # e[2] /\ Alike(p, q, same)
           /\ \A p, q \in obs : p[key] # q[key] /\ Alike(p, q, same) =>
                 \E e \in BuildGraph(S, counts).edge : e[1] = p[key] /\ e[2] = q[key]
           /\ \A e \in BuildGraph(S, counts).edge :
                 <<e[1], e[2]>> \in DOMAIN counts /\ <<e[2], e[1]>> \in DOMAIN counts
<1> DEFINE P == DOMAIN counts
           h == BuildGraph(S, counts)
<1>1. ASSUME NEW x \in P
      PROVE  \E p, q \in obs : x = <<p[key], q[key]>> /\ p[key] # q[key] /\ Alike(p, q, same)
  <2>1. PICK p \in {q \in obs \X obs : /\ q[1][key] # q[2][key]
                                       /\ \A i \in same : q[1][i] = q[2][i]} :
             x = <<p[1][key], p[2][key]>>
    BY DEF Pairs
  <2>2. p[1] \in obs /\ p[2] \in obs
    BY <2>1
  <2> QED BY <2>1, <2>2 DEF Alike
<1>2. ASSUME NEW p \in obs, NEW q \in obs, p[key] # q[key], Alike(p, q, same)
      PROVE  <<p[key], q[key]>> \in P
  <2> DEFINE pq == <<p, q>>
  <2>1. pq \in obs \X obs /\ pq[1] = p /\ pq[2] = q
    OBVIOUS
  <2> HIDE DEF pq
  <2>2. <<pq[1][key], pq[2][key]>> \in Pairs(obs, key, same)
    BY <1>2, <2>1 DEF Pairs, Alike
  <2> QED BY <2>1, <2>2
<1>3. P \in SUBSET (S \X S) /\ P \in SUBSET (Nat \X Nat)
  <2>1. ASSUME NEW x \in P
        PROVE  x \in S \X S
    <3>1. PICK p \in obs, q \in obs : x = <<p[key], q[key]>>
      BY <1>1
    <3>2. p[key] \in S /\ q[key] \in S
      OBVIOUS
    <3> QED BY <3>1, <3>2
  <2>2. S \X S \subseteq Nat \X Nat
    OBVIOUS
  <2> HIDE DEF P
  <2> QED BY <2>1, <2>2
<1>4. IsFiniteSet(P)
  <2>1. IsFiniteSet(S \X S)
    BY FS_Product
  <2> HIDE DEF P
  <2> QED BY <1>3, <2>1, FS_Subset
<1>5. /\ IsGraph(h)
      /\ Vertices(h) = S \cup UNION {{p[1], p[2]} : p \in P}
      /\ \A p \in P : \E e \in h.edge : e[1] = p[1] /\ e[2] = p[2]
      /\ \A e \in h.edge : <<e[1], e[2]>> \in P
  BY <1>3, <1>4, GraphBuilt
<1>6. UNION {{p[1], p[2]} : p \in P} \subseteq S
  <2>1. \A p \in P : p[1] \in S /\ p[2] \in S
    BY <1>3
  <2> HIDE DEF P
  <2> QED BY <2>1
<1> HIDE DEF h
<1>7. Vertices(h) = S
  BY <1>5, <1>6
<1>8. ASSUME NEW e \in h.edge
      PROVE  /\ \E p, q \in obs :
                   p[key] = e[1] /\ q[key] = e[2] /\ e[1] # e[2] /\ Alike(p, q, same)
             /\ <<e[1], e[2]>> \in P /\ <<e[2], e[1]>> \in P
  <2>1. <<e[1], e[2]>> \in P
    BY <1>5
  <2>2. PICK p \in obs, q \in obs : /\ <<e[1], e[2]>> = <<p[key], q[key]>>
                                    /\ p[key] # q[key] /\ Alike(p, q, same)
    BY <1>1, <2>1
  <2>3. e[1] = p[key] /\ e[2] = q[key]
    BY <2>2
  <2>4. Alike(q, p, same)
    BY <2>2 DEF Alike
  <2>5. <<q[key], p[key]>> \in P
    BY <1>2, <2>2, <2>4
  <2> QED BY <2>1, <2>2, <2>3, <2>5
<1>9. ASSUME NEW p \in obs, NEW q \in obs, p[key] # q[key], Alike(p, q, same)
      PROVE  \E e \in h.edge : e[1] = p[key] /\ e[2] = q[key]
  <2> DEFINE x == <<p[key], q[key]>>
  <2>1. x \in P /\ x[1] = p[key] /\ x[2] = q[key]
    BY <1>2, <1>9
  <2> HIDE DEF x, P
  <2> QED BY <1>5, <2>1
<1> QED BY <1>5, <1>7, <1>8, <1>9 DEF h

\* An object is observed where one of its boards was measured.
LEMMA ObjectObserved ==
    /\ \A d \in Init3DObjectObs :
          /\ d[3] \in DOMAIN object_3d
          /\ \E e \in kept : e[3] \in BoardsOf(d[3]) /\ d = <<e[1], e[2], d[3]>>
    /\ \A e \in kept, o \in DOMAIN object_3d :
          e[3] \in BoardsOf(o) => <<e[1], e[2], o>> \in Init3DObjectObs
<1>1. ASSUME NEW d \in Init3DObjectObs
      PROVE  /\ d[3] \in DOMAIN object_3d
             /\ \E e \in kept : e[3] \in BoardsOf(d[3]) /\ d = <<e[1], e[2], d[3]>>
  <2>1. PICK o \in DOMAIN object_3d :
             d \in {<<x[1], x[2], o>> : x \in {e \in kept : e[3] \in BoardsOf(o)}}
    BY DEF Init3DObjectObs
  <2>2. PICK e \in kept : e[3] \in BoardsOf(o) /\ d = <<e[1], e[2], o>>
    BY <2>1
  <2> QED BY <2>2
<1>2. ASSUME NEW e \in kept, NEW o \in DOMAIN object_3d, e[3] \in BoardsOf(o)
      PROVE  <<e[1], e[2], o>> \in Init3DObjectObs
  BY <1>2 DEF Init3DObjectObs
<1> QED BY <1>1, <1>2

\* A group observes what one of its cameras does.
LEMMA GroupObserved ==
    /\ \A d \in InitCameraGroupObs :
          /\ d[1] \in DOMAIN cam_group
          /\ \E e \in object_observations :
                e[1] \in CamsOf(d[1]) /\ d = <<d[1], e[2], e[1], e[3]>>
    /\ \A e \in object_observations, g \in DOMAIN cam_group :
          e[1] \in CamsOf(g) => <<g, e[2], e[1], e[3]>> \in InitCameraGroupObs
<1>1. ASSUME NEW d \in InitCameraGroupObs
      PROVE  /\ d[1] \in DOMAIN cam_group
             /\ \E e \in object_observations :
                   e[1] \in CamsOf(d[1]) /\ d = <<d[1], e[2], e[1], e[3]>>
  <2>1. PICK g \in DOMAIN cam_group :
             d \in {<<g, x[2], x[1], x[3]>> :
                       x \in {e \in object_observations : e[1] \in CamsOf(g)}}
    BY DEF InitCameraGroupObs
  <2>2. PICK e \in object_observations :
             e[1] \in CamsOf(g) /\ d = <<g, e[2], e[1], e[3]>>
    BY <2>1
  <2> QED BY <2>2
<1>2. ASSUME NEW e \in object_observations, NEW g \in DOMAIN cam_group, e[1] \in CamsOf(g)
      PROVE  <<g, e[2], e[1], e[3]>> \in InitCameraGroupObs
  BY <1>2 DEF InitCameraGroupObs
<1> QED BY <1>1, <1>2

\* The cameras and boards of the detections are numbers, finitely many.
LEMMA SeenNumbers ==
    ASSUME Sizes
    PROVE  /\ \A d \in seen : d[1] \in 0 .. NbCamera - 1 /\ d[3] \in 0 .. NbBoard - 1
           /\ {d[1] : d \in seen} \in SUBSET Nat /\ IsFiniteSet({d[1] : d \in seen})
           /\ {d[3] : d \in seen} \in SUBSET Nat /\ IsFiniteSet({d[3] : d \in seen})
<1> DEFINE C == {d[1] : d \in seen}
           B == {d[3] : d \in seen}
<1>1. \A d \in seen : d[1] \in 0 .. NbCamera - 1 /\ d[3] \in 0 .. NbBoard - 1
  BY DEF Sizes, Detections
<1>2. C \subseteq 0 .. NbCamera - 1 /\ B \subseteq 0 .. NbBoard - 1
  BY <1>1
<1>3. IsFiniteSet(0 .. NbCamera - 1) /\ IsFiniteSet(0 .. NbBoard - 1)
  BY SizesAssumption, FS_Interval
<1>4. 0 .. NbCamera - 1 \subseteq Nat /\ 0 .. NbBoard - 1 \subseteq Nat
  BY SizesAssumption
<1> HIDE DEF C, B
<1>5. IsFiniteSet(C) /\ IsFiniteSet(B) /\ C \in SUBSET Nat /\ B \in SUBSET Nat
  BY <1>2, <1>3, <1>4, FS_Subset
<1> QED BY <1>1, <1>5 DEF C, B

\* When init3DObjects reads the graph of the boards: it has the boards seen,
\* and an edge for two boards of one image.
LEMMA BoardsGraph ==
    ASSUME Sizes, PairGraphs, step = 3
    PROVE  /\ IsGraph(covis_boards_graph)
           /\ Vertices(covis_boards_graph) = {d[3] : d \in seen}
           /\ \A e \in covis_boards_graph.edge : \E p, q \in seen :
                 p[3] = e[1] /\ q[3] = e[2] /\ e[1] # e[2] /\ Alike(p, q, {1, 2})
           /\ \A p, q \in seen : p[3] # q[3] /\ Alike(p, q, {1, 2}) =>
                 \E e \in covis_boards_graph.edge : e[1] = p[3] /\ e[2] = q[3]
           /\ \A e \in covis_boards_graph.edge :
                 /\ <<e[1], e[2]>> \in DOMAIN board_pose_pairs
                 /\ <<e[2], e[1]>> \in DOMAIN board_pose_pairs
<1> DEFINE S == {d[3] : d \in seen}
<1>1. /\ DOMAIN board_pose_pairs = Pairs(seen, 3, {1, 2})
      /\ covis_boards_graph = BuildGraph(S, board_pose_pairs)
  BY DEF PairGraphs
<1>2. S \in SUBSET Nat /\ IsFiniteSet(S) /\ \A d \in seen : d[3] \in S
  BY SeenNumbers
<1> HIDE DEF S
<1>3. /\ IsGraph(covis_boards_graph)
      /\ Vertices(covis_boards_graph) = S
      /\ \A e \in covis_boards_graph.edge : \E p, q \in seen :
            p[3] = e[1] /\ q[3] = e[2] /\ e[1] # e[2] /\ Alike(p, q, {1, 2})
      /\ \A p, q \in seen : p[3] # q[3] /\ Alike(p, q, {1, 2}) =>
            \E e \in covis_boards_graph.edge : e[1] = p[3] /\ e[2] = q[3]
      /\ \A e \in covis_boards_graph.edge :
            /\ <<e[1], e[2]>> \in DOMAIN board_pose_pairs
            /\ <<e[2], e[1]>> \in DOMAIN board_pose_pairs
  BY <1>1, <1>2, ObservationGraph
<1> QED BY <1>3 DEF S

\* The graph of the cameras has those that saw a board, and an edge for two
\* that observe one object in one frame.
LEMMA CamerasGraph ==
    ASSUME Sizes, PairGraphs, Fresh, step = 7
    PROVE  /\ IsGraph(covis_camera_graph)
           /\ Vertices(covis_camera_graph) = {d[1] : d \in seen}
           /\ \A e \in covis_camera_graph.edge : \E p, q \in object_observations :
                 p[1] = e[1] /\ q[1] = e[2] /\ e[1] # e[2] /\ Alike(p, q, {2, 3})
           /\ \A p, q \in object_observations : p[1] # q[1] /\ Alike(p, q, {2, 3}) =>
                 \E e \in covis_camera_graph.edge : e[1] = p[1] /\ e[2] = q[1]
<1> DEFINE S == {d[1] : d \in seen}
<1>1. /\ DOMAIN camera_pose_pairs = Pairs(object_observations, 1, {2, 3})
      /\ covis_camera_graph = BuildGraph(S, camera_pose_pairs)
  BY DEF PairGraphs
<1>2. S \in SUBSET Nat /\ IsFiniteSet(S)
  BY SeenNumbers
<1>3. \A d \in object_observations : d[1] \in S
  BY DEF Fresh, Sizes
<1> HIDE DEF S
<1>4. /\ IsGraph(covis_camera_graph)
      /\ Vertices(covis_camera_graph) = S
      /\ \A e \in covis_camera_graph.edge : \E p, q \in object_observations :
            p[1] = e[1] /\ q[1] = e[2] /\ e[1] # e[2] /\ Alike(p, q, {2, 3})
      /\ \A p, q \in object_observations : p[1] # q[1] /\ Alike(p, q, {2, 3}) =>
            \E e \in covis_camera_graph.edge : e[1] = p[1] /\ e[2] = q[1]
  BY <1>1, <1>2, <1>3, ObservationGraph
<1> QED BY <1>4 DEF S

\* The graph of the objects has those observed, and an edge for two that one
\* group observes in one frame.
LEMMA ObjectsGraph ==
    ASSUME Shape, step \in {12, 23}
    PROVE  /\ IsGraph(covis_objects_graph)
           /\ Vertices(covis_objects_graph) = {d[3] : d \in object_observations}
           /\ Vertices(covis_objects_graph) \subseteq DOMAIN object_3d
           /\ \A e \in covis_objects_graph.edge : \E p, q \in cams_group_obs :
                 p[4] = e[1] /\ q[4] = e[2] /\ e[1] # e[2] /\ Alike(p, q, {1, 2})
           /\ \A p, q \in cams_group_obs : p[4] # q[4] /\ Alike(p, q, {1, 2}) =>
                 \E e \in covis_objects_graph.edge : e[1] = p[4] /\ e[2] = q[4]
           /\ \A e \in covis_objects_graph.edge :
                 /\ <<e[1], e[2]>> \in DOMAIN object_pose_pairs
                 /\ <<e[2], e[1]>> \in DOMAIN object_pose_pairs
<1> DEFINE S == {d[3] : d \in object_observations}
<1>1. /\ DOMAIN object_pose_pairs = Pairs(cams_group_obs, 4, {1, 2})
      /\ covis_objects_graph = BuildGraph(S, object_pose_pairs)
  BY DEF Shape, PairGraphs
<1>2. object_observations = Init3DObjectObs /\ cams_group_obs = InitCameraGroupObs
  BY DEF Shape, Fresh
<1>3. S \subseteq DOMAIN object_3d
  BY <1>2, ObjectObserved
<1>4. S \in SUBSET Nat /\ IsFiniteSet(S)
  <2>1. PICK n \in Nat : DOMAIN object_3d = 0 .. n - 1
    BY DEF Shape, Objects
  <2>2. IsFiniteSet(0 .. n - 1) /\ 0 .. n - 1 \subseteq Nat
    BY FS_Interval
  <2> HIDE DEF S
  <2> QED BY <1>3, <2>1, <2>2, FS_Subset
<1>5. \A d \in cams_group_obs : d[4] \in S
  <2> TAKE d \in cams_group_obs
  <2>1. PICK e \in object_observations : d = <<d[1], e[2], e[1], e[3]>>
    BY <1>2, GroupObserved
  <2> QED BY <2>1
<1> HIDE DEF S
<1>6. /\ IsGraph(covis_objects_graph)
      /\ Vertices(covis_objects_graph) = S
      /\ \A e \in covis_objects_graph.edge : \E p, q \in cams_group_obs :
            p[4] = e[1] /\ q[4] = e[2] /\ e[1] # e[2] /\ Alike(p, q, {1, 2})
      /\ \A p, q \in cams_group_obs : p[4] # q[4] /\ Alike(p, q, {1, 2}) =>
            \E e \in covis_objects_graph.edge : e[1] = p[4] /\ e[2] = q[4]
      /\ \A e \in covis_objects_graph.edge :
            /\ <<e[1], e[2]>> \in DOMAIN object_pose_pairs
            /\ <<e[2], e[1]>> \in DOMAIN object_pose_pairs
  BY <1>1, <1>4, <1>5, ObservationGraph
<1> QED BY <1>3, <1>6 DEF S

\* The graph of the groups has those that observe something, groups that were
\* posed, and an edge for each pose.
LEMMA GroupsGraph ==
    ASSUME Shape, step \in {18, 27}
    PROVE  /\ IsGraph(no_overlap_camgroup_graph)
           /\ {d[1] : d \in cams_group_obs} \subseteq Vertices(no_overlap_camgroup_graph)
           /\ \A p \in DOMAIN no_overlap_pair :
                 \E e \in no_overlap_camgroup_graph.edge : e[1] = p[1] /\ e[2] = p[2]
           /\ \A e \in no_overlap_camgroup_graph.edge :
                 <<e[1], e[2]>> \in DOMAIN no_overlap_pair
           /\ step = 18 => Vertices(no_overlap_camgroup_graph) \subseteq DOMAIN cam_group
<1> DEFINE S == {d[1] : d \in cams_group_obs}
           counts == [p \in DOMAIN no_overlap_pair |-> no_overlap_pair[p].cnt]
           P == DOMAIN no_overlap_pair
<1>1. no_overlap_camgroup_graph = BuildGraph(S, counts)
  BY DEF Shape, GroupGraph
<1>2. DOMAIN counts = P
  OBVIOUS
<1>3. P \in SUBSET (Nat \X Nat) /\ IsFiniteSet(P)
  BY DEF Shape, GroupGraph
<1>4. cams_group_obs = InitCameraGroupObs
  BY DEF Shape, Fresh
<1>5. S \subseteq DOMAIN cam_group
  BY <1>4, GroupObserved
<1>6. S \in SUBSET Nat /\ IsFiniteSet(S)
  <2>1. PICK n \in Nat : DOMAIN cam_group = 0 .. n - 1
    BY DEF Shape, Groups
  <2>2. IsFiniteSet(0 .. n - 1) /\ 0 .. n - 1 \subseteq Nat
    BY FS_Interval
  <2> HIDE DEF S
  <2> QED BY <1>5, <2>1, <2>2, FS_Subset
<1>9. step = 18 => \A p \in P : p[1] \in DOMAIN cam_group /\ p[2] \in DOMAIN cam_group
  BY DEF Shape, GroupGraph, GroupPairs
<1> HIDE DEF S, counts, P
<1> DEFINE h == BuildGraph(S, counts)
<1>7. /\ IsGraph(h)
      /\ Vertices(h) = S \cup UNION {{p[1], p[2]} : p \in P}
      /\ \A p \in P : \E e \in h.edge : e[1] = p[1] /\ e[2] = p[2]
      /\ \A e \in h.edge : <<e[1], e[2]>> \in P
  BY <1>2, <1>3, <1>6, GraphBuilt
<1> HIDE DEF h
<1>8. /\ IsGraph(h) /\ S \subseteq Vertices(h)
      /\ \A p \in P : \E e \in h.edge : e[1] = p[1] /\ e[2] = p[2]
      /\ \A e \in h.edge : <<e[1], e[2]>> \in P
  BY <1>7
<1>10. step = 18 => Vertices(h) \subseteq DOMAIN cam_group
  BY <1>5, <1>7, <1>9
<1> QED BY <1>1, <1>8, <1>10 DEF h, S, P

-----------------------------------------------------------------------------
(* Objects and groups keep their shape.                                    *)

\* What init3DObjects makes.
LEMMA ObjectsMade ==
    ASSUME Init3DObjects, NEW comp, comp = ConnectedComponents(covis_boards_graph)
    PROVE  /\ DOMAIN object_3d' = 0 .. Len(comp) - 1
           /\ \A i \in 0 .. Len(comp) - 1 : /\ BoardsOf(i)' = comp[i + 1]
                                            /\ object_3d'[i].ref = Min(comp[i + 1])
<1>1. PICK route \in Routes(covis_boards_graph) :
          object_3d' =
             [i \in 0 .. Len(comp) - 1 |->
                 [ref  |-> Min(comp[i + 1]),
                  pose |-> [b \in comp[i + 1] |->
                              Along(Min(comp[i + 1]), route[b],
                                    [p \in DOMAIN board_pose_pairs |->
                                        Inverted(Map(p[1], p[2]))])]]]
  BY DEF Init3DObjects
<1> QED BY <1>1 DEF BoardsOf

\* init3DObjects makes objects of the right shape.
LEMMA InitialObjects ==
    ASSUME Shape, Init3DObjects, step = 3, step' = 4, kept' = kept
    PROVE  Objects'
<1> DEFINE h == covis_boards_graph
           comp == ConnectedComponents(h)
           n == Len(comp)
<1>1. /\ DOMAIN object_3d' = 0 .. n - 1
      /\ \A i \in 0 .. n - 1 : BoardsOf(i)' = comp[i + 1] /\ object_3d'[i].ref = Min(comp[i + 1])
  BY ObjectsMade
<1>2. IsGraph(h) /\ Vertices(h) = {d[3] : d \in seen}
  BY BoardsGraph DEF Shape
<1>3. \A v \in Vertices(h) : v \in 0 .. NbBoard - 1
  BY <1>2, SeenNumbers DEF Shape
<1>4. \A d \in kept : d[3] \in Vertices(h)
  BY <1>2 DEF Shape, Sizes
<1> HIDE DEF h
<1>5. /\ n \in Nat
      /\ \A i \in 0 .. n - 1 : comp[i + 1] \subseteq Vertices(h) /\ Min(comp[i + 1]) \in comp[i + 1]
      /\ \A v \in Vertices(h) : \E i \in 0 .. n - 1 : v \in comp[i + 1]
      /\ \A i, j \in 0 .. n - 1 : comp[i + 1] \cap comp[j + 1] # {} => i = j
  BY <1>2, ComponentsDivide
<1> HIDE DEF n, comp
<1>6. \A i \in 0 .. n - 1 : object_3d'[i] # NullObject
  <2>1. \A i \in 0 .. n - 1 : DOMAIN object_3d'[i].pose # {}
    BY <1>1, <1>5 DEF BoardsOf
  <2>2. NullObject.pose = << >> /\ DOMAIN << >> = {}
    BY DEF NullObject
  <2> QED BY <2>1, <2>2
<1>7. \A o \in DOMAIN object_3d' : BoardsOf(o)' \subseteq 0 .. NbBoard - 1
                                   /\ object_3d'[o].ref \in BoardsOf(o)'
  BY <1>1, <1>3, <1>5
<1>8. \A o, p \in DOMAIN object_3d' : BoardsOf(o)' \cap BoardsOf(p)' # {} => o = p
  BY <1>1, <1>5
<1>9. ASSUME NEW d \in kept'
      PROVE  \E o \in DOMAIN object_3d' : d[3] \in BoardsOf(o)'
  <2>1. PICK i \in 0 .. n - 1 : d[3] \in comp[i + 1]
    BY <1>4, <1>5
  <2> QED BY <1>1, <2>1
<1> QED BY <1>1, <1>5, <1>6, <1>7, <1>8, <1>9 DEF Objects

\* What mergeObjects makes.
LEMMA ObjectsMerged ==
    ASSUME MergeObjects, NEW comp, comp = ConnectedComponents(covis_objects_graph)
    PROVE  /\ DOMAIN object_3d' = 0 .. Len(comp) - 1
           /\ \A i \in 0 .. Len(comp) - 1 :
                 /\ BoardsOf(i)' = UNION {BoardsOf(o) : o \in comp[i + 1]}
                 /\ object_3d'[i].ref = object_3d[Min(comp[i + 1])].ref
<1> DEFINE Ref(o) == object_3d[o].ref
           hop == [p \in DOMAIN object_pose_pairs |-> Inverted(Map(Ref(p[1]), Ref(p[2])))]
           Holder(b) == CHOOSE o \in DOMAIN object_3d : b \in BoardsOf(o)
<1> DEFINE made(cc, route) ==
             [i \in 0 .. Len(cc) - 1 |->
                 [ref  |-> Ref(Min(cc[i + 1])),
                  pose |-> [b \in UNION {BoardsOf(o) : o \in cc[i + 1]} |->
                              Compose(Along(Ref(Min(cc[i + 1])), route[Holder(b)], hop),
                                      object_3d[Holder(b)].pose[b])]]]
<1>1. PICK route \in Routes(covis_objects_graph) :
          object_3d' = made(ConnectedComponents(covis_objects_graph), route)
  BY Zenon DEF MergeObjects
<1>2. object_3d' = made(comp, route)
  BY <1>1
<1> HIDE DEF hop, Holder
<1> QED BY <1>2 DEF BoardsOf

\* mergeObjects keeps the shape of the objects and loses no measured board.
LEMMA MergedObjects ==
    ASSUME Shape, MergeObjects, step \in {12, 23}, step' = step + 1, kept' = kept
    PROVE  Objects'
<1> DEFINE h == covis_objects_graph
           comp == ConnectedComponents(h)
           n == Len(comp)
<1>1. /\ DOMAIN object_3d' = 0 .. n - 1
      /\ \A i \in 0 .. n - 1 :
            /\ BoardsOf(i)' = UNION {BoardsOf(o) : o \in comp[i + 1]}
            /\ object_3d'[i].ref = object_3d[Min(comp[i + 1])].ref
  BY ObjectsMerged
<1>2. IsGraph(h) /\ Vertices(h) = {d[3] : d \in object_observations}
      /\ Vertices(h) \subseteq DOMAIN object_3d
  BY ObjectsGraph
<1> HIDE DEF h
<1>5. /\ n \in Nat
      /\ \A i \in 0 .. n - 1 : comp[i + 1] \subseteq Vertices(h) /\ Min(comp[i + 1]) \in comp[i + 1]
      /\ \A v \in Vertices(h) : \E i \in 0 .. n - 1 : v \in comp[i + 1]
      /\ \A i, j \in 0 .. n - 1 : comp[i + 1] \cap comp[j + 1] # {} => i = j
  BY <1>2, ComponentsDivide
<1> HIDE DEF n, comp
<1>3. \A o \in DOMAIN object_3d : /\ BoardsOf(o) \subseteq 0 .. NbBoard - 1
                                  /\ object_3d[o].ref \in BoardsOf(o)
  BY DEF Shape, Objects
<1>4. \A o, p \in DOMAIN object_3d : BoardsOf(o) \cap BoardsOf(p) # {} => o = p
  BY DEF Shape, Objects
<1>6. ASSUME NEW i \in 0 .. n - 1
      PROVE  /\ BoardsOf(i)' \subseteq 0 .. NbBoard - 1
             /\ object_3d'[i].ref \in BoardsOf(i)'
             /\ object_3d'[i] # NullObject
  <2>1. BoardsOf(i)' \subseteq 0 .. NbBoard - 1
    BY <1>1, <1>2, <1>3, <1>5
  <2>2. object_3d'[i].ref \in BoardsOf(i)'
    <3>1. Min(comp[i + 1]) \in comp[i + 1] /\ Min(comp[i + 1]) \in DOMAIN object_3d
      BY <1>2, <1>5
    <3> QED BY <1>1, <1>3, <3>1
  <2>3. DOMAIN object_3d'[i].pose # {}
    BY <2>2 DEF BoardsOf
  <2>4. NullObject.pose = << >> /\ DOMAIN << >> = {}
    BY DEF NullObject
  <2> QED BY <2>1, <2>2, <2>3, <2>4
<1>7. ASSUME NEW i \in 0 .. n - 1, NEW j \in 0 .. n - 1, BoardsOf(i)' \cap BoardsOf(j)' # {}
      PROVE  i = j
  <2>1. PICK b : b \in BoardsOf(i)' /\ b \in BoardsOf(j)'
    BY <1>7
  <2>2. PICK o \in comp[i + 1] : b \in BoardsOf(o)
    BY <1>1, <2>1
  <2>3. PICK p \in comp[j + 1] : b \in BoardsOf(p)
    BY <1>1, <2>1
  <2>4. o = p
    BY <1>2, <1>4, <1>5, <2>2, <2>3
  <2> QED BY <1>5, <2>2, <2>3, <2>4
<1>8. ASSUME NEW d \in kept
      PROVE  \E i \in 0 .. n - 1 : d[3] \in BoardsOf(i)'
  <2>1. PICK o \in DOMAIN object_3d : d[3] \in BoardsOf(o)
    BY DEF Shape, Objects
  <2>2. <<d[1], d[2], o>> \in object_observations
    BY <2>1, ObjectObserved DEF Shape, Fresh
  <2>3. o \in Vertices(h)
    <3> DEFINE t == <<d[1], d[2], o>>
    <3>1. t \in object_observations /\ t[3] = o
      BY <2>2
    <3> HIDE DEF t
    <3> QED BY <1>2, <3>1
  <2>4. PICK i \in 0 .. n - 1 : o \in comp[i + 1]
    BY <1>5, <2>3
  <2> QED BY <1>1, <2>1, <2>4
<1>9. \A o \in DOMAIN object_3d' : BoardsOf(o)' \subseteq 0 .. NbBoard - 1
                                   /\ object_3d'[o].ref \in BoardsOf(o)'
                                   /\ object_3d'[o] # NullObject
  BY <1>1, <1>6
<1>10. \A o, p \in DOMAIN object_3d' : BoardsOf(o)' \cap BoardsOf(p)' # {} => o = p
  BY <1>1, <1>7
<1>11. \A d \in kept' : \E o \in DOMAIN object_3d' : d[3] \in BoardsOf(o)'
  BY <1>1, <1>8
<1> QED BY <1>1, <1>5, <1>9, <1>10, <1>11 DEF Objects

\* What initCameraGroup makes.
LEMMA GroupsMade ==
    ASSUME InitCameraGroup, NEW comp, comp = ConnectedComponents(covis_camera_graph)
    PROVE  /\ DOMAIN cam_group' = 0 .. Len(comp) - 1
           /\ \A i \in 0 .. Len(comp) - 1 : /\ CamsOf(i)' = comp[i + 1]
                                            /\ cam_group'[i].ref = Min(comp[i + 1])
<1>1. PICK route \in Routes(covis_camera_graph) :
          cam_group' =
             [i \in 0 .. Len(comp) - 1 |->
                 [ref  |-> Min(comp[i + 1]),
                  pose |-> [c \in comp[i + 1] |->
                              Along(Min(comp[i + 1]), route[c],
                                    [p \in DOMAIN camera_pose_pairs |-> Map(p[1], p[2])])]]]
  BY DEF InitCameraGroup
<1> QED BY <1>1 DEF CamsOf

\* initCameraGroup makes groups of the right shape.
LEMMA InitialGroups ==
    ASSUME Shape, InitCameraGroup, step = 7, step' = 8, kept' = kept
    PROVE  Groups'
<1> DEFINE h == covis_camera_graph
           comp == ConnectedComponents(h)
           n == Len(comp)
<1>1. /\ DOMAIN cam_group' = 0 .. n - 1
      /\ \A i \in 0 .. n - 1 : CamsOf(i)' = comp[i + 1] /\ cam_group'[i].ref = Min(comp[i + 1])
  BY GroupsMade
<1>2. IsGraph(h) /\ Vertices(h) = {d[1] : d \in seen}
  BY CamerasGraph DEF Shape
<1>3. \A v \in Vertices(h) : v \in 0 .. NbCamera - 1
  BY <1>2, SeenNumbers DEF Shape
<1>4. \A d \in kept : d[1] \in Vertices(h)
  BY <1>2 DEF Shape, Sizes
<1> HIDE DEF h
<1>5. /\ n \in Nat
      /\ \A i \in 0 .. n - 1 : comp[i + 1] \subseteq Vertices(h) /\ Min(comp[i + 1]) \in comp[i + 1]
      /\ \A v \in Vertices(h) : \E i \in 0 .. n - 1 : v \in comp[i + 1]
      /\ \A i, j \in 0 .. n - 1 : comp[i + 1] \cap comp[j + 1] # {} => i = j
  BY <1>2, ComponentsDivide
<1> HIDE DEF n, comp
<1>6. \A g \in DOMAIN cam_group' : CamsOf(g)' \subseteq 0 .. NbCamera - 1
                                   /\ cam_group'[g].ref \in CamsOf(g)'
  BY <1>1, <1>3, <1>5
<1>7. \A o, p \in DOMAIN cam_group' : CamsOf(o)' \cap CamsOf(p)' # {} => o = p
  BY <1>1, <1>5
<1>8. ASSUME NEW d \in kept'
      PROVE  \E o \in DOMAIN cam_group' : d[1] \in CamsOf(o)'
  <2>1. PICK i \in 0 .. n - 1 : d[1] \in comp[i + 1]
    BY <1>4, <1>5
  <2> QED BY <1>1, <2>1
<1> QED BY <1>1, <1>5, <1>6, <1>7, <1>8 DEF Groups

\* What mergeCameraGroup makes.
LEMMA GroupsMerged ==
    ASSUME MergeCameraGroup, NEW comp,
           comp = ConnectedComponents(no_overlap_camgroup_graph)
    PROVE  /\ DOMAIN cam_group' = 0 .. Len(comp) - 1
           /\ \A i \in 0 .. Len(comp) - 1 :
                 /\ CamsOf(i)' = UNION {CamsOf(g) : g \in comp[i + 1] \cap DOMAIN cam_group}
                 /\ cam_group'[i].ref = cam_group[Min(comp[i + 1])].ref
           /\ \A i \in DOMAIN comp : Min(comp[i]) \in DOMAIN cam_group
<1> DEFINE hop == [p \in DOMAIN no_overlap_pair |-> no_overlap_pair[p].pose]
           Holder(c) == CHOOSE g \in DOMAIN cam_group : c \in CamsOf(g)
           made(cc, route) ==
             [i \in 0 .. Len(cc) - 1 |->
                 [ref  |-> cam_group[Min(cc[i + 1])].ref,
                  pose |-> [c \in UNION {CamsOf(g) : g \in cc[i + 1] \cap DOMAIN cam_group} |->
                              Compose(cam_group[Holder(c)].pose[c],
                                      Along(cam_group[Min(cc[i + 1])].ref,
                                            route[Holder(c)], hop))]]]
<1>1. PICK route \in Routes(no_overlap_camgroup_graph) :
          cam_group' = made(ConnectedComponents(no_overlap_camgroup_graph), route)
  BY Zenon DEF MergeCameraGroup
<1>2. cam_group' = made(comp, route)
  BY <1>1
<1>3. \A i \in DOMAIN comp : Min(comp[i]) \in DOMAIN cam_group
  BY DEF MergeCameraGroup, GroupsExist
<1> HIDE DEF hop, Holder
<1> QED BY <1>2, <1>3 DEF CamsOf

\* mergeCameraGroup keeps the shape of the groups and loses no measuring camera.
LEMMA MergedGroups ==
    ASSUME Shape, MergeCameraGroup, step \in {18, 27}, step' = step + 1, kept' = kept
    PROVE  Groups'
<1> DEFINE h == no_overlap_camgroup_graph
           comp == ConnectedComponents(h)
           n == Len(comp)
<1>1. /\ DOMAIN cam_group' = 0 .. n - 1
      /\ \A i \in 0 .. n - 1 :
            /\ CamsOf(i)' = UNION {CamsOf(g) : g \in comp[i + 1] \cap DOMAIN cam_group}
            /\ cam_group'[i].ref = cam_group[Min(comp[i + 1])].ref
      /\ \A i \in DOMAIN comp : Min(comp[i]) \in DOMAIN cam_group
  BY GroupsMerged
<1>2. IsGraph(h) /\ {d[1] : d \in cams_group_obs} \subseteq Vertices(h)
  BY GroupsGraph
<1> HIDE DEF h
<1>5. /\ n \in Nat
      /\ \A i \in 0 .. n - 1 : comp[i + 1] \subseteq Vertices(h) /\ Min(comp[i + 1]) \in comp[i + 1]
      /\ \A v \in Vertices(h) : \E i \in 0 .. n - 1 : v \in comp[i + 1]
      /\ \A i, j \in 0 .. n - 1 : comp[i + 1] \cap comp[j + 1] # {} => i = j
  BY <1>2, ComponentsDivide
<1>10. DOMAIN comp = 1 .. n
  BY <1>2, ComponentsNumbered
<1> HIDE DEF n, comp
<1>3. \A g \in DOMAIN cam_group : /\ CamsOf(g) \subseteq 0 .. NbCamera - 1
                                  /\ cam_group[g].ref \in CamsOf(g)
  BY DEF Shape, Groups
<1>4. \A g, k \in DOMAIN cam_group : CamsOf(g) \cap CamsOf(k) # {} => g = k
  BY DEF Shape, Groups
<1>6. ASSUME NEW i \in 0 .. n - 1
      PROVE  /\ CamsOf(i)' \subseteq 0 .. NbCamera - 1
             /\ cam_group'[i].ref \in CamsOf(i)'
  <2>1. CamsOf(i)' \subseteq 0 .. NbCamera - 1
    BY <1>1, <1>3
  <2>2. i + 1 \in DOMAIN comp
    BY <1>5, <1>10
  <2>3. Min(comp[i + 1]) \in comp[i + 1] \cap DOMAIN cam_group
    BY <1>1, <1>5, <2>2
  <2> QED BY <1>1, <1>3, <2>1, <2>3
<1>7. ASSUME NEW i \in 0 .. n - 1, NEW j \in 0 .. n - 1, CamsOf(i)' \cap CamsOf(j)' # {}
      PROVE  i = j
  <2>1. PICK c : c \in CamsOf(i)' /\ c \in CamsOf(j)'
    BY <1>7
  <2>2. PICK g \in comp[i + 1] \cap DOMAIN cam_group : c \in CamsOf(g)
    BY <1>1, <2>1
  <2>3. PICK k \in comp[j + 1] \cap DOMAIN cam_group : c \in CamsOf(k)
    BY <1>1, <2>1
  <2>4. g = k
    BY <1>4, <2>2, <2>3
  <2> QED BY <1>5, <2>2, <2>3, <2>4
<1>8. ASSUME NEW d \in kept
      PROVE  \E i \in 0 .. n - 1 : d[1] \in CamsOf(i)'
  <2>1. PICK g \in DOMAIN cam_group : d[1] \in CamsOf(g)
    BY DEF Shape, Groups
  <2>2. PICK o \in DOMAIN object_3d : d[3] \in BoardsOf(o)
    BY DEF Shape, Objects
  <2> DEFINE e == <<d[1], d[2], o>>
             t == <<g, d[2], d[1], o>>
  <2>3. e \in object_observations /\ e[1] = d[1] /\ e[2] = d[2] /\ e[3] = o
    BY <2>2, ObjectObserved DEF Shape, Fresh
  <2>4. t = <<g, e[2], e[1], e[3]>> /\ t[1] = g
    BY <2>3
  <2> HIDE DEF e, t
  <2>5. t \in cams_group_obs
    BY <2>1, <2>3, <2>4, GroupObserved DEF Shape, Fresh
  <2>6. g \in Vertices(h)
    BY <1>2, <2>4, <2>5
  <2>7. PICK i \in 0 .. n - 1 : g \in comp[i + 1]
    BY <1>5, <2>6
  <2> QED BY <1>1, <2>1, <2>7
<1>9. \A g \in DOMAIN cam_group' : CamsOf(g)' \subseteq 0 .. NbCamera - 1
                                   /\ cam_group'[g].ref \in CamsOf(g)'
  BY <1>1, <1>6
<1>11. \A g, k \in DOMAIN cam_group' : CamsOf(g)' \cap CamsOf(k)' # {} => g = k
  BY <1>1, <1>7
<1>12. \A d \in kept' : \E g \in DOMAIN cam_group' : d[1] \in CamsOf(g)'
  BY <1>1, <1>8
<1> QED BY <1>1, <1>5, <1>9, <1>11, <1>12 DEF Groups

\* Every call keeps the shape of the groups.
LEMMA GroupsStay ==
    ASSUME Shape, [Next]_vars
    PROVE  Groups'
<1>1. /\ Sizes /\ Groups /\ kept' = kept /\ step \in 1 .. 30
      /\ step' = step \/ (step \in 1 .. 29 /\ step' = step + 1)
  BY StepsCount DEF Shape, Sizes
<1>2. CASE InitCameraGroup
  <2>1. step = 7 /\ step' = 8
    BY <1>1, <1>2, CallPlaces DEF InitCameraGroup, Call
  <2> QED BY <1>1, <1>2, <2>1, InitialGroups
<1>3. CASE MergeCameraGroup
  <2>1. step \in {18, 27} /\ step' = step + 1
    BY <1>1, <1>3, CallPlaces DEF MergeCameraGroup, Call
  <2> QED BY <1>1, <1>3, <2>1, MergedGroups
<1>4. CASE cam_group' = cam_group /\ ~InitCameraGroup
  <2>1. step' # 8 \/ step = 8
    BY <1>1, <1>4, StepCalls
  <2>2. \A g : CamsOf(g)' = CamsOf(g)
    BY <1>4 DEF CamsOf
  <2>3. step' < 8 => step < 8
    BY <1>1
  <2>4. step' >= 8 => step >= 8
    BY <1>1, <2>1
  <2> QED BY <1>1, <1>4, <2>2, <2>3, <2>4 DEF Groups
<1> QED BY <1>2, <1>3, <1>4, Changes

-----------------------------------------------------------------------------
(* The pairs of objects of the hand-eye calibration.                       *)

\* Detections are finitely many.
LEMMA TriplesFinite ==
    ASSUME NEW A, NEW B, NEW C, IsFiniteSet(A), IsFiniteSet(B), IsFiniteSet(C)
    PROVE  IsFiniteSet(A \X B \X C)
<1> DEFINE S == (A \X B) \X C
           T == A \X B \X C
           f == [x \in S |-> <<x[1][1], x[1][2], x[2]>>]
<1>1. IsFiniteSet(S)
  BY FS_Product
<1>2. f \in [S -> T]
  OBVIOUS
<1>3. ASSUME NEW t \in T
      PROVE  \E x \in S : f[x] = t
  <2> DEFINE x == <<<<t[1], t[2]>>, t[3]>>
  <2>1. x \in S /\ f[x] = t
    OBVIOUS
  <2> QED BY <2>1
<1>4. f \in Surjection(S, T)
  <2> HIDE DEF f, S, T
  <2> QED BY <1>2, <1>3 DEF Surjection
<1> HIDE DEF f, S
<1> QED BY <1>1, <1>4, FS_Surjection

\* So are the observations of the groups.
LEMMA QuadruplesFinite ==
    ASSUME NEW A, NEW B, NEW C, NEW D,
           IsFiniteSet(A), IsFiniteSet(B), IsFiniteSet(C), IsFiniteSet(D)
    PROVE  IsFiniteSet(A \X B \X C \X D)
<1> DEFINE S == (A \X B \X C) \X D
           T == A \X B \X C \X D
           f == [x \in S |-> <<x[1][1], x[1][2], x[1][3], x[2]>>]
<1>1. IsFiniteSet(S)
  BY TriplesFinite, FS_Product
<1>2. f \in [S -> T]
  OBVIOUS
<1>3. ASSUME NEW t \in T
      PROVE  \E x \in S : f[x] = t
  <2> DEFINE x == <<<<t[1], t[2], t[3]>>, t[4]>>
  <2>1. x \in S /\ f[x] = t
    OBVIOUS
  <2> QED BY <2>1
<1>4. f \in Surjection(S, T)
  <2> HIDE DEF f, S, T
  <2> QED BY <1>2, <1>3 DEF Surjection
<1> HIDE DEF f, S
<1> QED BY <1>1, <1>4, FS_Surjection

\* The greatest of some counts that do not exceed a limit.
LEMMA GreatestCount ==
    ASSUME NEW T, T # {}, NEW limit \in Nat, NEW f \in [T -> 0 .. limit]
    PROVE  \E q \in T : \A r \in T : f[r] <= f[q]
<1> DEFINE gaps == {limit - f[q] : q \in T}
<1>1. gaps \in SUBSET Nat /\ gaps # {}
  OBVIOUS
<1>2. PICK x \in gaps : \A y \in gaps : x <= y
  <2> HIDE DEF gaps
  <2> QED BY <1>1, LeastNumber
<1>3. PICK q \in T : x = limit - f[q]
  BY <1>2
<1>4. ASSUME NEW r \in T
      PROVE  f[r] <= f[q]
  <2>1. limit - f[q] <= limit - f[r]
    BY <1>2, <1>3
  <2>2. f[r] \in Int /\ f[q] \in Int
    OBVIOUS
  <2> QED BY <2>1, <2>2
<1> QED BY <1>4

\* A set of pairs has one that std::map reads first.
LEMMA LeastPair ==
    ASSUME NEW T \in SUBSET (Nat \X Nat), T # {}
    PROVE  \E q \in T : \A r \in T : r = q \/ Before(q, r)
<1> DEFINE X == {q[1] : q \in T}
<1>1. X \in SUBSET Nat /\ X # {}
  OBVIOUS
<1>2. PICK x \in X : \A y \in X : x <= y
  <2> HIDE DEF X
  <2> QED BY <1>1, LeastNumber
<1> DEFINE Y == {q[2] : q \in {r \in T : r[1] = x}}
<1>3. Y \in SUBSET Nat /\ Y # {}
  BY <1>2
<1>4. PICK y \in Y : \A z \in Y : y <= z
  <2> HIDE DEF Y
  <2> QED BY <1>3, LeastNumber
<1>5. PICK q \in T : q[1] = x /\ q[2] = y
  BY <1>4
<1>6. ASSUME NEW r \in T, r # q
      PROVE  Before(q, r)
  <2>1. r[1] \in X /\ r[1] \in Nat /\ r[2] \in Nat /\ r = <<r[1], r[2]>>
    OBVIOUS
  <2>2. q[1] \in Nat /\ q[2] \in Nat /\ q = <<q[1], q[2]>>
    OBVIOUS
  <2>3. q[1] <= r[1]
    BY <1>2, <1>5, <2>1
  <2>4. CASE r[1] = q[1]
    <3>1. r[2] \in Y
      BY <1>5, <2>4
    <3>2. q[2] <= r[2]
      BY <1>4, <1>5, <3>1
    <3>3. q[2] # r[2]
      BY <1>6, <2>1, <2>2, <2>4
    <3> QED BY <2>1, <2>2, <2>4, <3>2, <3>3 DEF Before
  <2>5. CASE r[1] # q[1]
    BY <2>1, <2>2, <2>3, <2>5 DEF Before
  <2> QED BY <2>4, <2>5
<1> QED BY <1>6

\* The observations of the groups are finitely many and of existing objects.
LEMMA GroupObservations ==
    ASSUME Sizes, Objects, Groups, object_observations = Init3DObjectObs,
           cams_group_obs = InitCameraGroupObs
    PROVE  /\ IsFiniteSet(cams_group_obs)
           /\ \A d \in cams_group_obs : d[4] \in DOMAIN object_3d /\ d[4] \in Nat
<1> DEFINE A == DOMAIN cam_group
           B == 0 .. NbFrame - 1
           C == 0 .. NbCamera - 1
           D == DOMAIN object_3d
<1>1. IsFiniteSet(A) /\ IsFiniteSet(D) /\ D \subseteq Nat
  <2>1. PICK m \in Nat : A = 0 .. m - 1
    BY DEF Groups
  <2>2. PICK k \in Nat : D = 0 .. k - 1
    BY DEF Objects
  <2>3. IsFiniteSet(0 .. m - 1) /\ IsFiniteSet(0 .. k - 1) /\ 0 .. k - 1 \subseteq Nat
    BY FS_Interval
  <2> QED BY <2>1, <2>2, <2>3
<1>2. IsFiniteSet(B) /\ IsFiniteSet(C)
  BY SizesAssumption, FS_Interval
<1>3. ASSUME NEW d \in cams_group_obs
      PROVE  d \in A \X B \X C \X D /\ d[4] \in D
  <2>1. PICK e \in object_observations : d = <<d[1], e[2], e[1], e[3]>> /\ d[1] \in A
    BY GroupObserved
  <2>2. PICK x \in kept : e = <<x[1], x[2], e[3]>> /\ e[3] \in D
    BY ObjectObserved
  <2>3. x \in (0 .. NbCamera - 1) \X (0 .. NbFrame - 1) \X (0 .. NbBoard - 1)
    BY DEF Sizes, Detections
  <2>4. x[1] \in C /\ x[2] \in B
    BY <2>3
  <2>5. e[1] = x[1] /\ e[2] = x[2]
    BY <2>2
  <2>6. e[1] \in C /\ e[2] \in B /\ e[3] \in D
    BY <2>2, <2>4, <2>5
  <2> HIDE DEF A, B, C, D
  <2>7. <<d[1], e[2], e[1], e[3]>> \in A \X B \X C \X D
    BY <2>1, <2>6
  <2>8. d[4] = e[3]
    BY <2>1
  <2> QED BY <2>1, <2>6, <2>7, <2>8
<1> HIDE DEF A, B, C, D
<1>4. IsFiniteSet(A \X B \X C \X D)
  BY <1>1, <1>2, QuadruplesFinite
<1>5. cams_group_obs \in SUBSET (A \X B \X C \X D)
  BY <1>3
<1>6. IsFiniteSet(cams_group_obs)
  BY <1>4, <1>5, FS_Subset
<1> QED BY <1>1, <1>3, <1>6 DEF D

\* The pair found is one of objects that exist, or the default 0.
LEMMA ArgMaxExists ==
    ASSUME Sizes, Objects, Groups, object_observations = Init3DObjectObs,
           cams_group_obs = InitCameraGroupObs, NEW g1, NEW g2
    PROVE  \E o, p \in DOMAIN object_3d \cup {0} : ArgMax(g1, g2) = <<o, p>>
<1> DEFINE D == DOMAIN object_3d
           both == Together(g1, g2)
           found == {<<p[1][4], p[2][4]>> : p \in both}
           count == [q \in found |-> Cardinality({p \in both : <<p[1][4], p[2][4]>> = q})]
           best == {q \in found : \A r \in found : count[r] <= count[q]}
           limit == Cardinality(both)
<1>1. CASE found = {}
  BY <1>1 DEF ArgMax
<1>2. CASE found # {}
  <2>1. IsFiniteSet(cams_group_obs) /\ \A d \in cams_group_obs : d[4] \in D /\ d[4] \in Nat
    BY GroupObservations
  <2>2. both \in SUBSET (cams_group_obs \X cams_group_obs)
    BY DEF Together
  <2>3. IsFiniteSet(both) /\ limit \in Nat
    <3>1. IsFiniteSet(cams_group_obs \X cams_group_obs)
      BY <2>1, FS_Product
    <3> HIDE DEF both
    <3> QED BY <2>2, <3>1, FS_Subset, FS_CardinalityType
  <2>4. \A p \in both : /\ p[1][4] \in D /\ p[1][4] \in Nat
                        /\ p[2][4] \in D /\ p[2][4] \in Nat
    BY <2>1, <2>2
  <2> HIDE DEF both
  <2>5. ASSUME NEW q \in found
        PROVE  Cardinality({p \in both : <<p[1][4], p[2][4]>> = q}) \in 0 .. limit
    <3> DEFINE A == {p \in both : <<p[1][4], p[2][4]>> = q}
    <3>1. A \in SUBSET both
      OBVIOUS
    <3> HIDE DEF A
    <3>2. IsFiniteSet(A) /\ Cardinality(A) <= limit
      BY <2>3, <3>1, FS_Subset
    <3>3. Cardinality(A) \in Nat
      BY <3>2, FS_CardinalityType
    <3>4. Cardinality(A) \in 0 .. limit
      BY <2>3, <3>2, <3>3
    <3> QED BY <3>4 DEF A
  <2>6. count \in [found -> 0 .. limit]
    BY <2>5
  <2>7. found \in SUBSET (Nat \X Nat) /\ found \in SUBSET (D \X D)
    <3>1. ASSUME NEW q \in found
          PROVE  q \in Nat \X Nat /\ q \in D \X D
      <4>1. PICK p \in both : q = <<p[1][4], p[2][4]>>
        OBVIOUS
      <4> HIDE DEF D
      <4> QED BY <2>4, <4>1
    <3> HIDE DEF found, D
    <3> QED BY <3>1
  <2>8. ArgMax(g1, g2) = CHOOSE q \in best : \A r \in best : r = q \/ Before(q, r)
    BY <1>2 DEF ArgMax, both
  <2>9. best # {}
    <3>1. \E q \in found : \A r \in found : count[r] <= count[q]
      <4> HIDE DEF found, count, limit
      <4> QED BY <1>2, <2>3, <2>6, GreatestCount
    <3> HIDE DEF found, count
    <3> QED BY <3>1
  <2>10. best \subseteq found
    OBVIOUS
  <2> HIDE DEF best, found
  <2>11. best \in SUBSET (Nat \X Nat)
    BY <2>7, <2>10
  <2>12. \E q \in best : \A r \in best : r = q \/ Before(q, r)
    BY <2>9, <2>11, LeastPair
  <2>13. ArgMax(g1, g2) \in best
    BY <2>8, <2>12
  <2>14. ArgMax(g1, g2) \in D \X D
    BY <2>7, <2>10, <2>13
  <2> QED BY <2>14
<1> QED BY <1>1, <1>2

-----------------------------------------------------------------------------
(* Every step keeps the invariant.                                         *)

\* What initNonOverlapPair leaves of the objects: null ones are added at most.
LEMMA PosedObjects ==
    ASSUME Shape, FindPoseNoOverlapAllCamGroup, step = 16
    PROVE  /\ \E n \in Nat : DOMAIN object_3d' = 0 .. n - 1
           /\ DOMAIN object_3d \subseteq DOMAIN object_3d'
           /\ \A o \in DOMAIN object_3d : object_3d'[o] = object_3d[o]
           /\ \A o \in DOMAIN object_3d' \ DOMAIN object_3d : object_3d'[o] = NullObject
<1> DEFINE named == UNION {ToSet(no_overlap_object_pair[p]) : p \in GroupPairs}
           D == DOMAIN object_3d
<1>1. object_3d' = [o \in D \cup named |-> IF o \in D THEN object_3d[o] ELSE NullObject]
  BY DEF FindPoseNoOverlapAllCamGroup
<1>2. named \subseteq D \cup {0}
  <2>1. ASSUME NEW p \in GroupPairs
        PROVE  ToSet(no_overlap_object_pair[p]) \subseteq D \cup {0}
    <3>1. PICK o \in D \cup {0}, q \in D \cup {0} : no_overlap_object_pair[p] = <<o, q>>
      BY DEF Shape, PairsExist
    <3>2. \A i \in DOMAIN <<o, q>> : <<o, q>>[i] \in {o, q}
      OBVIOUS
    <3> QED BY <3>1, <3>2 DEF ToSet
  <2> QED BY <2>1
<1> HIDE DEF named
<1>3. PICK n \in Nat : D = 0 .. n - 1
  BY DEF Shape, Objects
<1>4. D \cup named = D \/ D \cup named = D \cup {0}
  BY <1>2
<1>5. D \cup {0} = 0 .. n - 1 \/ D \cup {0} = 0 .. 1 - 1
  BY <1>3
<1>6. \E m \in Nat : D \cup named = 0 .. m - 1
  BY <1>3, <1>4, <1>5
<1> QED BY <1>1, <1>6

\* Every call keeps the shape of the objects.
LEMMA ObjectsStay ==
    ASSUME Shape, [Next]_vars
    PROVE  Objects'
<1>1. /\ Sizes /\ Objects /\ kept' = kept /\ step \in 1 .. 30
      /\ step' = step \/ (step \in 1 .. 29 /\ step' = step + 1)
  BY StepsCount DEF Shape, Sizes
<1>2. CASE Init3DObjects
  <2>1. step = 3 /\ step' = 4
    BY <1>1, <1>2, CallPlaces DEF Init3DObjects, Call
  <2> QED BY <1>1, <1>2, <2>1, InitialObjects
<1>3. CASE MergeObjects
  <2>1. step \in {12, 23} /\ step' = step + 1
    BY <1>1, <1>3, CallPlaces DEF MergeObjects, Call
  <2> QED BY <1>1, <1>3, <2>1, MergedObjects
<1>4. CASE FindPoseNoOverlapAllCamGroup
  <2>1. step = 16 /\ step' = 17
    BY <1>1, <1>4, CallPlaces DEF FindPoseNoOverlapAllCamGroup, Call
  <2>2. /\ \E n \in Nat : DOMAIN object_3d' = 0 .. n - 1
        /\ DOMAIN object_3d \subseteq DOMAIN object_3d'
        /\ \A o \in DOMAIN object_3d : object_3d'[o] = object_3d[o]
        /\ \A o \in DOMAIN object_3d' \ DOMAIN object_3d : object_3d'[o] = NullObject
    BY <1>4, <2>1, PosedObjects
  <2>3. \A o \in DOMAIN object_3d : BoardsOf(o)' = BoardsOf(o)
    BY <2>2 DEF BoardsOf
  <2>4. \A o \in DOMAIN object_3d' \ DOMAIN object_3d : BoardsOf(o)' = {}
    BY <2>2 DEF BoardsOf, NullObject
  <2>5. \A o \in DOMAIN object_3d' :
           /\ BoardsOf(o)' \subseteq 0 .. NbBoard - 1
           /\ object_3d'[o] = NullObject \/ object_3d'[o].ref \in BoardsOf(o)'
    BY <1>1, <2>2, <2>3, <2>4 DEF Objects
  <2>6. \A o, p \in DOMAIN object_3d' : BoardsOf(o)' \cap BoardsOf(p)' # {} => o = p
    BY <1>1, <2>2, <2>3, <2>4 DEF Objects
  <2>7. \A d \in kept' : \E o \in DOMAIN object_3d' : d[3] \in BoardsOf(o)'
    <3> TAKE d \in kept'
    <3>1. PICK o \in DOMAIN object_3d : d[3] \in BoardsOf(o)
      BY <1>1, <2>1 DEF Objects
    <3> QED BY <2>2, <2>3, <3>1
  <2> QED BY <2>1, <2>2, <2>5, <2>6, <2>7 DEF Objects
<1>5. CASE object_3d' = object_3d /\ ~Init3DObjects
  <2>1. step' # 4 \/ step = 4
    BY <1>1, <1>5, StepCalls
  <2>2. \A o : BoardsOf(o)' = BoardsOf(o)
    BY <1>5 DEF BoardsOf
  <2>3. step' < 4 => step < 4
    BY <1>1
  <2>4. step' >= 4 => step >= 4
    BY <1>1, <2>1
  <2>5. step' \notin 17 .. 22 => \A o \in DOMAIN object_3d : object_3d[o] # NullObject
    <3>1. CASE step = 22 /\ step' = 23
      BY <1>1, <3>1, StepCalls DEF InitInterObjectsGraph
    <3>2. CASE ~(step = 22 /\ step' = 23)
      <4>1. step' \notin 17 .. 22 => step \notin 17 .. 22
        BY <1>1, <3>2
      <4> QED BY <1>1, <4>1 DEF Objects
    <3> QED BY <3>1, <3>2
  <2> QED BY <1>1, <1>5, <2>2, <2>3, <2>4, <2>5 DEF Objects
<1> QED BY <1>2, <1>3, <1>4, <1>5, Changes

\* The null objects that are added are observed nowhere.
LEMMA ObjectObsKept ==
    ASSUME Shape, [Next]_vars, step' \notin {4, 13, 24}
    PROVE  Init3DObjectObs' = Init3DObjectObs
<1>1. /\ Sizes /\ kept' = kept /\ step \in 1 .. 30
      /\ step' = step \/ (step \in 1 .. 29 /\ step' = step + 1)
  BY StepsCount DEF Shape, Sizes
<1>2. ~Init3DObjects /\ ~MergeObjects
  <2>1. CASE Init3DObjects
    BY <1>1, <2>1, CallPlaces DEF Init3DObjects, Call
  <2>2. CASE MergeObjects
    BY <1>1, <2>2, CallPlaces DEF MergeObjects, Call
  <2> QED BY <2>1, <2>2
<1>3. CASE object_3d' = object_3d
  BY <1>1, <1>3 DEF Init3DObjectObs, BoardsOf
<1>4. CASE FindPoseNoOverlapAllCamGroup
  <2>1. step = 16
    BY <1>1, <1>4, CallPlaces DEF FindPoseNoOverlapAllCamGroup, Call
  <2>2. /\ DOMAIN object_3d \subseteq DOMAIN object_3d'
        /\ \A o \in DOMAIN object_3d : object_3d'[o] = object_3d[o]
        /\ \A o \in DOMAIN object_3d' \ DOMAIN object_3d : object_3d'[o] = NullObject
    BY <1>4, <2>1, PosedObjects
  <2>3. \A o \in DOMAIN object_3d : BoardsOf(o)' = BoardsOf(o)
    BY <2>2 DEF BoardsOf
  <2>4. \A o \in DOMAIN object_3d' \ DOMAIN object_3d : BoardsOf(o)' = {}
    BY <2>2 DEF BoardsOf, NullObject
  <2> DEFINE seenAs(o) == {<<d[1], d[2], o>> : d \in {e \in kept : e[3] \in BoardsOf(o)}}
             seenNow(o) == {<<d[1], d[2], o>> : d \in {e \in kept : e[3] \in BoardsOf(o)'}}
  <2>5. /\ Init3DObjectObs = UNION {seenAs(o) : o \in DOMAIN object_3d}
        /\ Init3DObjectObs' = UNION {seenNow(o) : o \in DOMAIN object_3d'}
    BY <1>1 DEF Init3DObjectObs
  <2>6. /\ \A o \in DOMAIN object_3d : seenNow(o) = seenAs(o)
        /\ \A o \in DOMAIN object_3d' \ DOMAIN object_3d : seenNow(o) = {}
    BY <2>3, <2>4
  <2> HIDE DEF seenAs, seenNow
  <2> QED BY <2>2, <2>5, <2>6
<1> QED BY <1>2, <1>3, <1>4, Changes

\* Observations are rebuilt after every merge, before they are read.
LEMMA FreshStays ==
    ASSUME Shape, [Next]_vars
    PROVE  Fresh'
<1>1. /\ Sizes /\ Fresh /\ kept' = kept /\ step \in 1 .. 30
      /\ step' = step \/ (step \in 1 .. 29 /\ step' = step + 1)
  BY StepsCount DEF Shape, Sizes
<1>2. ASSUME InitAll3DObjectObs \/ MergeAllObjectObs
      PROVE  /\ step \in {4, 13, 24} /\ step' = step + 1
             /\ object_observations' = Init3DObjectObs
  <2>1. CASE InitAll3DObjectObs
    BY <1>1, <2>1, CallPlaces DEF InitAll3DObjectObs, Call
  <2>2. CASE MergeAllObjectObs
    BY <1>1, <2>2, CallPlaces DEF MergeAllObjectObs, Call
  <2> QED BY <1>2, <2>1, <2>2
<1>3. step' >= 5 /\ step' \notin {13, 24} => object_observations' = Init3DObjectObs'
  <2> SUFFICES ASSUME step' >= 5, step' \notin {13, 24}
               PROVE  object_observations' = Init3DObjectObs'
    OBVIOUS
  <2>1. Init3DObjectObs' = Init3DObjectObs
    BY ObjectObsKept
  <2>2. CASE object_observations' = object_observations /\ ~InitAll3DObjectObs /\ ~MergeAllObjectObs
    <3>1. step >= 5 /\ step \notin {13, 24}
      BY <1>1, <2>2, StepCalls
    <3> QED BY <1>1, <2>1, <2>2, <3>1 DEF Fresh
  <2>3. CASE InitAll3DObjectObs \/ MergeAllObjectObs
    BY <1>2, <2>1, <2>3
  <2> QED BY <2>2, <2>3, Changes
<1>4. step' >= 9 /\ step' \notin {13, 14, 19, 24, 25, 28} =>
         cams_group_obs' = InitCameraGroupObs'
  <2> SUFFICES ASSUME step' >= 9, step' \notin {13, 14, 19, 24, 25, 28}
               PROVE  cams_group_obs' = InitCameraGroupObs'
    OBVIOUS
  <2>1. object_observations' = object_observations
    <3>1. CASE InitAll3DObjectObs \/ MergeAllObjectObs
      BY <1>1, <1>2, <3>1
    <3> QED BY <3>1, Changes
  <2>2. cam_group' = cam_group
    <3>1. CASE InitCameraGroup
      BY <1>1, <3>1, CallPlaces DEF InitCameraGroup, Call
    <3>2. CASE MergeCameraGroup
      BY <1>1, <3>2, CallPlaces DEF MergeCameraGroup, Call
    <3> QED BY <3>1, <3>2, Changes
  <2>3. InitCameraGroupObs' = InitCameraGroupObs
    BY <2>1, <2>2 DEF InitCameraGroupObs, CamsOf
  <2>4. CASE InitAllCameraGroupObs \/ MergeAllCameraGroupObs
    BY <2>3, <2>4 DEF InitAllCameraGroupObs, MergeAllCameraGroupObs
  <2>5. CASE MergeAllObjectObs
    BY <1>1, <1>2, <2>5
  <2>6. CASE cams_group_obs' = cams_group_obs /\ ~InitAllCameraGroupObs /\ ~MergeAllCameraGroupObs
             /\ ~MergeAllObjectObs
    <3>1. step >= 9 /\ step \notin {13, 14, 19, 24, 25, 28}
      BY <1>1, <2>6, StepCalls
    <3> QED BY <1>1, <2>3, <2>6, <3>1 DEF Fresh
  <2> QED BY <2>4, <2>5, <2>6, Changes
<1>5. \A d \in object_observations' : \E e \in kept' : d[1] = e[1] /\ d[2] = e[2]
  <2>1. CASE object_observations' = object_observations
    BY <1>1, <2>1 DEF Fresh
  <2>2. CASE object_observations' = Init3DObjectObs
    <3> TAKE d \in object_observations'
    <3>1. PICK e \in kept : d = <<e[1], e[2], d[3]>>
      BY <2>2, ObjectObserved
    <3> QED BY <1>1, <3>1
  <2> QED BY <1>2, <2>1, <2>2, Changes
<1> QED BY <1>3, <1>4, <1>5 DEF Fresh

\* At most one copy per object is stored, and the saved cameras exist.
LEMMA CountedStays ==
    ASSUME Shape, [Next]_vars
    PROVE  Counted'
<1>1. Sizes /\ Objects /\ Groups /\ Counted /\ step \in 1 .. 30
  BY DEF Shape, Sizes
<1>2. copies' \in 0 .. NbBoard
  <2>1. CASE copies' = copies
    BY <1>1, <2>1 DEF Counted
  <2>2. CASE InitAll3DObjectObs
    <3>1. copies' = 1 /\ step = 4
      BY <1>1, <2>2, CallPlaces DEF InitAll3DObjectObs, Call
    <3> QED BY <3>1, SizesAssumption
  <2>3. CASE MergeAllObjectObs
    <3>1. copies' = Cardinality(DOMAIN object_3d) /\ step \in {13, 24}
      BY <1>1, <2>3, CallPlaces DEF MergeAllObjectObs, Call
    <3> DEFINE B == 0 .. NbBoard - 1
               D == DOMAIN object_3d
               ref == [o \in D |-> object_3d[o].ref]
    <3>2. IsFiniteSet(B) /\ Cardinality(B) = NbBoard
      BY SizesAssumption, FS_Interval
    <3>3. \A o \in D : object_3d[o].ref \in BoardsOf(o) /\ BoardsOf(o) \subseteq B
      BY <1>1, <3>1 DEF Objects
    <3>4. \A o, p \in D : object_3d[o].ref = object_3d[p].ref => o = p
      BY <1>1, <3>3 DEF Objects
    <3> HIDE DEF B, D
    <3>5. ref \in Injection(D, B)
      BY <3>3, <3>4 DEF Injection, IsInjective
    <3> HIDE DEF ref
    <3>6. IsFiniteSet(D) /\ Cardinality(D) <= Cardinality(B)
      BY <3>2, <3>5, FS_Injection
    <3>7. Cardinality(D) \in 0 .. NbBoard
      BY <3>2, <3>6, FS_CardinalityType, SizesAssumption
    <3> QED BY <3>1, <3>7 DEF D
  <2> QED BY <2>1, <2>2, <2>3, Changes
<1>3. \A s \in saved' : s.cam \in 0 .. NbCamera - 1
  <2>1. CASE saved' = saved
    BY <1>1, <2>1 DEF Counted
  <2>2. CASE SaveCamerasParams
    <3> TAKE s \in saved'
    <3> DEFINE lines(g) == {[cam |-> c, group |-> g, pose |-> Inverted(cam_group[g].pose[c])]
                              : c \in CamsOf(g)}
    <3>1. saved' = UNION {lines(g) : g \in {h \in DOMAIN cam_group : h = Min(DOMAIN cam_group)}}
      BY <2>2 DEF SaveCamerasParams
    <3>2. PICK g \in DOMAIN cam_group : s \in lines(g)
      BY <3>1
    <3>3. PICK c \in CamsOf(g) : s.cam = c
      BY <3>2
    <3> QED BY <1>1, <3>3 DEF Groups
  <2> QED BY <2>1, <2>2, Changes
<1> QED BY <1>2, <1>3 DEF Counted

\* A graph is read before what it was built from changes.
LEMMA PairGraphsStay ==
    ASSUME Shape, [Next]_vars
    PROVE  PairGraphs'
<1>1. /\ Sizes /\ PairGraphs /\ seen' = seen /\ step \in 1 .. 30
      /\ step' = step \/ (step \in 1 .. 29 /\ step' = step + 1)
  BY StepsCount DEF Shape, Sizes
<1>2. step' \in {2, 3} => DOMAIN board_pose_pairs' = Pairs(seen, 3, {1, 2})
  <2>1. CASE ComputeBoardsPairPose
    <3>1. board_pose_pairs' = PairCounts(seen, 3, {1, 2})
      BY <2>1 DEF ComputeBoardsPairPose
    <3> QED BY <3>1, PairsCounted
  <2>2. CASE board_pose_pairs' = board_pose_pairs /\ ~ComputeBoardsPairPose
    BY <1>1, <2>2, StepCalls DEF PairGraphs
  <2> QED BY <2>1, <2>2, Changes
<1>3. step' = 3 => covis_boards_graph' = BuildGraph({d[3] : d \in seen}, board_pose_pairs')
  <2>1. CASE InitInterBoardsGraph
    BY <2>1 DEF InitInterBoardsGraph
  <2>2. CASE ~InitInterBoardsGraph
    <3>1. CASE ComputeBoardsPairPose
      BY <1>1, <3>1, CallPlaces DEF ComputeBoardsPairPose, Call
    <3>2. CASE covis_boards_graph' = covis_boards_graph /\ board_pose_pairs' = board_pose_pairs
      BY <1>1, <2>2, <3>2, StepCalls DEF PairGraphs
    <3> QED BY <2>2, <3>1, <3>2, Changes
  <2> QED BY <2>1, <2>2
<1>4. step' \in {6, 7} => object_observations' = object_observations
  <2>1. CASE InitAll3DObjectObs \/ MergeAllObjectObs
    BY <1>1, <2>1, CallPlaces DEF InitAll3DObjectObs, MergeAllObjectObs, Call
  <2> QED BY <2>1, Changes
<1>5. step' \in {6, 7} =>
         DOMAIN camera_pose_pairs' = Pairs(object_observations', 1, {2, 3})
  <2>1. CASE ComputeCamerasPairPose
    <3>1. camera_pose_pairs' = PairCounts(object_observations, 1, {2, 3})
      BY <2>1 DEF ComputeCamerasPairPose
    <3> QED BY <1>4, <3>1, PairsCounted
  <2>2. CASE camera_pose_pairs' = camera_pose_pairs /\ ~ComputeCamerasPairPose
    BY <1>1, <1>4, <2>2, StepCalls DEF PairGraphs
  <2> QED BY <2>1, <2>2, Changes
<1>6. step' = 7 => covis_camera_graph' = BuildGraph({d[1] : d \in seen}, camera_pose_pairs')
  <2>1. CASE InitInterCamerasGraph
    BY <2>1 DEF InitInterCamerasGraph
  <2>2. CASE ~InitInterCamerasGraph
    <3>1. CASE ComputeCamerasPairPose
      BY <1>1, <3>1, CallPlaces DEF ComputeCamerasPairPose, Call
    <3>2. CASE covis_camera_graph' = covis_camera_graph /\ camera_pose_pairs' = camera_pose_pairs
      BY <1>1, <2>2, <3>2, StepCalls DEF PairGraphs
    <3> QED BY <2>2, <3>1, <3>2, Changes
  <2> QED BY <2>1, <2>2
<1>7. step' \in {11, 12, 22, 23} => /\ cams_group_obs' = cams_group_obs
                                    /\ object_observations' = object_observations
  <2>1. CASE InitAllCameraGroupObs \/ MergeAllCameraGroupObs
    BY <1>1, <2>1, CallPlaces DEF InitAllCameraGroupObs, MergeAllCameraGroupObs, Call
  <2>2. CASE InitAll3DObjectObs \/ MergeAllObjectObs
    BY <1>1, <2>2, CallPlaces DEF InitAll3DObjectObs, MergeAllObjectObs, Call
  <2> QED BY <2>1, <2>2, Changes
<1>8. step' \in {11, 12, 22, 23} =>
         DOMAIN object_pose_pairs' = Pairs(cams_group_obs', 4, {1, 2})
  <2>1. CASE ComputeObjectsPairPose
    <3>1. DOMAIN object_pose_pairs' = DOMAIN PairCounts(cams_group_obs, 4, {1, 2})
      BY <2>1 DEF ComputeObjectsPairPose
    <3> QED BY <1>7, <3>1, PairsCounted
  <2>2. CASE object_pose_pairs' = object_pose_pairs /\ ~ComputeObjectsPairPose
    <3>1. step' \in {11, 12, 22, 23} => step \in {11, 12, 22, 23}
      BY <1>1, <2>2, StepCalls
    <3> QED BY <1>1, <1>7, <2>2, <3>1 DEF PairGraphs
  <2> QED BY <2>1, <2>2, Changes
<1>9. step' \in {12, 23} =>
         covis_objects_graph' =
            BuildGraph({d[3] : d \in object_observations'}, object_pose_pairs')
  <2>1. CASE InitInterObjectsGraph
    BY <2>1 DEF InitInterObjectsGraph, obsVars
  <2>2. CASE ~InitInterObjectsGraph
    <3>1. CASE ComputeObjectsPairPose
      BY <1>1, <3>1, CallPlaces DEF ComputeObjectsPairPose, Call
    <3>2. CASE covis_objects_graph' = covis_objects_graph /\ object_pose_pairs' = object_pose_pairs
      <4>1. step' \in {12, 23} => step \in {12, 23}
        BY <1>1, <2>2, StepCalls
      <4> QED BY <1>1, <1>7, <3>2, <4>1 DEF PairGraphs
    <3> QED BY <2>2, <3>1, <3>2, Changes
  <2> QED BY <2>1, <2>2
<1> QED BY <1>1, <1>2, <1>3, <1>5, <1>6, <1>8, <1>9 DEF PairGraphs

\* The graph of the groups is read as it was built, the poses only grow old.
LEMMA GroupGraphStays ==
    ASSUME Shape, [Next]_vars
    PROVE  GroupGraph'
<1>1. /\ Sizes /\ Groups /\ GroupGraph /\ step \in 1 .. 30
      /\ step' = step \/ (step \in 1 .. 29 /\ step' = step + 1)
  BY StepsCount DEF Shape, Sizes
<1>2. ASSUME FindPoseNoOverlapAllCamGroup
      PROVE  /\ step = 16 /\ step' = 17 /\ cam_group' = cam_group
             /\ DOMAIN no_overlap_pair' \subseteq GroupPairs
             /\ DOMAIN no_overlap_pair' \subseteq Nat \X Nat
             /\ IsFiniteSet(DOMAIN no_overlap_pair')
  <2>1. step = 16 /\ step' = 17 /\ cam_group' = cam_group
    BY <1>1, <1>2, CallPlaces DEF FindPoseNoOverlapAllCamGroup, Call
  <2> DEFINE P == DOMAIN no_overlap_pair'
  <2>2. P \subseteq GroupPairs
    BY <1>2 DEF FindPoseNoOverlapAllCamGroup
  <2>3. PICK n \in Nat : DOMAIN cam_group = 0 .. n - 1
    BY <1>1 DEF Groups
  <2>4. IsFiniteSet((0 .. n - 1) \X (0 .. n - 1))
    <3> DEFINE I == 0 .. n - 1
    <3>1. IsFiniteSet(I)
      BY FS_Interval
    <3> HIDE DEF I
    <3>2. IsFiniteSet(I \X I)
      BY <3>1, FS_Product
    <3> QED BY <3>2 DEF I
  <2>5. (0 .. n - 1) \X (0 .. n - 1) \subseteq Nat \X Nat
    OBVIOUS
  <2>6. GroupPairs \subseteq (0 .. n - 1) \X (0 .. n - 1)
    BY <2>3 DEF GroupPairs
  <2> HIDE DEF P
  <2>7. P \subseteq (0 .. n - 1) \X (0 .. n - 1)
    BY <2>2, <2>6
  <2>8. P \subseteq Nat \X Nat /\ IsFiniteSet(P)
    BY <2>4, <2>5, <2>7, FS_Subset
  <2> QED BY <2>1, <2>2, <2>8 DEF P
<1>3. DOMAIN no_overlap_pair' \subseteq Nat \X Nat /\ IsFiniteSet(DOMAIN no_overlap_pair')
  BY <1>1, <1>2, Changes DEF GroupGraph
<1>4. step' \in {17, 18} => DOMAIN no_overlap_pair' \subseteq GroupPairs'
  <2>1. CASE FindPoseNoOverlapAllCamGroup
    BY <1>2, <2>1 DEF GroupPairs
  <2>2. CASE ~FindPoseNoOverlapAllCamGroup
    <3>1. no_overlap_pair' = no_overlap_pair
      BY <2>2, Changes
    <3>2. step' \in {17, 18} => step \in {17, 18}
      BY <1>1, <2>2, StepCalls
    <3>3. step' \in {17, 18} => cam_group' = cam_group
      <4>1. CASE InitCameraGroup \/ MergeCameraGroup
        BY <1>1, <4>1, CallPlaces DEF InitCameraGroup, MergeCameraGroup, Call
      <4> QED BY <4>1, Changes
    <3> QED BY <1>1, <3>1, <3>2, <3>3 DEF GroupGraph, GroupPairs
  <2> QED BY <2>1, <2>2
<1>5. step' \in {18, 27} =>
         no_overlap_camgroup_graph' =
            BuildGraph({d[1] : d \in cams_group_obs'},
                       [p \in DOMAIN no_overlap_pair' |-> no_overlap_pair'[p].cnt])
  <2> SUFFICES ASSUME step' \in {18, 27}
               PROVE  no_overlap_camgroup_graph' =
                         BuildGraph({d[1] : d \in cams_group_obs'},
                                    [p \in DOMAIN no_overlap_pair' |-> no_overlap_pair'[p].cnt])
    OBVIOUS
  <2>1. CASE InitInterCamGroupGraph
    BY <2>1 DEF InitInterCamGroupGraph, pairVars
  <2>2. CASE ~InitInterCamGroupGraph
    <3>1. step \in {18, 27} /\ no_overlap_camgroup_graph' = no_overlap_camgroup_graph
      BY <1>1, <2>2, StepCalls, Changes
    <3>2. no_overlap_pair' = no_overlap_pair
      BY <1>2, <3>1, Changes
    <3>3. cams_group_obs' = cams_group_obs
      <4>1. CASE InitAllCameraGroupObs \/ MergeAllCameraGroupObs \/ MergeAllObjectObs
        BY <1>1, <3>1, <4>1, CallPlaces
        DEF InitAllCameraGroupObs, MergeAllCameraGroupObs, MergeAllObjectObs, Call
      <4> QED BY <4>1, Changes
    <3> QED BY <1>1, <3>1, <3>2, <3>3 DEF GroupGraph
  <2> QED BY <2>1, <2>2
<1> QED BY <1>3, <1>4, <1>5 DEF GroupGraph

\* Objects to look up are found just before they are looked up.
LEMMA PairsExistStays ==
    ASSUME Shape, [Next]_vars
    PROVE  PairsExist'
<1>1. /\ Sizes /\ Objects /\ Groups /\ Fresh /\ PairsExist /\ step \in 1 .. 30
      /\ step' = step \/ (step \in 1 .. 29 /\ step' = step + 1)
  BY StepsCount DEF Shape, Sizes
<1> SUFFICES ASSUME step' = 16, NEW p \in GroupPairs'
             PROVE  \E o, q \in DOMAIN object_3d' \cup {0} : no_overlap_object_pair'[p] = <<o, q>>
  BY DEF PairsExist
<1>2. object_3d' = object_3d /\ cam_group' = cam_group
  <2>1. CASE Init3DObjects \/ MergeObjects \/ FindPoseNoOverlapAllCamGroup
    BY <1>1, <2>1, CallPlaces DEF Init3DObjects, MergeObjects, FindPoseNoOverlapAllCamGroup, Call
  <2>2. CASE InitCameraGroup \/ MergeCameraGroup
    BY <1>1, <2>2, CallPlaces DEF InitCameraGroup, MergeCameraGroup, Call
  <2> QED BY <2>1, <2>2, Changes
<1>3. p \in GroupPairs
  BY <1>2 DEF GroupPairs
<1>4. CASE FindPairObjectForNonOverlap
  <2>1. step = 15
    BY <1>1, <1>4, CallPlaces DEF FindPairObjectForNonOverlap, Call
  <2>2. object_observations = Init3DObjectObs /\ cams_group_obs = InitCameraGroupObs
    BY <1>1, <2>1 DEF Fresh
  <2>3. no_overlap_object_pair'[p] = ArgMax(p[1], p[2])
    BY <1>3, <1>4 DEF FindPairObjectForNonOverlap
  <2>4. \E o, q \in DOMAIN object_3d \cup {0} : ArgMax(p[1], p[2]) = <<o, q>>
    BY <1>1, <2>2, ArgMaxExists
  <2> QED BY <1>2, <2>3, <2>4
<1>5. CASE ~FindPairObjectForNonOverlap
  <2>1. step = 16 /\ no_overlap_object_pair' = no_overlap_object_pair
    BY <1>1, <1>5, StepCalls, Changes
  <2> QED BY <1>1, <1>2, <1>3, <2>1 DEF PairsExist
<1> QED BY <1>4, <1>5

\* Every call keeps the invariant.
LEMMA ShapeStep == Shape /\ [Next]_vars => Shape'
<1> SUFFICES ASSUME Shape, [Next]_vars
             PROVE  Shape'
  OBVIOUS
<1>1. Sizes'
  BY StepsCount DEF Shape
<1> QED BY <1>1, ObjectsStay, GroupsStay, FreshStays, CountedStays, PairGraphsStay,
           GroupGraphStays, PairsExistStays DEF Shape

\* Inductive for any images: what each call of the workflow finds when it starts.
THEOREM ShapeInvariant == Spec => []Shape
BY ShapeInit, ShapeStep, PTL DEF Spec

\* Objects and groups are numbered from 0 after each of init3DObjects,
\* initCameraGroup, mergeObjects and mergeCameraGroup, with a reference among
\* their members, and observations name cameras and frames with a point left.
THEOREM WellFormed == Spec => []TypeOK
<1>1. Shape => TypeOK
  <2> SUFFICES ASSUME Shape
               PROVE  TypeOK
    OBVIOUS
  <2>1. Sizes /\ Objects /\ Groups /\ Fresh /\ Counted
    BY DEF Shape
  <2>2. step \in 1 .. Len(Workflow) + 1
    BY <2>1, WorkflowSteps DEF Sizes
  <2>3. \A n \in Nat : 0 .. Cardinality(0 .. n - 1) - 1 = 0 .. n - 1
    <3> TAKE n \in Nat
    <3>1. Cardinality(0 .. n - 1) = n
      BY FS_Interval
    <3> QED BY <3>1
  <2>4. /\ DOMAIN object_3d = 0 .. Cardinality(DOMAIN object_3d) - 1
        /\ DOMAIN cam_group = 0 .. Cardinality(DOMAIN cam_group) - 1
    BY <2>1, <2>3 DEF Objects, Groups
  <2>5. \A d \in object_observations : <<d[1], d[2]>> \in {<<e[1], e[2]>> : e \in kept}
    BY <2>1 DEF Fresh
  <2>6. /\ \A o \in DOMAIN object_3d :
              object_3d[o] = NullObject \/ object_3d[o].ref \in BoardsOf(o)
        /\ \A g \in DOMAIN cam_group : cam_group[g].ref \in CamsOf(g)
    BY <2>1 DEF Objects, Groups
  <2>7. copies \in 0 .. NbBoard /\ \A s \in saved : s.cam \in 0 .. NbCamera - 1
    BY <2>1 DEF Counted
  <2>8. seen \subseteq Detections /\ kept \subseteq seen /\ aborted \in BOOLEAN
    BY <2>1 DEF Sizes
  <2> QED BY <2>2, <2>4, <2>5, <2>6, <2>7, <2>8, Zenon DEF TypeOK
<1> QED BY <1>1, ShapeInvariant, PTL

\* initInterCamGroupGraph, computeObjectsPairPose, the hand-eye calibration and
\* saveCamerasParams read observations of the present objects and groups only:
\* after a merge, mergeAllObjectObs and mergeAllCameraGroupObs have rebuilt
\* them all.
THEOREM ReadsAreCurrent == Spec => []ObservationsCurrent
<1>1. Shape => ObservationsCurrent
  <2> SUFFICES ASSUME Shape, ~aborted, step <= Len(Workflow),
                      Workflow[step] \in {"initInterCamGroupGraph", "computeObjectsPairPose",
                                          "findPairObjectForNonOverlap",
                                          "findPoseNoOverlapAllCamGroup", "saveCamerasParams"}
               PROVE  cams_group_obs =
                         UNION {{<<g, d[2], d[1], o>> :
                                   d \in {e \in kept : e[1] \in CamsOf(g)
                                                       /\ e[3] \in BoardsOf(o)}} :
                                  g \in DOMAIN cam_group, o \in DOMAIN object_3d}
    BY DEF ObservationsCurrent
  <2>1. Sizes /\ Fresh /\ step \in 1 .. 30
    BY DEF Shape, Sizes
  <2>2. step >= 9 /\ step \notin {13, 14, 19, 24, 25, 28}
    <3>1. /\ At("initInterCamGroupGraph") => step \in {9, 17, 20, 26}
          /\ At("computeObjectsPairPose") => step \in {10, 21}
          /\ At("findPairObjectForNonOverlap") => step = 15
          /\ At("findPoseNoOverlapAllCamGroup") => step = 16
          /\ At("saveCamerasParams") => step = 29
      BY <2>1, CallPlaces
    <3> QED BY <3>1 DEF At
  <2>3. cams_group_obs = InitCameraGroupObs /\ object_observations = Init3DObjectObs
    BY <2>1, <2>2 DEF Fresh
  <2> DEFINE views(g, o) == {<<g, d[2], d[1], o>> :
                                d \in {e \in kept : e[1] \in CamsOf(g) /\ e[3] \in BoardsOf(o)}}
             all == UNION {views(g, o) : g \in DOMAIN cam_group, o \in DOMAIN object_3d}
  <2>4. ASSUME NEW d \in cams_group_obs
        PROVE  d \in all
    <3>1. PICK e \in object_observations :
               e[1] \in CamsOf(d[1]) /\ d = <<d[1], e[2], e[1], e[3]>> /\ d[1] \in DOMAIN cam_group
      BY <2>3, GroupObserved
    <3>2. PICK x \in kept : /\ x[3] \in BoardsOf(e[3]) /\ e = <<x[1], x[2], e[3]>>
                            /\ e[3] \in DOMAIN object_3d
      BY <2>3, ObjectObserved
    <3>3. e[1] = x[1] /\ e[2] = x[2]
      BY <3>2
    <3>4. d \in views(d[1], e[3])
      BY <3>1, <3>2, <3>3
    <3> HIDE DEF views
    <3> QED BY <3>1, <3>2, <3>4
  <2>5. ASSUME NEW d \in all
        PROVE  d \in cams_group_obs
    <3>1. PICK g \in DOMAIN cam_group, o \in DOMAIN object_3d : d \in views(g, o)
      <4> HIDE DEF views
      <4> QED OBVIOUS
    <3>2. PICK x \in kept : /\ x[1] \in CamsOf(g) /\ x[3] \in BoardsOf(o)
                            /\ d = <<g, x[2], x[1], o>>
      BY <3>1
    <3> DEFINE e == <<x[1], x[2], o>>
    <3>3. e \in object_observations /\ e[1] = x[1] /\ e[2] = x[2] /\ e[3] = o
      BY <2>3, <3>2, ObjectObserved
    <3> HIDE DEF e
    <3>4. <<g, e[2], e[1], e[3]>> \in cams_group_obs
      BY <2>3, <3>2, <3>3, GroupObserved
    <3> QED BY <3>2, <3>3, <3>4
  <2> HIDE DEF views
  <2>6. cams_group_obs = all
    <3> HIDE DEF all
    <3> QED BY <2>4, <2>5
  <2> QED BY <2>6 DEF views
<1> QED BY <1>1, ShapeInvariant, PTL

-----------------------------------------------------------------------------
(* Poses along paths.                                                      *)

\* Maps that fit together.
LEMMA ComposeMaps ==
    ASSUME NEW x, NEW y, NEW z
    PROVE  Compose(Map(y, z), Map(x, y)) = Map(x, z)
BY DEF Compose, Map

\* Each hop takes the frame of its end to that of its start, so the product
\* takes the last frame to the first.
LEMMA AlongPath ==
    ASSUME NEW path, NEW n \in Nat \ {0}, Len(path) = n, NEW frame, NEW hop,
           \A k \in 2 .. n :
              hop[<<path[k - 1], path[k]>>] = Map(frame[path[k]], frame[path[k - 1]])
    PROVE  Along(frame[path[1]], path, hop) = Map(frame[path[n]], frame[path[1]])
<1> DEFINE start == frame[path[1]]
           inner(t, k) == IF k = 1 THEN Map(start, start)
                          ELSE Compose(t[k - 1], hop[<<path[k - 1], path[k]>>])
           w == [k \in 1 .. n |-> Map(frame[path[k]], start)]
           T == CHOOSE t : t = [k \in 1 .. Len(path) |-> inner(t, k)]
<1>1. Along(start, path, hop) = T[n]
  <2>1. Along(start, path, hop) = T[Len(path)]
    BY DEF Along
  <2> HIDE DEF T
  <2> QED BY <2>1
<1>2. ASSUME NEW k \in 2 .. n
      PROVE  Compose(Map(frame[path[k - 1]], start), hop[<<path[k - 1], path[k]>>])
                = Map(frame[path[k]], start)
  <2>1. hop[<<path[k - 1], path[k]>>] = Map(frame[path[k]], frame[path[k - 1]])
    OBVIOUS
  <2>2. Compose(Map(frame[path[k - 1]], start), Map(frame[path[k]], frame[path[k - 1]]))
          = Map(frame[path[k]], start)
    BY ComposeMaps, Zenon
  <2> QED BY <2>1, <2>2
<1>3. w = [k \in 1 .. n |-> inner(w, k)]
  <2>1. ASSUME NEW k \in 1 .. n
        PROVE  Map(frame[path[k]], start) = inner(w, k)
    <3>1. CASE k = 1
      BY <3>1
    <3>2. CASE k # 1
      <4>1. k \in 2 .. n /\ k - 1 \in 1 .. n
        BY <3>2
      <4>2. w[k - 1] = Map(frame[path[k - 1]], start)
        BY <4>1
      <4> QED BY <1>2, <3>2, <4>1, <4>2
    <3> QED BY <3>1, <3>2
  <2> DEFINE at(k) == Map(frame[path[k]], start)
             in(k) == inner(w, k)
  <2>2. w = [k \in 1 .. n |-> at(k)]
    OBVIOUS
  <2>3. \A k \in 1 .. n : at(k) = in(k)
    BY <2>1
  <2>4. [k \in 1 .. n |-> at(k)] = [k \in 1 .. n |-> in(k)]
    <3> HIDE DEF at, in
    <3> QED BY <2>3
  <2> QED BY <2>2, <2>4
<1> HIDE DEF inner
<1>4. T = [k \in 1 .. n |-> inner(T, k)]
  <2>1. w = [k \in 1 .. Len(path) |-> inner(w, k)]
    BY <1>3
  <2>2. T = [k \in 1 .. Len(path) |-> inner(T, k)]
    BY <2>1
  <2> QED BY <2>2
<1> HIDE DEF T
<1>5. \A k \in 1 .. n : T[k] = inner(T, k)
  BY <1>4
<1> DEFINE bad == {k \in 1 .. n : T[k] # Map(frame[path[k]], start)}
<1>6. bad = {}
  <2> SUFFICES ASSUME bad # {}
               PROVE  FALSE
    OBVIOUS
  <2>1. bad \in SUBSET Nat
    OBVIOUS
  <2>2. PICK k \in bad : \A l \in bad : k <= l
    <3> HIDE DEF bad
    <3> QED BY <2>1, LeastNumber
  <2>3. k \in 1 .. n /\ T[k] # Map(frame[path[k]], start)
    BY <2>2
  <2>4. k # 1
    BY <1>5, <2>3 DEF inner
  <2>5. k \in 2 .. n /\ k - 1 \in 1 .. n
    BY <2>3, <2>4
  <2>6. k - 1 \notin bad
    <3> HIDE DEF bad
    <3> QED BY <2>2, <2>5
  <2>7. T[k - 1] = Map(frame[path[k - 1]], start)
    BY <2>5, <2>6
  <2>8. T[k] = Compose(T[k - 1], hop[<<path[k - 1], path[k]>>])
    BY <1>5, <2>3, <2>4 DEF inner
  <2> QED BY <1>2, <2>3, <2>5, <2>7, <2>8
<1>7. n \in 1 .. n
  OBVIOUS
<1>8. T[n] = Map(frame[path[n]], start)
  BY <1>6, <1>7
<1> QED BY <1>1, <1>8

\* A route starts at the least vertex of the component, ends at its vertex and
\* follows the edges.
LEMMA RouteFollows ==
    ASSUME NEW h, IsGraph(h), NEW route \in Routes(h), NEW v \in Vertices(h)
    PROVE  \E n \in Nat \ {0} :
              /\ Len(route[v]) = n /\ route[v][n] = v
              /\ route[v][1] = Min(Component(h, v))
              /\ \A k \in 1 .. n : route[v][k] \in Vertices(h)
              /\ \A k \in 2 .. n : Adjacent(h, route[v][k - 1], route[v][k])
<1> DEFINE s == Min(Component(h, v))
           C == Component(h, s)
           p == route[v]
           ways == [u \in Vertices(h) |-> Paths(h, Min(Component(h, u)), u)]
<1>1. p \in Paths(h, s, v)
  <2>1. route \in {r \in [Vertices(h) -> UNION {ways[u] : u \in Vertices(h)}] :
                      \A u \in Vertices(h) : r[u] \in ways[u]}
    BY DEF Routes
  <2>2. route[v] \in ways[v]
    BY <2>1
  <2> QED BY <2>2
<1>2. Vertices(h) \subseteq Nat /\ IsFiniteSet(Vertices(h))
  <2>1. h.vertex \in Seq(Nat) /\ DOMAIN h.vertex = 1 .. Len(h.vertex) /\ Len(h.vertex) \in Nat
    BY LenProperties DEF IsGraph
  <2> DEFINE D == 1 .. Len(h.vertex)
             f == [i \in D |-> h.vertex[i]]
  <2>2. IsFiniteSet(D)
    BY <2>1, FS_Interval
  <2>3. \A i \in D : h.vertex[i] \in Nat
    BY <2>1
  <2>4. f \in Surjection(D, Vertices(h))
    BY <2>1 DEF Surjection, Vertices
  <2> HIDE DEF f, D
  <2>5. IsFiniteSet(Vertices(h))
    BY <2>2, <2>4, FS_Surjection
  <2> QED BY <2>1, <2>3, <2>5 DEF D, Vertices
<1>3. s \in Component(h, v) /\ s \in Vertices(h)
  <2>1. Component(h, v) \subseteq Vertices(h) /\ v \in Component(h, v)
    BY ComponentClosed DEF Closed
  <2> QED BY <1>2, <2>1, MinOfNumbers
<1>4. C \subseteq Vertices(h) /\ IsFiniteSet(C) /\ Cardinality(C) \in Nat
  <2>1. C \in SUBSET Vertices(h)
    BY DEF Component
  <2> HIDE DEF C
  <2> QED BY <1>2, <2>1, FS_Subset, FS_CardinalityType
<1> DEFINE tails == UNION {[1 .. k -> C \ {s}] : k \in 0 .. Cardinality(C) - 1}
<1>5. /\ p \in {<<s>> \o q : q \in tails} /\ Last(p) = v
      /\ \A i \in 1 .. Len(p) - 1 : Adjacent(h, p[i], p[i + 1])
  BY <1>1, Zenon DEF Paths
<1>6. PICK q \in tails : p = <<s>> \o q
  BY <1>5
<1>7. PICK k \in 0 .. Cardinality(C) - 1 : q \in [1 .. k -> C \ {s}]
  BY <1>6
<1> HIDE DEF s, C, p, tails
<1>8. k \in Nat
  BY <1>4
<1>9. q \in Seq(C) /\ Len(q) = k /\ \A i \in 1 .. k : q[i] \in C
  <2>1. q \in [1 .. k -> C]
    BY <1>7
  <2>2. q \in Seq(C)
    BY <1>8, <2>1, SeqDef
  <2> QED BY <1>7, <1>8, <2>1, <2>2, LenProperties
<1>10. /\ Len(p) = k + 1 /\ p[1] = s
       /\ \A i \in 2 .. k + 1 : p[i] = q[i - 1]
  BY <1>6, <1>8, <1>9
<1>11. \A i \in 1 .. k + 1 : p[i] \in Vertices(h)
  <2> TAKE i \in 1 .. k + 1
  <2>1. CASE i = 1
    BY <1>3, <1>10, <2>1
  <2>2. CASE i # 1
    <3>1. i \in 2 .. k + 1 /\ i - 1 \in 1 .. k
      BY <1>8, <2>2
    <3> QED BY <1>4, <1>9, <1>10, <3>1
  <2> QED BY <2>1, <2>2
<1>12. p[k + 1] = v
  BY <1>5, <1>10 DEF Last
<1>13. \A i \in 2 .. k + 1 : Adjacent(h, p[i - 1], p[i])
  <2> TAKE i \in 2 .. k + 1
  <2>1. i - 1 \in 1 .. Len(p) - 1 /\ (i - 1) + 1 = i
    BY <1>8, <1>10
  <2> DEFINE j == i - 1
  <2>2. Adjacent(h, p[j], p[j + 1])
    BY <1>5, <2>1
  <2> QED BY <2>1, <2>2
<1>14. k + 1 \in Nat \ {0}
  BY <1>8
<1> QED BY <1>10, <1>11, <1>12, <1>13, <1>14 DEF p, s

\* init3DObjects places boards from the reference outwards, along any route.
LEMMA InitialPoses ==
    ASSUME Shape, Init3DObjects, step = 3
    PROVE  BoardPosesSound'
<1> DEFINE h == covis_boards_graph
           comp == ConnectedComponents(h)
           n == Len(comp)
           P == DOMAIN board_pose_pairs
           hop == [p \in P |-> Inverted(Map(p[1], p[2]))]
<1>1. PICK route \in Routes(h) :
          object_3d' =
             [i \in 0 .. n - 1 |->
                 [ref  |-> Min(comp[i + 1]),
                  pose |-> [b \in comp[i + 1] |-> Along(Min(comp[i + 1]), route[b], hop)]]]
  BY DEF Init3DObjects
<1>2. /\ IsGraph(h)
      /\ \A e \in h.edge : <<e[1], e[2]>> \in P /\ <<e[2], e[1]>> \in P
  BY BoardsGraph DEF Shape
<1>3. \A p \in P : hop[p] = Inverted(Map(p[1], p[2]))
  OBVIOUS
<1> HIDE DEF h, P, hop
<1>4. \A i \in 0 .. n - 1 : /\ comp[i + 1] \subseteq Vertices(h)
                            /\ \A v \in comp[i + 1] : comp[i + 1] = Component(h, v)
  BY <1>2, ComponentsDivide
<1> HIDE DEF comp, n
<1>5. ASSUME NEW i \in 0 .. n - 1, NEW b \in comp[i + 1]
      PROVE  Along(Min(comp[i + 1]), route[b], hop) = Map(b, Min(comp[i + 1]))
  <2>1. b \in Vertices(h) /\ comp[i + 1] = Component(h, b)
    BY <1>4
  <2> DEFINE path == route[b]
             frame == [v \in Vertices(h) |-> v]
  <2>2. PICK m \in Nat \ {0} :
             /\ Len(path) = m /\ path[m] = b /\ path[1] = Min(Component(h, b))
             /\ \A k \in 1 .. m : path[k] \in Vertices(h)
             /\ \A k \in 2 .. m : Adjacent(h, path[k - 1], path[k])
    BY <1>2, <2>1, RouteFollows
  <2> HIDE DEF path
  <2>3. \A k \in 1 .. m : frame[path[k]] = path[k]
    BY <2>2
  <2>4. ASSUME NEW k \in 2 .. m
        PROVE  hop[<<path[k - 1], path[k]>>] = Map(frame[path[k]], frame[path[k - 1]])
    <3> DEFINE u == path[k - 1]
               v == path[k]
               q == <<u, v>>
    <3>1. PICK e \in h.edge : {e[1], e[2]} = {u, v}
      BY <2>2 DEF Adjacent
    <3>2. (e[1] = u /\ e[2] = v) \/ (e[1] = v /\ e[2] = u)
      <4> HIDE DEF u, v
      <4> QED BY <3>1
    <3>3. q \in P
      BY <1>2, <3>2
    <3>4. q[1] = u /\ q[2] = v
      OBVIOUS
    <3>5. hop[q] = Map(v, u)
      <4> HIDE DEF q, u, v
      <4> QED BY <1>3, <3>3, <3>4 DEF Inverted, Map
    <3>6. k \in 1 .. m /\ k - 1 \in 1 .. m
      BY <2>2
    <3>7. frame[path[k]] = v /\ frame[path[k - 1]] = u
      <4> HIDE DEF frame
      <4> QED BY <2>3, <3>6
    <3> QED BY <3>5, <3>7
  <2>5. 1 \in 1 .. m /\ m \in 1 .. m
    BY <2>2
  <2> HIDE DEF frame
  <2>6. Along(frame[path[1]], path, hop) = Map(frame[path[m]], frame[path[1]])
    BY <2>2, <2>4, AlongPath
  <2> QED BY <2>1, <2>2, <2>3, <2>5, <2>6 DEF path
<1>6. \A i \in DOMAIN object_3d' : /\ i \in 0 .. n - 1 /\ object_3d'[i].ref = Min(comp[i + 1])
                                   /\ BoardsOf(i)' = comp[i + 1]
                                   /\ \A b \in comp[i + 1] :
                                         object_3d'[i].pose[b] = Along(Min(comp[i + 1]), route[b], hop)
  BY <1>1 DEF BoardsOf
<1>7. ASSUME NEW i \in DOMAIN object_3d', NEW b \in BoardsOf(i)'
      PROVE  object_3d'[i].pose[b] = Map(b, object_3d'[i].ref)
  BY <1>5, <1>6
<1> QED BY <1>7 DEF BoardPosesSound

\* mergeObjects places the boards of merged objects, along any route.
LEMMA MergedPoses ==
    ASSUME Shape, BoardPosesSound, MergeObjects, step \in {12, 23}
    PROVE  BoardPosesSound'
<1> DEFINE h == covis_objects_graph
           comp == ConnectedComponents(h)
           n == Len(comp)
           P == DOMAIN object_pose_pairs
           D == DOMAIN object_3d
           Ref(o) == object_3d[o].ref
           hop == [p \in P |-> Inverted(Map(Ref(p[1]), Ref(p[2])))]
           Holder(b) == CHOOSE o \in D : b \in BoardsOf(o)
<1>1. PICK route \in Routes(h) :
          object_3d' =
             [i \in 0 .. n - 1 |->
                 [ref  |-> Ref(Min(comp[i + 1])),
                  pose |-> [b \in UNION {BoardsOf(o) : o \in comp[i + 1]} |->
                              Compose(Along(Ref(Min(comp[i + 1])), route[Holder(b)], hop),
                                      object_3d[Holder(b)].pose[b])]]]
  BY Zenon DEF MergeObjects
<1>2. /\ IsGraph(h) /\ Vertices(h) \subseteq D
      /\ \A e \in h.edge : <<e[1], e[2]>> \in P /\ <<e[2], e[1]>> \in P
  BY ObjectsGraph
<1>3. \A p \in P : hop[p] = Inverted(Map(Ref(p[1]), Ref(p[2])))
  OBVIOUS
<1> HIDE DEF h, P, hop
<1>4. \A i \in 0 .. n - 1 : /\ comp[i + 1] \subseteq Vertices(h)
                            /\ \A v \in comp[i + 1] : comp[i + 1] = Component(h, v)
  BY <1>2, ComponentsDivide
<1> HIDE DEF comp, n
<1>5. ASSUME NEW i \in 0 .. n - 1, NEW o \in comp[i + 1]
      PROVE  Along(Ref(Min(comp[i + 1])), route[o], hop) = Map(Ref(o), Ref(Min(comp[i + 1])))
  <2>1. o \in Vertices(h) /\ comp[i + 1] = Component(h, o)
    BY <1>4
  <2> DEFINE path == route[o]
             frame == [v \in Vertices(h) |-> Ref(v)]
  <2>2. PICK m \in Nat \ {0} :
             /\ Len(path) = m /\ path[m] = o /\ path[1] = Min(Component(h, o))
             /\ \A k \in 1 .. m : path[k] \in Vertices(h)
             /\ \A k \in 2 .. m : Adjacent(h, path[k - 1], path[k])
    BY <1>2, <2>1, RouteFollows
  <2> HIDE DEF path
  <2>3. \A k \in 1 .. m : frame[path[k]] = Ref(path[k])
    BY <2>2
  <2>4. ASSUME NEW k \in 2 .. m
        PROVE  hop[<<path[k - 1], path[k]>>] = Map(frame[path[k]], frame[path[k - 1]])
    <3> DEFINE u == path[k - 1]
               v == path[k]
               q == <<u, v>>
    <3>1. PICK e \in h.edge : {e[1], e[2]} = {u, v}
      BY <2>2 DEF Adjacent
    <3>2. (e[1] = u /\ e[2] = v) \/ (e[1] = v /\ e[2] = u)
      <4> HIDE DEF u, v
      <4> QED BY <3>1
    <3>3. q \in P
      BY <1>2, <3>2
    <3>4. q[1] = u /\ q[2] = v
      OBVIOUS
    <3>5. hop[q] = Map(Ref(v), Ref(u))
      <4> HIDE DEF q, u, v
      <4> QED BY <1>3, <3>3, <3>4 DEF Inverted, Map
    <3>6. k \in 1 .. m /\ k - 1 \in 1 .. m
      BY <2>2
    <3>7. frame[path[k]] = Ref(v) /\ frame[path[k - 1]] = Ref(u)
      <4> HIDE DEF frame
      <4> QED BY <2>3, <3>6
    <3> QED BY <3>5, <3>7
  <2>5. 1 \in 1 .. m /\ m \in 1 .. m
    BY <2>2
  <2> HIDE DEF frame
  <2>6. Along(frame[path[1]], path, hop) = Map(frame[path[m]], frame[path[1]])
    BY <2>2, <2>4, AlongPath
  <2>7. frame[path[1]] = Ref(Min(comp[i + 1])) /\ frame[path[m]] = Ref(o)
    BY <2>1, <2>2, <2>3, <2>5
  <2> QED BY <2>6, <2>7 DEF path
<1>6. ASSUME NEW i \in 0 .. n - 1, NEW b \in UNION {BoardsOf(o) : o \in comp[i + 1]}
      PROVE  Compose(Along(Ref(Min(comp[i + 1])), route[Holder(b)], hop),
                     object_3d[Holder(b)].pose[b]) = Map(b, Ref(Min(comp[i + 1])))
  <2>1. PICK o \in comp[i + 1] : b \in BoardsOf(o)
    OBVIOUS
  <2>2. o \in D
    BY <1>2, <1>4
  <2>3. \A p \in D : b \in BoardsOf(p) => p = o
    BY <2>1, <2>2 DEF Shape, Objects
  <2>4. Holder(b) = o
    BY <2>1, <2>2, <2>3
  <2>5. object_3d[o].pose[b] = Map(b, Ref(o))
    BY <2>1, <2>2 DEF BoardPosesSound
  <2> HIDE DEF Holder, Ref
  <2>6. Along(Ref(Min(comp[i + 1])), route[o], hop) = Map(Ref(o), Ref(Min(comp[i + 1])))
    BY <1>5
  <2> QED BY <2>4, <2>5, <2>6, ComposeMaps
<1> DEFINE moved(i, b) == Compose(Along(Ref(Min(comp[i + 1])), route[Holder(b)], hop),
                                  object_3d[Holder(b)].pose[b])
<1>7. object_3d' = [i \in 0 .. n - 1 |->
                      [ref  |-> Ref(Min(comp[i + 1])),
                       pose |-> [b \in UNION {BoardsOf(o) : o \in comp[i + 1]} |-> moved(i, b)]]]
  BY <1>1
<1>8. \A i \in 0 .. n - 1 : \A b \in UNION {BoardsOf(o) : o \in comp[i + 1]} :
         moved(i, b) = Map(b, Ref(Min(comp[i + 1])))
  BY <1>6
<1> HIDE DEF moved
<1>9. \A i \in DOMAIN object_3d' :
         /\ i \in 0 .. n - 1 /\ object_3d'[i].ref = Ref(Min(comp[i + 1]))
         /\ BoardsOf(i)' = UNION {BoardsOf(o) : o \in comp[i + 1]}
         /\ \A b \in BoardsOf(i)' : object_3d'[i].pose[b] = moved(i, b)
  BY <1>7 DEF BoardsOf
<1> HIDE DEF Ref
<1>10. ASSUME NEW i \in DOMAIN object_3d', NEW b \in BoardsOf(i)'
       PROVE  object_3d'[i].pose[b] = Map(b, object_3d'[i].ref)
  BY <1>8, <1>9
<1> QED BY <1>10 DEF BoardPosesSound

\* Whatever shortest paths shortestPathBetween returns, init3DObjects and
\* mergeObjects place every board in the frame of its object's reference.
THEOREM BoardsArePlaced == Spec => []BoardPosesSound
<1>1. Init => BoardPosesSound
  <2> SUFFICES ASSUME Init
               PROVE  BoardPosesSound
    OBVIOUS
  <2>1. DOMAIN object_3d = {}
    BY DEF Init
  <2> QED BY <2>1 DEF BoardPosesSound
<1>2. Shape /\ BoardPosesSound /\ [Next]_vars => BoardPosesSound'
  <2> SUFFICES ASSUME Shape, BoardPosesSound, [Next]_vars
               PROVE  BoardPosesSound'
    OBVIOUS
  <2>1. step \in 1 .. 30
    BY DEF Shape, Sizes
  <2>2. CASE Init3DObjects
    <3>1. step = 3
      BY <2>1, <2>2, CallPlaces DEF Init3DObjects, Call
    <3> QED BY <2>2, <3>1, InitialPoses
  <2>3. CASE MergeObjects
    <3>1. step \in {12, 23}
      BY <2>1, <2>3, CallPlaces DEF MergeObjects, Call
    <3> QED BY <2>3, <3>1, MergedPoses
  <2>4. CASE FindPoseNoOverlapAllCamGroup
    <3>1. step = 16
      BY <2>1, <2>4, CallPlaces DEF FindPoseNoOverlapAllCamGroup, Call
    <3>2. /\ \A o \in DOMAIN object_3d : object_3d'[o] = object_3d[o]
          /\ \A o \in DOMAIN object_3d' \ DOMAIN object_3d : object_3d'[o] = NullObject
      BY <2>4, <3>1, PosedObjects
    <3>3. ASSUME NEW o \in DOMAIN object_3d', NEW b \in BoardsOf(o)'
          PROVE  object_3d'[o].pose[b] = Map(b, object_3d'[o].ref)
      <4>1. CASE o \in DOMAIN object_3d
        BY <3>2, <4>1 DEF BoardPosesSound, BoardsOf
      <4>2. CASE o \notin DOMAIN object_3d
        BY <3>2, <4>2 DEF BoardsOf, NullObject
      <4> QED BY <4>1, <4>2
    <3> QED BY <3>3 DEF BoardPosesSound
  <2>5. CASE object_3d' = object_3d
    BY <2>5 DEF BoardPosesSound, BoardsOf
  <2> QED BY <2>2, <2>3, <2>4, <2>5, Changes
<1> QED BY <1>1, <1>2, ShapeInvariant, PTL DEF Spec

-----------------------------------------------------------------------------
(* Objects and groups are exactly what the images justify.                 *)

\* Nothing is linked across two parts.
Apart(P, L) == \A l \in L, p \in P : l[1] \in p => l[2] \in p

\* No part falls into unlinked halves.
Whole(P, L) ==
    \A p \in P : \A q \in (SUBSET p) \ {{}, p} : \E l \in L : l[1] \in q /\ l[2] \in p \ q

\* Objects are finest partitions under the links of the images up to the first
\* merge, and of the images and the groups after it; parts are never too large
\* from then on, and not too small until groups are merged.
ObjectsJust ==
    /\ step \in 4 .. 12 =>
          UNION ObjectParts = {d[3] : d \in seen} /\ Whole(ObjectParts, ImageLinks)
    /\ step >= 4 => /\ Apart(ObjectParts, ImageLinks)
                    /\ Whole(ObjectParts, ImageLinks \cup GroupLinks)
    /\ step \in (13 .. 18) \cup (24 .. 27) => Apart(ObjectParts, GroupLinks)

GroupsJust ==
    step \in 8 .. 12 => /\ UNION GroupParts = {d[1] : d \in seen}
                        /\ Apart(GroupParts, ObjectLinks)
                        /\ Whole(GroupParts, ObjectLinks)

\* The graph has an edge for each link, in one direction at least, and none else.
Joins(h, L) ==
    /\ \A e \in h.edge : <<e[1], e[2]>> \in L /\ <<e[2], e[1]>> \in L
    /\ \A l \in L : \/ l[1] = l[2]
                    \/ \E e \in h.edge : e[1] = l[1] /\ e[2] = l[2]
                    \/ \E e \in h.edge : e[1] = l[2] /\ e[2] = l[1]

PartsOf(h) ==
    LET comp == ConnectedComponents(h)
    IN  {comp[i + 1] : i \in 0 .. Len(comp) - 1}

\* The components of a graph are the finest partition its links allow.
LEMMA ComponentsFinest ==
    ASSUME NEW h, IsGraph(h), NEW L, Joins(h, L)
    PROVE  Apart(PartsOf(h), L) /\ Whole(PartsOf(h), L) /\ UNION PartsOf(h) = Vertices(h)
<1> DEFINE comp == ConnectedComponents(h)
           P == {comp[i + 1] : i \in 0 .. Len(comp) - 1}
<1>1. /\ \A p \in P : /\ p \subseteq Vertices(h) /\ p # {}
                      /\ \A v \in p : p = Component(h, v)
      /\ \A v \in Vertices(h) : \E p \in P : v \in p
  <2>1. comp = ConnectedComponents(h)
    OBVIOUS
  <2> HIDE DEF comp
  <2> QED BY <2>1, ComponentsDivide
<1> HIDE DEF P
<1>2. ASSUME NEW l \in L, NEW p \in P, l[1] \in p
      PROVE  l[2] \in p
  <2>1. CASE l[1] = l[2]
    BY <1>2, <2>1
  <2>2. p = Component(h, l[1]) /\ l[1] \in Vertices(h)
    BY <1>1, <1>2
  <2>3. p \in Closed(h, l[1])
    BY <2>2, ComponentClosed
  <2>4. \A e \in h.edge : e[1] \in p <=> e[2] \in p
    BY <2>3 DEF Closed
  <2>5. CASE \E e \in h.edge : e[1] = l[1] /\ e[2] = l[2]
    BY <1>2, <2>4, <2>5
  <2>6. CASE \E e \in h.edge : e[1] = l[2] /\ e[2] = l[1]
    BY <1>2, <2>4, <2>6
  <2> QED BY <2>1, <2>5, <2>6 DEF Joins
<1>3. ASSUME NEW p \in P, NEW q \in (SUBSET p) \ {{}, p}
      PROVE  \E l \in L : l[1] \in q /\ l[2] \in p \ q
  <2>1. PICK v \in p : p = Component(h, v) /\ v \in Vertices(h)
    BY <1>1
  <2>2. PICK e \in h.edge : \/ e[1] \in q /\ e[2] \in p \ q
                            \/ e[2] \in q /\ e[1] \in p \ q
    BY <2>1, ComponentWhole
  <2>3. <<e[1], e[2]>> \in L /\ <<e[2], e[1]>> \in L
    BY DEF Joins
  <2>4. CASE e[1] \in q /\ e[2] \in p \ q
    <3> DEFINE l == <<e[1], e[2]>>
    <3>1. l \in L /\ l[1] \in q /\ l[2] \in p \ q
      BY <2>3, <2>4
    <3> QED BY <3>1
  <2>5. CASE e[2] \in q /\ e[1] \in p \ q
    <3> DEFINE l == <<e[2], e[1]>>
    <3>1. l \in L /\ l[1] \in q /\ l[2] \in p \ q
      BY <2>3, <2>5
    <3> QED BY <3>1
  <2> QED BY <2>2, <2>4, <2>5
<1>4. UNION P = Vertices(h)
  BY <1>1
<1>5. Apart(P, L) /\ Whole(P, L)
  BY <1>2, <1>3 DEF Apart, Whole
<1>6. P = PartsOf(h)
  BY DEF P, PartsOf
<1> QED BY <1>4, <1>5, <1>6

\* A part that some links keep whole is kept whole by more.
LEMMA MoreLinks ==
    ASSUME NEW P, NEW L, NEW M, L \subseteq M, Whole(P, L)
    PROVE  Whole(P, M)
BY DEF Whole

\* What the three kinds of links relate.
LEMMA Links ==
    /\ \A l \in ImageLinks : \E d, e \in seen :
          l = <<d[3], e[3]>> /\ d[1] = e[1] /\ d[2] = e[2]
    /\ \A d, e \in seen : d[1] = e[1] /\ d[2] = e[2] => <<d[3], e[3]>> \in ImageLinks
    /\ \A l \in GroupLinks : \E d, e \in kept, g \in DOMAIN cam_group :
          l = <<d[3], e[3]>> /\ d[2] = e[2] /\ d[1] \in CamsOf(g) /\ e[1] \in CamsOf(g)
    /\ \A d, e \in kept, g \in DOMAIN cam_group :
          d[2] = e[2] /\ d[1] \in CamsOf(g) /\ e[1] \in CamsOf(g) =>
             <<d[3], e[3]>> \in GroupLinks
    /\ \A l \in ObjectLinks : \E d, e \in kept, o \in DOMAIN object_3d :
          l = <<d[1], e[1]>> /\ d[2] = e[2] /\ d[3] \in BoardsOf(o) /\ e[3] \in BoardsOf(o)
    /\ \A d, e \in kept, o \in DOMAIN object_3d :
          d[2] = e[2] /\ d[3] \in BoardsOf(o) /\ e[3] \in BoardsOf(o) =>
             <<d[1], e[1]>> \in ObjectLinks
<1>1. ASSUME NEW l \in ImageLinks
      PROVE  \E d, e \in seen : l = <<d[3], e[3]>> /\ d[1] = e[1] /\ d[2] = e[2]
  <2>1. PICK p \in {q \in seen \X seen : q[1][1] = q[2][1] /\ q[1][2] = q[2][2]} :
             l = <<p[1][3], p[2][3]>>
    BY DEF ImageLinks
  <2>2. p[1] \in seen /\ p[2] \in seen
    BY <2>1
  <2> QED BY <2>1, <2>2
<1>2. ASSUME NEW d \in seen, NEW e \in seen, d[1] = e[1], d[2] = e[2]
      PROVE  <<d[3], e[3]>> \in ImageLinks
  <2> DEFINE p == <<d, e>>
  <2>1. p \in seen \X seen /\ p[1] = d /\ p[2] = e
    OBVIOUS
  <2> HIDE DEF p
  <2>2. <<p[1][3], p[2][3]>> \in ImageLinks
    BY <1>2, <2>1 DEF ImageLinks
  <2> QED BY <2>1, <2>2
<1>3. ASSUME NEW l \in GroupLinks
      PROVE  \E d, e \in kept, g \in DOMAIN cam_group :
                l = <<d[3], e[3]>> /\ d[2] = e[2] /\ d[1] \in CamsOf(g) /\ e[1] \in CamsOf(g)
  <2>1. PICK p \in {q \in kept \X kept :
                      /\ q[1][2] = q[2][2]
                      /\ \E g \in DOMAIN cam_group : {q[1][1], q[2][1]} \subseteq CamsOf(g)} :
             l = <<p[1][3], p[2][3]>>
    BY DEF GroupLinks
  <2>2. p[1] \in kept /\ p[2] \in kept
    BY <2>1
  <2> QED BY <2>1, <2>2
<1>4. ASSUME NEW d \in kept, NEW e \in kept, NEW g \in DOMAIN cam_group,
             d[2] = e[2], d[1] \in CamsOf(g), e[1] \in CamsOf(g)
      PROVE  <<d[3], e[3]>> \in GroupLinks
  <2> DEFINE p == <<d, e>>
  <2>1. p \in kept \X kept /\ p[1] = d /\ p[2] = e
    OBVIOUS
  <2> HIDE DEF p
  <2>2. p[1][2] = p[2][2] /\ {p[1][1], p[2][1]} \subseteq CamsOf(g)
    BY <1>4, <2>1
  <2>3. <<p[1][3], p[2][3]>> \in GroupLinks
    BY <2>1, <2>2 DEF GroupLinks
  <2> QED BY <2>1, <2>3
<1>5. ASSUME NEW l \in ObjectLinks
      PROVE  \E d, e \in kept, o \in DOMAIN object_3d :
                l = <<d[1], e[1]>> /\ d[2] = e[2] /\ d[3] \in BoardsOf(o) /\ e[3] \in BoardsOf(o)
  <2>1. PICK p \in {q \in kept \X kept :
                      /\ q[1][2] = q[2][2]
                      /\ \E o \in DOMAIN object_3d : {q[1][3], q[2][3]} \subseteq BoardsOf(o)} :
             l = <<p[1][1], p[2][1]>>
    BY DEF ObjectLinks
  <2>2. p[1] \in kept /\ p[2] \in kept
    BY <2>1
  <2> QED BY <2>1, <2>2
<1>6. ASSUME NEW d \in kept, NEW e \in kept, NEW o \in DOMAIN object_3d,
             d[2] = e[2], d[3] \in BoardsOf(o), e[3] \in BoardsOf(o)
      PROVE  <<d[1], e[1]>> \in ObjectLinks
  <2> DEFINE p == <<d, e>>
  <2>1. p \in kept \X kept /\ p[1] = d /\ p[2] = e
    OBVIOUS
  <2> HIDE DEF p
  <2>2. p[1][2] = p[2][2] /\ {p[1][3], p[2][3]} \subseteq BoardsOf(o)
    BY <1>6, <2>1
  <2>3. <<p[1][1], p[2][1]>> \in ObjectLinks
    BY <2>1, <2>2 DEF ObjectLinks
  <2> QED BY <2>1, <2>3
<1> QED BY <1>1, <1>2, <1>3, <1>4, <1>5, <1>6

\* init3DObjects makes the finest partition under the images.
LEMMA InitialObjectsJust ==
    ASSUME Shape, Init3DObjects, step = 3, seen' = seen
    PROVE  /\ UNION ObjectParts' = {d[3] : d \in seen}
           /\ Apart(ObjectParts', ImageLinks) /\ Whole(ObjectParts', ImageLinks)
<1> DEFINE h == covis_boards_graph
           comp == ConnectedComponents(h)
           n == Len(comp)
           P == {comp[i + 1] : i \in 0 .. n - 1}
<1>1. /\ DOMAIN object_3d' = 0 .. n - 1
      /\ \A i \in 0 .. n - 1 : BoardsOf(i)' = comp[i + 1]
  BY ObjectsMade
<1>2. /\ IsGraph(h) /\ Vertices(h) = {d[3] : d \in seen}
      /\ \A e \in h.edge : \E p, q \in seen :
            p[3] = e[1] /\ q[3] = e[2] /\ e[1] # e[2] /\ Alike(p, q, {1, 2})
      /\ \A p, q \in seen : p[3] # q[3] /\ Alike(p, q, {1, 2}) =>
            \E e \in h.edge : e[1] = p[3] /\ e[2] = q[3]
  BY BoardsGraph DEF Shape
<1> HIDE DEF h
<1>3. \A i \in 0 .. n - 1 : comp[i + 1] # {}
  BY <1>2, ComponentsDivide
<1>4. ObjectParts' = P
  <2>1. ObjectParts' = {BoardsOf(o)' : o \in DOMAIN object_3d'} \ {{}}
    BY DEF ObjectParts
  <2> HIDE DEF comp, n
  <2> QED BY <1>1, <1>3, <2>1
<1>5. ASSUME NEW e \in h.edge
      PROVE  <<e[1], e[2]>> \in ImageLinks /\ <<e[2], e[1]>> \in ImageLinks
  <2>1. PICK p \in seen, q \in seen : p[3] = e[1] /\ q[3] = e[2] /\ Alike(p, q, {1, 2})
    BY <1>2
  <2>2. p[1] = q[1] /\ p[2] = q[2]
    BY <2>1 DEF Alike
  <2>3. <<p[3], q[3]>> \in ImageLinks /\ <<q[3], p[3]>> \in ImageLinks
    BY <2>2, Links
  <2> QED BY <2>1, <2>3
<1>6. ASSUME NEW l \in ImageLinks
      PROVE  l[1] = l[2] \/ \E e \in h.edge : e[1] = l[1] /\ e[2] = l[2]
  <2>1. PICK p \in seen, q \in seen : l = <<p[3], q[3]>> /\ p[1] = q[1] /\ p[2] = q[2]
    BY Links
  <2>2. l[1] = p[3] /\ l[2] = q[3] /\ Alike(p, q, {1, 2})
    BY <2>1 DEF Alike
  <2> QED BY <1>2, <2>2
<1>7. Apart(P, ImageLinks) /\ Whole(P, ImageLinks) /\ UNION P = Vertices(h)
  <2>1. P = PartsOf(h)
    BY DEF PartsOf
  <2>2. Joins(h, ImageLinks)
    BY <1>5, <1>6 DEF Joins
  <2>3. IsGraph(h)
    BY <1>2
  <2> HIDE DEF P
  <2> QED BY <2>1, <2>2, <2>3, ComponentsFinest
<1> QED BY <1>2, <1>4, <1>7

\* initCameraGroup makes the finest partition under the objects.
LEMMA InitialGroupsJust ==
    ASSUME Shape, InitCameraGroup, step = 7, kept' = kept, object_3d' = object_3d
    PROVE  /\ UNION GroupParts' = {d[1] : d \in seen}
           /\ Apart(GroupParts', ObjectLinks) /\ Whole(GroupParts', ObjectLinks)
<1> DEFINE h == covis_camera_graph
           comp == ConnectedComponents(h)
           n == Len(comp)
           P == {comp[i + 1] : i \in 0 .. n - 1}
<1>1. /\ DOMAIN cam_group' = 0 .. n - 1
      /\ \A i \in 0 .. n - 1 : CamsOf(i)' = comp[i + 1]
  BY GroupsMade
<1>2. /\ IsGraph(h) /\ Vertices(h) = {d[1] : d \in seen}
      /\ \A e \in h.edge : \E p, q \in object_observations :
            p[1] = e[1] /\ q[1] = e[2] /\ e[1] # e[2] /\ Alike(p, q, {2, 3})
      /\ \A p, q \in object_observations : p[1] # q[1] /\ Alike(p, q, {2, 3}) =>
            \E e \in h.edge : e[1] = p[1] /\ e[2] = q[1]
  BY CamerasGraph DEF Shape
<1> HIDE DEF h
<1>3. object_observations = Init3DObjectObs
  BY DEF Shape, Fresh
<1>4. GroupParts' = P
  <2>1. GroupParts' = {CamsOf(g)' : g \in DOMAIN cam_group'}
    BY DEF GroupParts
  <2> HIDE DEF comp, n
  <2> QED BY <1>1, <2>1
<1>5. ASSUME NEW e \in h.edge
      PROVE  <<e[1], e[2]>> \in ObjectLinks /\ <<e[2], e[1]>> \in ObjectLinks
  <2>1. PICK p \in object_observations, q \in object_observations :
             p[1] = e[1] /\ q[1] = e[2] /\ Alike(p, q, {2, 3})
    BY <1>2
  <2>2. p[2] = q[2] /\ p[3] = q[3]
    BY <2>1 DEF Alike
  <2>3. PICK d \in kept : /\ d[3] \in BoardsOf(p[3]) /\ p = <<d[1], d[2], p[3]>>
                          /\ p[3] \in DOMAIN object_3d
    BY <1>3, ObjectObserved
  <2>4. PICK x \in kept : x[3] \in BoardsOf(q[3]) /\ q = <<x[1], x[2], q[3]>>
    BY <1>3, ObjectObserved
  <2>5. p[1] = d[1] /\ q[1] = x[1] /\ p[2] = d[2] /\ q[2] = x[2]
    BY <2>3, <2>4
  <2>6. <<d[1], x[1]>> \in ObjectLinks /\ <<x[1], d[1]>> \in ObjectLinks
    BY <2>2, <2>3, <2>4, <2>5, Links
  <2> QED BY <2>1, <2>5, <2>6
<1>6. ASSUME NEW l \in ObjectLinks
      PROVE  l[1] = l[2] \/ \E e \in h.edge : e[1] = l[1] /\ e[2] = l[2]
  <2>1. PICK d \in kept, x \in kept, o \in DOMAIN object_3d :
             /\ l = <<d[1], x[1]>> /\ d[2] = x[2]
             /\ d[3] \in BoardsOf(o) /\ x[3] \in BoardsOf(o)
    BY Links
  <2> DEFINE p == <<d[1], d[2], o>>
             q == <<x[1], x[2], o>>
  <2>2. p \in object_observations /\ q \in object_observations
    BY <1>3, <2>1, ObjectObserved
  <2>3. /\ p[1] = l[1] /\ q[1] = l[2] /\ p[2] = q[2] /\ p[3] = q[3]
    BY <2>1
  <2> HIDE DEF p, q
  <2>4. Alike(p, q, {2, 3})
    BY <2>3 DEF Alike
  <2> QED BY <1>2, <2>2, <2>3, <2>4
<1>7. Apart(P, ObjectLinks) /\ Whole(P, ObjectLinks) /\ UNION P = Vertices(h)
  <2>1. P = PartsOf(h)
    BY DEF PartsOf
  <2>2. Joins(h, ObjectLinks)
    BY <1>5, <1>6 DEF Joins
  <2>3. IsGraph(h)
    BY <1>2
  <2> HIDE DEF P
  <2> QED BY <2>1, <2>2, <2>3, ComponentsFinest
<1> QED BY <1>2, <1>4, <1>7

\* A merged object is as whole as those it is made of, and two objects of one
\* group and frame are not left apart.
LEMMA MergedObjectsJust ==
    ASSUME Shape, ObjectsJust, MergeObjects, step \in {12, 23}
    PROVE  /\ Apart(ObjectParts', ImageLinks) /\ Apart(ObjectParts', GroupLinks)
           /\ Whole(ObjectParts', ImageLinks \cup GroupLinks)
<1> DEFINE h == covis_objects_graph
           comp == ConnectedComponents(h)
           n == Len(comp)
           D == DOMAIN object_3d
           M == ImageLinks \cup GroupLinks
<1>1. /\ DOMAIN object_3d' = 0 .. n - 1
      /\ \A i \in 0 .. n - 1 : BoardsOf(i)' = UNION {BoardsOf(o) : o \in comp[i + 1]}
  BY ObjectsMerged
<1>2. /\ IsGraph(h) /\ Vertices(h) = {d[3] : d \in object_observations}
      /\ Vertices(h) \subseteq D
      /\ \A e \in h.edge : \E p, q \in cams_group_obs :
            p[4] = e[1] /\ q[4] = e[2] /\ e[1] # e[2] /\ Alike(p, q, {1, 2})
      /\ \A p, q \in cams_group_obs : p[4] # q[4] /\ Alike(p, q, {1, 2}) =>
            \E e \in h.edge : e[1] = p[4] /\ e[2] = q[4]
  BY ObjectsGraph
<1> HIDE DEF h
<1>3. \A i \in 0 .. n - 1 : /\ comp[i + 1] \subseteq Vertices(h)
                            /\ \A v \in comp[i + 1] : comp[i + 1] = Component(h, v)
  BY <1>2, ComponentsDivide
<1>4. \A v \in Vertices(h) : \E i \in 0 .. n - 1 : v \in comp[i + 1]
  BY <1>2, ComponentsDivide
<1> HIDE DEF comp, n
<1>5. /\ object_observations = Init3DObjectObs /\ cams_group_obs = InitCameraGroupObs
      /\ Apart(ObjectParts, ImageLinks) /\ Whole(ObjectParts, M)
  BY DEF Shape, Fresh, ObjectsJust
<1>6. /\ \A o \in D : BoardsOf(o) # {}
      /\ \A o, p \in D : BoardsOf(o) \cap BoardsOf(p) # {} => o = p
  <2>1. \A o \in D : object_3d[o].ref \in BoardsOf(o)
    BY DEF Shape, Objects
  <2> QED BY <2>1 DEF Shape, Objects
<1>7. \A o \in D : BoardsOf(o) \in ObjectParts
  BY <1>6 DEF ObjectParts
<1>8. ObjectParts' = {BoardsOf(i)' : i \in 0 .. n - 1} \ {{}}
  BY <1>1 DEF ObjectParts
<1>9. \A P \in ObjectParts' : \E i \in 0 .. n - 1 : P = UNION {BoardsOf(o) : o \in comp[i + 1]}
  BY <1>1, <1>8
<1>10. Apart(ObjectParts', ImageLinks)
  <2> SUFFICES ASSUME NEW l \in ImageLinks, NEW P \in ObjectParts', l[1] \in P
               PROVE  l[2] \in P
    BY DEF Apart
  <2>1. PICK i \in 0 .. n - 1 : P = UNION {BoardsOf(o) : o \in comp[i + 1]}
    BY <1>9
  <2>2. PICK o \in comp[i + 1] : l[1] \in BoardsOf(o)
    BY <2>1
  <2>3. BoardsOf(o) \in ObjectParts
    BY <1>2, <1>3, <1>7
  <2>4. l[2] \in BoardsOf(o)
    BY <1>5, <2>2, <2>3 DEF Apart
  <2> QED BY <2>1, <2>4
\* How a measured board is observed by its group.
<1>11. ASSUME NEW d \in kept, NEW g \in DOMAIN cam_group, d[1] \in CamsOf(g),
              NEW o \in D, d[3] \in BoardsOf(o)
       PROVE  o \in Vertices(h) /\ <<g, d[2], d[1], o>> \in cams_group_obs
  <2> DEFINE e == <<d[1], d[2], o>>
  <2>1. e \in object_observations /\ e[1] = d[1] /\ e[2] = d[2] /\ e[3] = o
    BY <1>5, <1>11, ObjectObserved
  <2> HIDE DEF e
  <2>2. <<g, e[2], e[1], e[3]>> \in cams_group_obs
    BY <1>5, <1>11, <2>1, GroupObserved
  <2> QED BY <1>2, <2>1, <2>2
<1>12. Apart(ObjectParts', GroupLinks)
  <2> SUFFICES ASSUME NEW l \in GroupLinks, NEW P \in ObjectParts', l[1] \in P
               PROVE  l[2] \in P
    BY DEF Apart
  <2>1. PICK i \in 0 .. n - 1 : P = UNION {BoardsOf(o) : o \in comp[i + 1]}
    BY <1>9
  <2>2. PICK o \in comp[i + 1] : l[1] \in BoardsOf(o)
    BY <2>1
  <2>3. PICK d \in kept, e \in kept, g \in DOMAIN cam_group :
             l = <<d[3], e[3]>> /\ d[2] = e[2] /\ d[1] \in CamsOf(g) /\ e[1] \in CamsOf(g)
    BY Links
  <2>4. l[1] = d[3] /\ l[2] = e[3]
    BY <2>3
  <2>5. PICK p \in D : e[3] \in BoardsOf(p)
    BY DEF Shape, Objects
  <2>6. o \in D
    BY <1>2, <1>3
  <2> DEFINE u == <<g, d[2], d[1], o>>
             v == <<g, e[2], e[1], p>>
  <2>7. u \in cams_group_obs /\ v \in cams_group_obs
    BY <1>11, <2>2, <2>3, <2>4, <2>5, <2>6
  <2>8. u[4] = o /\ v[4] = p /\ u[1] = v[1] /\ u[2] = v[2]
    BY <2>3
  <2> HIDE DEF u, v
  <2>9. Alike(u, v, {1, 2})
    BY <2>8 DEF Alike
  <2>10. p \in comp[i + 1]
    <3>1. CASE p = o
      BY <3>1
    <3>2. CASE p # o
      <4>1. PICK x \in h.edge : x[1] = o /\ x[2] = p
        BY <1>2, <2>7, <2>8, <2>9, <3>2
      <4>2. comp[i + 1] = Component(h, o) /\ o \in Vertices(h)
        BY <1>3
      <4>3. comp[i + 1] \in Closed(h, o)
        BY <1>2, <4>2, ComponentClosed
      <4> QED BY <4>1, <4>3 DEF Closed
    <3> QED BY <3>1, <3>2
  <2> QED BY <2>1, <2>4, <2>5, <2>10
<1>13. Whole(ObjectParts', M)
  <2> SUFFICES ASSUME NEW P \in ObjectParts', NEW q \in (SUBSET P) \ {{}, P}
               PROVE  \E l \in M : l[1] \in q /\ l[2] \in P \ q
    BY DEF Whole
  <2>1. PICK i \in 0 .. n - 1 : P = UNION {BoardsOf(o) : o \in comp[i + 1]}
    BY <1>9
  <2>2. \A o \in comp[i + 1] : BoardsOf(o) \in ObjectParts /\ o \in D /\ BoardsOf(o) \subseteq P
    BY <1>2, <1>3, <1>7, <2>1
  <2>3. CASE \E o \in comp[i + 1] : BoardsOf(o) \cap q # {} /\ ~(BoardsOf(o) \subseteq q)
    <3>1. PICK o \in comp[i + 1] : BoardsOf(o) \cap q # {} /\ ~(BoardsOf(o) \subseteq q)
      BY <2>3
    <3> DEFINE r == BoardsOf(o) \cap q
    <3>2. r \in (SUBSET BoardsOf(o)) \ {{}, BoardsOf(o)}
      BY <3>1
    <3> HIDE DEF r
    <3>3. PICK l \in M : l[1] \in r /\ l[2] \in BoardsOf(o) \ r
      BY <1>5, <2>2, <3>2 DEF Whole
    <3> QED BY <2>2, <3>3 DEF r
  <2>4. CASE \A o \in comp[i + 1] : BoardsOf(o) \cap q = {} \/ BoardsOf(o) \subseteq q
    <3> DEFINE Q == {o \in comp[i + 1] : BoardsOf(o) \subseteq q}
    <3>1. PICK b : b \in q
      OBVIOUS
    <3>2. PICK o \in comp[i + 1] : b \in BoardsOf(o)
      BY <2>1, <3>1
    <3>3. o \in Q
      BY <2>4, <3>1, <3>2
    <3>4. PICK c : c \in P /\ c \notin q
      OBVIOUS
    <3>5. PICK p \in comp[i + 1] : c \in BoardsOf(p)
      BY <2>1, <3>4
    <3>6. p \notin Q
      BY <3>4, <3>5
    <3>7. comp[i + 1] = Component(h, o) /\ o \in Vertices(h)
      BY <1>3
    <3>8. PICK e \in h.edge : \/ e[1] \in Q /\ e[2] \in comp[i + 1] \ Q
                              \/ e[2] \in Q /\ e[1] \in comp[i + 1] \ Q
      <4>1. Q \in SUBSET comp[i + 1] /\ Q # {} /\ Q # comp[i + 1]
        BY <3>3, <3>5, <3>6
      <4> HIDE DEF Q
      <4> QED BY <1>2, <3>7, <4>1, ComponentWhole
    <3>9. PICK u \in cams_group_obs, v \in cams_group_obs :
               u[4] = e[1] /\ v[4] = e[2] /\ Alike(u, v, {1, 2})
      BY <1>2
    <3>10. u[1] = v[1] /\ u[2] = v[2]
      BY <3>9 DEF Alike
    <3>11. PICK x \in object_observations :
                x[1] \in CamsOf(u[1]) /\ u = <<u[1], x[2], x[1], x[3]>> /\ u[1] \in DOMAIN cam_group
      BY <1>5, GroupObserved
    <3>12. PICK y \in object_observations :
                y[1] \in CamsOf(v[1]) /\ v = <<v[1], y[2], y[1], y[3]>>
      BY <1>5, GroupObserved
    <3>13. PICK d \in kept : d[3] \in BoardsOf(x[3]) /\ x = <<d[1], d[2], x[3]>>
      BY <1>5, ObjectObserved
    <3>14. PICK f \in kept : f[3] \in BoardsOf(y[3]) /\ y = <<f[1], f[2], y[3]>>
      BY <1>5, ObjectObserved
    <3>15. /\ u[4] = x[3] /\ u[2] = x[2] /\ v[4] = y[3] /\ v[2] = y[2]
           /\ x[1] = d[1] /\ x[2] = d[2] /\ y[1] = f[1] /\ y[2] = f[2]
      BY <3>11, <3>12, <3>13, <3>14
    <3>16. d[3] \in BoardsOf(e[1]) /\ f[3] \in BoardsOf(e[2])
      BY <3>9, <3>13, <3>14, <3>15
    <3>17. <<d[3], f[3]>> \in M /\ <<f[3], d[3]>> \in M
      <4>1. d[2] = f[2] /\ d[1] \in CamsOf(u[1]) /\ f[1] \in CamsOf(u[1])
        BY <3>10, <3>11, <3>12, <3>15
      <4>2. <<d[3], f[3]>> \in GroupLinks /\ <<f[3], d[3]>> \in GroupLinks
        BY <3>11, <4>1, Links
      <4> QED BY <4>2
    <3>18. \A o1 \in Q, o2 \in comp[i + 1] \ Q :
              BoardsOf(o1) \subseteq q /\ BoardsOf(o2) \subseteq P \ q
      BY <2>2, <2>4
    <3> HIDE DEF Q, M
    <3>19. CASE e[1] \in Q /\ e[2] \in comp[i + 1] \ Q
      <4> DEFINE l == <<d[3], f[3]>>
      <4>1. l[1] = d[3] /\ l[2] = f[3] /\ l \in M
        BY <3>17
      <4>2. d[3] \in q /\ f[3] \in P \ q
        BY <3>16, <3>18, <3>19
      <4> QED BY <4>1, <4>2
    <3>20. CASE e[2] \in Q /\ e[1] \in comp[i + 1] \ Q
      <4> DEFINE l == <<f[3], d[3]>>
      <4>1. l[1] = f[3] /\ l[2] = d[3] /\ l \in M
        BY <3>17
      <4>2. f[3] \in q /\ d[3] \in P \ q
        BY <3>16, <3>18, <3>20
      <4> QED BY <4>1, <4>2
    <3> QED BY <3>8, <3>19, <3>20
  <2> QED BY <2>3, <2>4
<1> QED BY <1>10, <1>12, <1>13

\* A group that measured something moves as a whole into a new group.
LEMMA GroupsMove ==
    ASSUME Shape, MergeCameraGroup, step \in {18, 27},
           NEW d \in kept, NEW g \in DOMAIN cam_group, d[1] \in CamsOf(g)
    PROVE  \E i \in DOMAIN cam_group' : CamsOf(g) \subseteq CamsOf(i)'
<1> DEFINE h == no_overlap_camgroup_graph
           comp == ConnectedComponents(h)
           n == Len(comp)
<1>1. /\ DOMAIN cam_group' = 0 .. n - 1
      /\ \A i \in 0 .. n - 1 :
            CamsOf(i)' = UNION {CamsOf(k) : k \in comp[i + 1] \cap DOMAIN cam_group}
  BY GroupsMerged
<1>2. IsGraph(h) /\ {t[1] : t \in cams_group_obs} \subseteq Vertices(h)
  BY GroupsGraph
<1> HIDE DEF h
<1>3. \A v \in Vertices(h) : \E i \in 0 .. n - 1 : v \in comp[i + 1]
  BY <1>2, ComponentsDivide
<1> HIDE DEF n, comp
<1>4. PICK o \in DOMAIN object_3d : d[3] \in BoardsOf(o)
  BY DEF Shape, Objects
<1> DEFINE e == <<d[1], d[2], o>>
           t == <<g, d[2], d[1], o>>
<1>5. e \in object_observations /\ e[1] = d[1] /\ e[2] = d[2] /\ e[3] = o
  BY <1>4, ObjectObserved DEF Shape, Fresh
<1>6. t = <<g, e[2], e[1], e[3]>> /\ t[1] = g
  BY <1>5
<1> HIDE DEF e, t
<1>7. t \in cams_group_obs
  BY <1>5, <1>6, GroupObserved DEF Shape, Fresh
<1>8. PICK i \in 0 .. n - 1 : g \in comp[i + 1]
  BY <1>2, <1>3, <1>6, <1>7
<1>9. CamsOf(g) \subseteq CamsOf(i)'
  BY <1>1, <1>8
<1> QED BY <1>1, <1>9

\* Merging groups links more boards, never fewer.
LEMMA GroupLinksGrow ==
    ASSUME Shape, MergeCameraGroup, step \in {18, 27}, kept' = kept
    PROVE  GroupLinks \subseteq GroupLinks'
<1> SUFFICES ASSUME NEW l \in GroupLinks
             PROVE  l \in GroupLinks'
  OBVIOUS
<1>1. PICK d \in kept, e \in kept, g \in DOMAIN cam_group :
           l = <<d[3], e[3]>> /\ d[2] = e[2] /\ d[1] \in CamsOf(g) /\ e[1] \in CamsOf(g)
  BY Links
<1>2. PICK i \in DOMAIN cam_group' : CamsOf(g) \subseteq CamsOf(i)'
  BY <1>1, GroupsMove
<1> DEFINE p == <<d, e>>
<1>3. p \in kept' \X kept' /\ p[1] = d /\ p[2] = e
  OBVIOUS
<1> HIDE DEF p
<1>4. p[1][2] = p[2][2] /\ {p[1][1], p[2][1]} \subseteq CamsOf(i)'
  BY <1>1, <1>2, <1>3
<1>5. <<p[1][3], p[2][3]>> \in GroupLinks'
  BY <1>3, <1>4 DEF GroupLinks
<1> QED BY <1>1, <1>3, <1>5

\* What leaves the boards of the objects alone.
LEMMA PartsKept ==
    ASSUME Shape, [Next]_vars, step' \notin {4, 13, 24}
    PROVE  ObjectParts' = ObjectParts
<1>1. step \in 1 .. 30 /\ (step' = step \/ step' = step + 1)
  BY StepsCount DEF Shape, Sizes
<1>2. ~Init3DObjects /\ ~MergeObjects
  <2>1. CASE Init3DObjects
    BY <1>1, <2>1, CallPlaces DEF Init3DObjects, Call
  <2>2. CASE MergeObjects
    BY <1>1, <2>2, CallPlaces DEF MergeObjects, Call
  <2> QED BY <2>1, <2>2
<1>3. CASE object_3d' = object_3d
  BY <1>3 DEF ObjectParts, BoardsOf
<1>4. CASE FindPoseNoOverlapAllCamGroup
  <2>1. step = 16
    BY <1>1, <1>4, CallPlaces DEF FindPoseNoOverlapAllCamGroup, Call
  <2>2. /\ DOMAIN object_3d \subseteq DOMAIN object_3d'
        /\ \A o \in DOMAIN object_3d : object_3d'[o] = object_3d[o]
        /\ \A o \in DOMAIN object_3d' \ DOMAIN object_3d : object_3d'[o] = NullObject
    BY <1>4, <2>1, PosedObjects
  <2>3. \A o \in DOMAIN object_3d : BoardsOf(o)' = BoardsOf(o)
    BY <2>2 DEF BoardsOf
  <2>4. \A o \in DOMAIN object_3d' \ DOMAIN object_3d : BoardsOf(o)' = {}
    BY <2>2 DEF BoardsOf, NullObject
  <2>5. ObjectParts' = {BoardsOf(o)' : o \in DOMAIN object_3d'} \ {{}}
    BY DEF ObjectParts
  <2> QED BY <2>2, <2>3, <2>4, <2>5 DEF ObjectParts
<1> QED BY <1>2, <1>3, <1>4, Changes

\* What leaves the groups alone.
LEMMA GroupsKept ==
    ASSUME Shape, [Next]_vars, step' \notin {8, 19, 28}
    PROVE  cam_group' = cam_group
<1>1. step \in 1 .. 30 /\ (step' = step \/ step' = step + 1)
  BY StepsCount DEF Shape, Sizes
<1>2. CASE InitCameraGroup
  BY <1>1, <1>2, CallPlaces DEF InitCameraGroup, Call
<1>3. CASE MergeCameraGroup
  BY <1>1, <1>3, CallPlaces DEF MergeCameraGroup, Call
<1> QED BY <1>2, <1>3, Changes

\* Every call keeps the objects justified.
LEMMA ObjectsStayJust ==
    ASSUME Shape, ObjectsJust, [Next]_vars
    PROVE  ObjectsJust'
<1>1. /\ seen' = seen /\ kept' = kept /\ step \in 1 .. 30
      /\ step' = step \/ (step \in 1 .. 29 /\ step' = step + 1)
  BY StepsCount DEF Shape, Sizes
<1>2. ImageLinks' = ImageLinks
  BY <1>1 DEF ImageLinks
<1>3. cam_group' = cam_group => GroupLinks' = GroupLinks
  BY <1>1 DEF GroupLinks, CamsOf
<1>4. CASE step' = step
  <2>1. object_3d' = object_3d /\ cam_group' = cam_group
    BY <1>1, <1>4, Changes DEF Init3DObjects, MergeObjects,
       FindPoseNoOverlapAllCamGroup, InitCameraGroup, MergeCameraGroup, Call
  <2>2. ObjectParts' = ObjectParts /\ GroupLinks' = GroupLinks
    BY <1>3, <2>1 DEF ObjectParts, BoardsOf
  <2>3. UNCHANGED <<step, seen, ObjectParts, GroupLinks, ImageLinks>>
    BY <1>1, <1>2, <1>4, <2>2
  <2> QED BY <2>3 DEF ObjectsJust, Apart, Whole
<1>5. CASE step = 3 /\ step' = 4
  <2>1. Init3DObjects
    BY <1>1, <1>5, StepCalls DEF Shape
  <2>2. /\ UNION ObjectParts' = {d[3] : d \in seen}
        /\ Apart(ObjectParts', ImageLinks) /\ Whole(ObjectParts', ImageLinks)
    BY <1>1, <1>5, <2>1, InitialObjectsJust
  <2>3. Whole(ObjectParts', ImageLinks \cup GroupLinks')
    BY <2>2 DEF Whole
  <2> QED BY <1>1, <1>2, <1>5, <2>2, <2>3 DEF ObjectsJust, Apart, Whole
<1>6. CASE step \in {12, 23} /\ step' = step + 1
  <2>1. MergeObjects
    BY <1>1, <1>6, StepCalls DEF Shape
  <2>2. cam_group' = cam_group
    BY <1>6, GroupsKept
  <2>3. /\ Apart(ObjectParts', ImageLinks') /\ Apart(ObjectParts', GroupLinks')
        /\ Whole(ObjectParts', ImageLinks' \cup GroupLinks')
    BY <1>2, <1>3, <1>6, <2>1, <2>2, MergedObjectsJust
  <2> QED BY <1>6, <2>3 DEF ObjectsJust, Apart, Whole
<1>7. CASE step = 7 /\ step' = 8
  <2>1. ObjectParts' = ObjectParts
    BY <1>7, PartsKept
  <2>2. Whole(ObjectParts', ImageLinks \cup GroupLinks')
    BY <1>7, <2>1 DEF ObjectsJust, Whole
  <2> QED BY <1>1, <1>2, <1>7, <2>1, <2>2 DEF ObjectsJust, Apart, Whole
<1>8. CASE step \in {18, 27} /\ step' = step + 1
  <2>1. MergeCameraGroup
    BY <1>1, <1>8, StepCalls DEF Shape
  <2>2. ObjectParts' = ObjectParts
    BY <1>8, PartsKept
  <2>3. GroupLinks \subseteq GroupLinks'
    BY <1>1, <1>8, <2>1, GroupLinksGrow
  <2>4. Whole(ObjectParts', ImageLinks' \cup GroupLinks')
    BY <1>2, <1>8, <2>2, <2>3 DEF ObjectsJust, Whole
  <2>5. Apart(ObjectParts', ImageLinks')
    BY <1>2, <1>8, <2>2 DEF ObjectsJust, Apart
  <2> QED BY <1>8, <2>4, <2>5 DEF ObjectsJust, Apart, Whole
<1>9. CASE step' = step + 1 /\ step \notin {3, 7, 12, 18, 23, 27}
  <2>1. ObjectParts' = ObjectParts /\ cam_group' = cam_group
    BY <1>1, <1>9, PartsKept, GroupsKept
  <2>2. GroupLinks' = GroupLinks
    BY <1>3, <2>1
  <2>3. /\ step' \in 4 .. 12 => step \in 4 .. 12
        /\ step' >= 4 => step >= 4
        /\ step' \in (13 .. 18) \cup (24 .. 27) => step \in (13 .. 18) \cup (24 .. 27)
    BY <1>1, <1>9
  <2>4. /\ Apart(ObjectParts, ImageLinks)' = Apart(ObjectParts, ImageLinks)
        /\ Apart(ObjectParts, GroupLinks)' = Apart(ObjectParts, GroupLinks)
        /\ Whole(ObjectParts, ImageLinks)' = Whole(ObjectParts, ImageLinks)
        /\ Whole(ObjectParts, ImageLinks \cup GroupLinks)'
              = Whole(ObjectParts, ImageLinks \cup GroupLinks)
    BY <1>2, <2>1, <2>2 DEF Apart, Whole
  <2> QED BY <1>1, <2>1, <2>3, <2>4 DEF ObjectsJust
<1> QED BY <1>1, <1>4, <1>5, <1>6, <1>7, <1>8, <1>9

\* The groups stay justified up to the merge of objects.
LEMMA GroupsStayJust ==
    ASSUME Shape, GroupsJust, [Next]_vars
    PROVE  GroupsJust'
<1>1. /\ seen' = seen /\ kept' = kept /\ step \in 1 .. 30
      /\ step' = step \/ (step \in 1 .. 29 /\ step' = step + 1)
  BY StepsCount DEF Shape, Sizes
<1> SUFFICES ASSUME step' \in 8 .. 12
             PROVE  /\ UNION GroupParts' = {d[1] : d \in seen}
                    /\ Apart(GroupParts', ObjectLinks') /\ Whole(GroupParts', ObjectLinks')
  BY <1>1 DEF GroupsJust, Apart, Whole
<1>2. object_3d' = object_3d
  <2>1. CASE Init3DObjects
    BY <1>1, <2>1, CallPlaces DEF Init3DObjects, Call
  <2>2. CASE MergeObjects
    BY <1>1, <2>2, CallPlaces DEF MergeObjects, Call
  <2>3. CASE FindPoseNoOverlapAllCamGroup
    BY <1>1, <2>3, CallPlaces DEF FindPoseNoOverlapAllCamGroup, Call
  <2> QED BY <2>1, <2>2, <2>3, Changes
<1>3. ObjectLinks' = ObjectLinks
  BY <1>1, <1>2 DEF ObjectLinks, BoardsOf
<1>4. CASE step = 7
  <2>1. InitCameraGroup
    BY <1>1, <1>4, StepCalls DEF Shape
  <2> QED BY <1>1, <1>2, <1>3, <1>4, <2>1, InitialGroupsJust
<1>5. CASE step # 7
  <2>1. cam_group' = cam_group
    <3>1. CASE InitCameraGroup
      BY <1>1, <1>5, <3>1, CallPlaces DEF InitCameraGroup, Call
    <3>2. CASE MergeCameraGroup
      BY <1>1, <3>2, CallPlaces DEF MergeCameraGroup, Call
    <3> QED BY <3>1, <3>2, Changes
  <2>2. GroupParts' = GroupParts
    BY <2>1 DEF GroupParts, CamsOf
  <2>3. step \in 8 .. 12
    BY <1>1, <1>5
  <2> QED BY <1>1, <1>3, <2>2, <2>3 DEF GroupsJust
<1> QED BY <1>4, <1>5

\* From init3DObjects on, objects are as large as their links demand and no
\* larger than they allow; so are groups until objects are merged.
THEOREM LinksJustify == Spec => [](ObjectsJust /\ GroupsJust)
<1>1. Init => ObjectsJust /\ GroupsJust
  <2> SUFFICES ASSUME Init
               PROVE  ObjectsJust /\ GroupsJust
    OBVIOUS
  <2>1. step = 1
    BY DEF Init
  <2> QED BY <2>1 DEF ObjectsJust, GroupsJust
<1>2. Shape /\ ObjectsJust /\ GroupsJust /\ [Next]_vars => ObjectsJust' /\ GroupsJust'
  BY ObjectsStayJust, GroupsStayJust
<1> QED BY <1>1, <1>2, ShapeInvariant, PTL DEF Spec

\* Which of some calls has returned last.
LEMMA LatestCall ==
    ASSUME step \in Nat, NEW names, NEW i \in 1 .. step - 1, Workflow[i] \in names,
           \A j \in 1 .. step - 1 : Workflow[j] \in names => j <= i
    PROVE  LastOf(names) = Workflow[i]
<1> DEFINE called == {j \in 1 .. step - 1 : Workflow[j] \in names}
<1>1. i \in called /\ \A j \in called : i >= j
  OBVIOUS
<1>2. \A x \in called : (\A j \in called : x >= j) => x = i
  <2> SUFFICES ASSUME NEW x \in called, \A j \in called : x >= j
               PROVE  x = i
    OBVIOUS
  <2>1. x >= i /\ i >= x
    BY <1>1
  <2> QED BY <2>1
<1> HIDE DEF called
<1>3. Max(called) = i
  BY <1>1, <1>2 DEF Max
<1> QED BY <1>1, <1>3 DEF LastOf, called

\* Where the calls stand that make or merge objects and groups.
LEMMA MergePlaces ==
    ASSUME NEW j \in 1 .. 29
    PROVE  /\ Workflow[j] = "init3DObjects" <=> j = 3
           /\ Workflow[j] = "initCameraGroup" <=> j = 7
           /\ Workflow[j] = "mergeObjects" <=> j \in {12, 23}
           /\ Workflow[j] = "mergeCameraGroup" <=> j \in {18, 27}
<1>1. \/ j = 1 \/ j = 2 \/ j = 3 \/ j = 4 \/ j = 5 \/ j = 6 \/ j = 7 \/ j = 8
      \/ j = 9 \/ j = 10 \/ j = 11 \/ j = 12 \/ j = 13 \/ j = 14 \/ j = 15
      \/ j = 16 \/ j = 17 \/ j = 18 \/ j = 19 \/ j = 20 \/ j = 21 \/ j = 22
      \/ j = 23 \/ j = 24 \/ j = 25 \/ j = 26 \/ j = 27 \/ j = 28 \/ j = 29
  OBVIOUS
<1> QED BY <1>1, WorkflowSteps

\* What made the present objects, by position.
LEMMA LatestOnObjects ==
    ASSUME step \in 1 .. 30, NEW last,
           last = LastOf({"init3DObjects", "mergeObjects", "mergeCameraGroup"})
    PROVE  /\ last = "init3DObjects" => step \in 4 .. 12
           /\ last = "mergeObjects" => step \in (13 .. 18) \cup (24 .. 27)
<1> DEFINE N == {"init3DObjects", "mergeObjects", "mergeCameraGroup"}
<1>1. \A j \in 1 .. 29 : Workflow[j] \in N <=> j \in {3, 12, 18, 23, 27}
  BY MergePlaces
<1>2. \A j \in 1 .. step - 1 : j \in 1 .. 29
  OBVIOUS
<1>3. last = LastOf(N)
  OBVIOUS
<1> HIDE DEF N
<1>4. CASE step \in 1 .. 3
  <2>1. {j \in 1 .. step - 1 : Workflow[j] \in N} = {}
    BY <1>1, <1>2, <1>4
  <2>2. last = "none"
    BY <1>3, <2>1 DEF LastOf
  <2> QED BY <2>2
<1>5. ASSUME NEW i \in {3, 12, 18, 23, 27}, i < step,
             \A j \in {3, 12, 18, 23, 27} : j < step => j <= i
      PROVE  last = Workflow[i]
  <2>1. i \in 1 .. step - 1 /\ Workflow[i] \in N
    BY <1>1, <1>5
  <2>2. \A j \in 1 .. step - 1 : Workflow[j] \in N => j <= i
    BY <1>1, <1>2, <1>5
  <2> QED BY <1>3, <2>1, <2>2, LatestCall
<1>6. CASE step \in 4 .. 12
  BY <1>5, <1>6, WorkflowSteps
<1>7. CASE step \in (13 .. 18) \cup (24 .. 27)
  BY <1>5, <1>7, WorkflowSteps
<1>8. CASE step \in (19 .. 23) \cup (28 .. 30)
  <2>1. last = "mergeCameraGroup"
    BY <1>5, <1>8, WorkflowSteps
  <2> QED BY <2>1
<1> QED BY <1>4, <1>6, <1>7, <1>8

\* What made the present groups, by position.
LEMMA LatestOnGroups ==
    ASSUME step \in 1 .. 30
    PROVE  /\ LastOf({"initCameraGroup", "mergeObjects"}) = "initCameraGroup"
                 => step \in 8 .. 12
           /\ LastOf({"mergeCameraGroup"}) = "none" => step \in 1 .. 18
<1> DEFINE N == {"initCameraGroup", "mergeObjects"}
           M == {"mergeCameraGroup"}
<1>1. \A j \in 1 .. 29 : /\ Workflow[j] \in N <=> j \in {7, 12, 23}
                         /\ Workflow[j] \in M <=> j \in {18, 27}
  BY MergePlaces
<1>2. \A j \in 1 .. step - 1 : j \in 1 .. 29
  OBVIOUS
<1> HIDE DEF N, M
<1>3. LastOf(N) = "initCameraGroup" => step \in 8 .. 12
  <2>1. CASE step \in 1 .. 7
    <3>1. {j \in 1 .. step - 1 : Workflow[j] \in N} = {}
      BY <1>1, <1>2, <2>1
    <3>2. LastOf(N) = "none"
      BY <3>1 DEF LastOf
    <3> QED BY <3>2
  <2>2. CASE step \in 13 .. 30
    <3>1. PICK i \in {12, 23} : i < step /\ \A j \in {7, 12, 23} : j < step => j <= i
      BY <2>2
    <3>2. i \in 1 .. step - 1 /\ Workflow[i] \in N /\ Workflow[i] = "mergeObjects"
      BY <1>1, <3>1, WorkflowSteps
    <3>3. \A j \in 1 .. step - 1 : Workflow[j] \in N => j <= i
      BY <1>1, <1>2, <3>1
    <3>4. LastOf(N) = "mergeObjects"
      BY <3>2, <3>3, LatestCall
    <3> QED BY <3>4
  <2> QED BY <2>1, <2>2
<1>4. LastOf(M) = "none" => step \in 1 .. 18
  <2>1. CASE step \in 19 .. 30
    <3>1. PICK i \in {18, 27} : i < step /\ \A j \in {18, 27} : j < step => j <= i
      BY <2>1
    <3>2. i \in 1 .. step - 1 /\ Workflow[i] \in M /\ Workflow[i] = "mergeCameraGroup"
      BY <1>1, <3>1, WorkflowSteps
    <3>3. \A j \in 1 .. step - 1 : Workflow[j] \in M => j <= i
      BY <1>1, <1>2, <3>1
    <3>4. LastOf(M) = "mergeCameraGroup"
      BY <3>2, <3>3, LatestCall
    <3> QED BY <3>4
  <2> QED BY <2>1
<1> QED BY <1>3, <1>4 DEF N, M

\* init3DObjects and mergeObjects make exactly the objects that chains of
\* common views justify.
THEOREM ObjectsAreJustified == Spec => []ObjectsExact
<1>1. Shape /\ ObjectsJust => ObjectsExact
  <2> SUFFICES ASSUME Shape, ObjectsJust
               PROVE  ObjectsExact
    OBVIOUS
  <2> DEFINE last == LastOf({"init3DObjects", "mergeObjects", "mergeCameraGroup"})
  <2>1. step \in 1 .. 30
    BY DEF Shape, Sizes
  <2>2. /\ last = "init3DObjects" => step \in 4 .. 12
        /\ last = "mergeObjects" => step \in (13 .. 18) \cup (24 .. 27)
    BY <2>1, LatestOnObjects
  <2> HIDE DEF last
  <2>3. \A p, q \in ObjectParts : p = q \/ p \cap q = {}
    BY DEF Shape, Objects, ObjectParts
  <2>4. ASSUME step \in 4 .. 12
        PROVE  /\ UNION ObjectParts = {d[3] : d \in seen}
               /\ FinestPartition(ObjectParts, ImageLinks)
    <3>1. /\ UNION ObjectParts = {d[3] : d \in seen} /\ Whole(ObjectParts, ImageLinks)
          /\ Apart(ObjectParts, ImageLinks)
      BY <2>4 DEF ObjectsJust
    <3> QED BY <2>3, <3>1 DEF FinestPartition, Apart, Whole
  <2>5. ASSUME step \in (13 .. 18) \cup (24 .. 27)
        PROVE  /\ {d[3] : d \in kept} \subseteq UNION ObjectParts
               /\ FinestPartition(ObjectParts, ImageLinks \cup GroupLinks)
    <3>1. /\ Apart(ObjectParts, ImageLinks) /\ Apart(ObjectParts, GroupLinks)
          /\ Whole(ObjectParts, ImageLinks \cup GroupLinks)
      BY <2>5 DEF ObjectsJust
    <3>2. ASSUME NEW d \in kept
          PROVE  d[3] \in UNION ObjectParts
      <4>1. PICK o \in DOMAIN object_3d : d[3] \in BoardsOf(o)
        BY <2>5 DEF Shape, Objects
      <4> QED BY <4>1 DEF ObjectParts
    <3>3. FinestPartition(ObjectParts, ImageLinks \cup GroupLinks)
      BY <2>3, <3>1 DEF FinestPartition, Apart, Whole
    <3> QED BY <3>2, <3>3
  <2> QED BY <2>2, <2>4, <2>5 DEF ObjectsExact, last
<1> QED BY <1>1, ShapeInvariant, LinksJustify, PTL

\* initCameraGroup makes exactly the groups that chains of common objects
\* justify.
THEOREM GroupsAreJustified == Spec => []GroupsExact
<1>1. Shape /\ GroupsJust => GroupsExact
  <2> SUFFICES ASSUME Shape, GroupsJust,
                      LastOf({"initCameraGroup", "mergeObjects"}) = "initCameraGroup"
               PROVE  /\ UNION GroupParts = {d[1] : d \in seen}
                      /\ FinestPartition(GroupParts, ObjectLinks)
    BY DEF GroupsExact
  <2>1. step \in 1 .. 30
    BY DEF Shape, Sizes
  <2>2. step \in 8 .. 12
    BY <2>1, LatestOnGroups
  <2>3. \A p, q \in GroupParts : p = q \/ p \cap q = {}
    BY DEF Shape, Groups, GroupParts
  <2>4. /\ UNION GroupParts = {d[1] : d \in seen}
        /\ Apart(GroupParts, ObjectLinks) /\ Whole(GroupParts, ObjectLinks)
    BY <2>2 DEF GroupsJust
  <2> QED BY <2>3, <2>4 DEF FinestPartition, Apart, Whole
<1> QED BY <1>1, ShapeInvariant, LinksJustify, PTL

-----------------------------------------------------------------------------
(* The clustering only gathers.                                            *)

\* init3DObjects forms the parts of ObjectsOnlyGrow.
LEMMA ObjectsForm ==
    ASSUME Shape, [Next]_vars, Init3DObjects
    PROVE  ObjectsOnlyGrow!Form
<1>1. kept' = kept /\ step = 3 /\ step' = 4
  <2>1. step \in 1 .. 30
    BY DEF Shape, Sizes
  <2> QED BY <2>1, StepsCount, CallPlaces DEF Shape, Init3DObjects, Call
<1>2. DOMAIN object_3d = {}
  BY <1>1 DEF Shape, Objects
<1>3. ObjectParts = {}
  BY <1>2 DEF ObjectParts
<1>4. Objects'
  BY ObjectsStay
<1>5. {} \notin ObjectParts' /\ \A p, q \in ObjectParts' : p = q \/ p \cap q = {}
  BY <1>4 DEF Objects, ObjectParts
<1>6. {d[3] : d \in kept} \subseteq UNION ObjectParts'
  <2> SUFFICES ASSUME NEW d \in kept
               PROVE  d[3] \in UNION ObjectParts'
    OBVIOUS
  <2>1. PICK o \in DOMAIN object_3d' : d[3] \in BoardsOf(o)'
    BY <1>1, <1>4 DEF Objects
  <2>2. BoardsOf(o)' \in ObjectParts'
    BY <2>1 DEF ObjectParts
  <2> QED BY <2>1, <2>2
<1> QED BY <1>1, <1>3, <1>5, <1>6 DEF ObjectsOnlyGrow!Form, ObjectsOnlyGrow!Disjoint

\* mergeObjects unites parts of ObjectsOnlyGrow.
LEMMA ObjectsUnite ==
    ASSUME Shape, [Next]_vars, MergeObjects
    PROVE  ObjectsOnlyGrow!Unite
<1> DEFINE h == covis_objects_graph
           comp == ConnectedComponents(h)
           n == Len(comp)
           D == DOMAIN object_3d
<1>0. kept' = kept /\ step \in {12, 23}
  <2>1. step \in 1 .. 30
    BY DEF Shape, Sizes
  <2> QED BY <2>1, StepsCount, CallPlaces DEF Shape, MergeObjects, Call
<1>1. /\ DOMAIN object_3d' = 0 .. n - 1
      /\ \A i \in 0 .. n - 1 : BoardsOf(i)' = UNION {BoardsOf(o) : o \in comp[i + 1]}
  BY ObjectsMerged
<1>2. /\ IsGraph(h) /\ Vertices(h) = {d[3] : d \in object_observations}
      /\ Vertices(h) \subseteq D
  BY <1>0, ObjectsGraph
<1> HIDE DEF h
<1>3. /\ \A i \in 0 .. n - 1 : comp[i + 1] \subseteq Vertices(h)
      /\ \A v \in Vertices(h) : \E i \in 0 .. n - 1 : v \in comp[i + 1]
  BY <1>2, ComponentsDivide
<1> HIDE DEF comp, n
<1>4. Objects'
  BY ObjectsStay
<1>5. {} \notin ObjectParts' /\ \A p, q \in ObjectParts' : p = q \/ p \cap q = {}
  BY <1>4 DEF Objects, ObjectParts
<1>6. ObjectParts' = {BoardsOf(i)' : i \in 0 .. n - 1} \ {{}}
  BY <1>1 DEF ObjectParts
<1>7. ASSUME NEW q \in ObjectParts'
      PROVE  q = UNION {p \in ObjectParts : p \subseteq q}
  <2>1. PICK i \in 0 .. n - 1 : q = UNION {BoardsOf(o) : o \in comp[i + 1]}
    BY <1>1, <1>6
  <2>2. ASSUME NEW b \in q
        PROVE  b \in UNION {p \in ObjectParts : p \subseteq q}
    <3>1. PICK o \in comp[i + 1] : b \in BoardsOf(o)
      BY <2>1
    <3>2. BoardsOf(o) \in ObjectParts /\ BoardsOf(o) \subseteq q
      BY <1>2, <1>3, <2>1, <3>1 DEF ObjectParts
    <3> QED BY <3>1, <3>2
  <2> QED BY <2>2
<1>8. ASSUME NEW p \in ObjectParts, p \cap {d[3] : d \in kept} # {}
      PROVE  \E q \in ObjectParts' : p \subseteq q
  <2>1. PICK d \in kept : d[3] \in p
    BY <1>8
  <2>2. PICK o \in D : p = BoardsOf(o)
    BY DEF ObjectParts
  <2> DEFINE t == <<d[1], d[2], o>>
  <2>3. t \in object_observations /\ t[3] = o
    BY <1>0, <2>1, <2>2, ObjectObserved DEF Shape, Fresh
  <2> HIDE DEF t
  <2>4. PICK i \in 0 .. n - 1 : o \in comp[i + 1]
    BY <1>2, <1>3, <2>3
  <2>5. p \subseteq BoardsOf(i)'
    BY <1>1, <2>2, <2>4
  <2>6. BoardsOf(i)' \in ObjectParts'
    BY <1>6, <2>1, <2>5
  <2> QED BY <2>5, <2>6
<1> QED BY <1>0, <1>5, <1>7, <1>8 DEF ObjectsOnlyGrow!Unite, ObjectsOnlyGrow!Disjoint

\* initCameraGroup forms the parts of GroupsOnlyGrow.
LEMMA GroupsForm ==
    ASSUME Shape, [Next]_vars, InitCameraGroup
    PROVE  GroupsOnlyGrow!Form
<1>1. kept' = kept /\ step = 7 /\ step' = 8
  <2>1. step \in 1 .. 30
    BY DEF Shape, Sizes
  <2> QED BY <2>1, StepsCount, CallPlaces DEF Shape, InitCameraGroup, Call
<1>2. DOMAIN cam_group = {}
  BY <1>1 DEF Shape, Groups
<1>3. GroupParts = {}
  BY <1>2 DEF GroupParts
<1>4. Groups'
  BY GroupsStay
<1>5. {} \notin GroupParts' /\ \A p, q \in GroupParts' : p = q \/ p \cap q = {}
  BY <1>4 DEF Groups, GroupParts
<1>6. {d[1] : d \in kept} \subseteq UNION GroupParts'
  <2> SUFFICES ASSUME NEW d \in kept
               PROVE  d[1] \in UNION GroupParts'
    OBVIOUS
  <2>1. PICK g \in DOMAIN cam_group' : d[1] \in CamsOf(g)'
    BY <1>1, <1>4 DEF Groups
  <2>2. CamsOf(g)' \in GroupParts'
    BY <2>1 DEF GroupParts
  <2> QED BY <2>1, <2>2
<1> QED BY <1>1, <1>3, <1>5, <1>6 DEF GroupsOnlyGrow!Form, GroupsOnlyGrow!Disjoint

\* mergeCameraGroup unites parts of GroupsOnlyGrow.
LEMMA GroupsUnite ==
    ASSUME Shape, [Next]_vars, MergeCameraGroup
    PROVE  GroupsOnlyGrow!Unite
<1> DEFINE h == no_overlap_camgroup_graph
           comp == ConnectedComponents(h)
           n == Len(comp)
           D == DOMAIN cam_group
<1>0. kept' = kept /\ step \in {18, 27}
  <2>1. step \in 1 .. 30
    BY DEF Shape, Sizes
  <2> QED BY <2>1, StepsCount, CallPlaces DEF Shape, MergeCameraGroup, Call
<1>1. /\ DOMAIN cam_group' = 0 .. n - 1
      /\ \A i \in 0 .. n - 1 :
            CamsOf(i)' = UNION {CamsOf(g) : g \in comp[i + 1] \cap D}
  BY GroupsMerged
<1> HIDE DEF comp, n
<1>4. Groups'
  BY GroupsStay
<1>5. {} \notin GroupParts' /\ \A p, q \in GroupParts' : p = q \/ p \cap q = {}
  BY <1>4 DEF Groups, GroupParts
<1>6. GroupParts' = {CamsOf(i)' : i \in 0 .. n - 1}
  BY <1>1 DEF GroupParts
<1>7. ASSUME NEW q \in GroupParts'
      PROVE  q = UNION {p \in GroupParts : p \subseteq q}
  <2>1. PICK i \in 0 .. n - 1 : q = UNION {CamsOf(g) : g \in comp[i + 1] \cap D}
    BY <1>1, <1>6
  <2>2. ASSUME NEW c \in q
        PROVE  c \in UNION {p \in GroupParts : p \subseteq q}
    <3>1. PICK g \in comp[i + 1] \cap D : c \in CamsOf(g)
      BY <2>1
    <3>2. CamsOf(g) \in GroupParts /\ CamsOf(g) \subseteq q
      BY <2>1, <3>1 DEF GroupParts
    <3> QED BY <3>1, <3>2
  <2> QED BY <2>2
<1>8. ASSUME NEW p \in GroupParts, p \cap {d[1] : d \in kept} # {}
      PROVE  \E q \in GroupParts' : p \subseteq q
  <2>1. PICK d \in kept : d[1] \in p
    BY <1>8
  <2>2. PICK g \in D : p = CamsOf(g)
    BY DEF GroupParts
  <2>3. PICK i \in DOMAIN cam_group' : CamsOf(g) \subseteq CamsOf(i)'
    BY <1>0, <2>1, <2>2, GroupsMove
  <2> QED BY <1>1, <1>6, <2>2, <2>3
<1> QED BY <1>0, <1>5, <1>7, <1>8 DEF GroupsOnlyGrow!Unite, GroupsOnlyGrow!Disjoint

\* The workflow implements Grouping twice: init3DObjects and initCameraGroup
\* form the parts, mergeObjects and mergeCameraGroup unite them, and no other
\* call changes them.
THEOREM OnlyGathers == Spec => Gathers
<1>1. Init => ObjectsOnlyGrow!Init /\ GroupsOnlyGrow!Init
  <2> SUFFICES ASSUME Init
               PROVE  ObjectsOnlyGrow!Init /\ GroupsOnlyGrow!Init
    OBVIOUS
  <2>1. DOMAIN object_3d = {} /\ DOMAIN cam_group = {}
    BY DEF Init
  <2>2. ObjectParts = {} /\ GroupParts = {}
    BY <2>1 DEF ObjectParts, GroupParts
  <2> QED BY <2>2 DEF ObjectsOnlyGrow!Init, GroupsOnlyGrow!Init
<1>2. Shape /\ [Next]_vars =>
         [ObjectsOnlyGrow!Form \/ ObjectsOnlyGrow!Unite]_(ObjectsOnlyGrow!vars)
  <2> SUFFICES ASSUME Shape, [Next]_vars
               PROVE  [ObjectsOnlyGrow!Form \/ ObjectsOnlyGrow!Unite]_(ObjectsOnlyGrow!vars)
    OBVIOUS
  <2>1. kept' = kept /\ step \in 1 .. 30 /\ (step' = step \/ step' = step + 1)
    BY StepsCount DEF Shape, Sizes
  <2>2. CASE Init3DObjects
    BY <2>2, ObjectsForm
  <2>3. CASE MergeObjects
    BY <2>3, ObjectsUnite
  <2>4. CASE ~Init3DObjects /\ ~MergeObjects
    <3>1. ObjectParts' = ObjectParts
      <4>1. CASE object_3d' = object_3d
        BY <4>1 DEF ObjectParts, BoardsOf
      <4>2. CASE FindPoseNoOverlapAllCamGroup
        <5>1. step' = 17
          BY <2>1, <4>2, CallPlaces DEF FindPoseNoOverlapAllCamGroup, Call
        <5> QED BY <5>1, PartsKept
      <4> QED BY <2>4, <4>1, <4>2, Changes
    <3> QED BY <2>1, <3>1 DEF ObjectsOnlyGrow!vars
  <2> QED BY <2>2, <2>3, <2>4
<1>3. Shape /\ [Next]_vars =>
         [GroupsOnlyGrow!Form \/ GroupsOnlyGrow!Unite]_(GroupsOnlyGrow!vars)
  <2> SUFFICES ASSUME Shape, [Next]_vars
               PROVE  [GroupsOnlyGrow!Form \/ GroupsOnlyGrow!Unite]_(GroupsOnlyGrow!vars)
    OBVIOUS
  <2>1. kept' = kept
    BY StepsCount DEF Shape
  <2>2. CASE InitCameraGroup
    BY <2>2, GroupsForm
  <2>3. CASE MergeCameraGroup
    BY <2>3, GroupsUnite
  <2>4. CASE cam_group' = cam_group
    <3>1. GroupParts' = GroupParts
      BY <2>4 DEF GroupParts, CamsOf
    <3> QED BY <2>1, <3>1 DEF GroupsOnlyGrow!vars
  <2> QED BY <2>2, <2>3, <2>4, Changes
<1> QED BY <1>1, <1>2, <1>3, ShapeInvariant, PTL
        DEF Spec, Gathers, ObjectsOnlyGrow!Spec, GroupsOnlyGrow!Spec

\* The first merge reads hand-eye poses under the numbers of the present
\* groups, so it unites those that a chain of poses joins.
LEMMA PosedGroupsJoined ==
    ASSUME Shape, MergeCameraGroup, step = 18,
           NEW L, L = UNION {{p, <<p[2], p[1]>>} : p \in DOMAIN no_overlap_pair}
    PROVE  FinestPartition({{g \in DOMAIN cam_group : CamsOf(g) \subseteq p} :
                               p \in GroupParts'}, L)
<1> DEFINE h == no_overlap_camgroup_graph
           comp == ConnectedComponents(h)
           n == Len(comp)
           D == DOMAIN cam_group
           P == DOMAIN no_overlap_pair
           Within(q) == {g \in D : CamsOf(g) \subseteq q}
<1>1. /\ DOMAIN cam_group' = 0 .. n - 1
      /\ \A i \in 0 .. n - 1 :
            CamsOf(i)' = UNION {CamsOf(g) : g \in comp[i + 1] \cap D}
  BY GroupsMerged
<1>2. /\ IsGraph(h) /\ Vertices(h) \subseteq D
      /\ \A p \in P : \E e \in h.edge : e[1] = p[1] /\ e[2] = p[2]
      /\ \A e \in h.edge : <<e[1], e[2]>> \in P
  BY GroupsGraph
<1>3. P \subseteq Nat \X Nat
  BY DEF Shape, GroupGraph
<1> HIDE DEF h, P
<1>4. Joins(h, L)
  <2>1. ASSUME NEW e \in h.edge
        PROVE  <<e[1], e[2]>> \in L /\ <<e[2], e[1]>> \in L
    <3> DEFINE p == <<e[1], e[2]>>
    <3>1. p \in P /\ p[1] = e[1] /\ p[2] = e[2]
      BY <1>2
    <3>2. p \in L /\ <<p[2], p[1]>> \in L
      <4> HIDE DEF p
      <4> QED BY <3>1 DEF P
    <3> QED BY <3>2
  <2>2. ASSUME NEW l \in L
        PROVE  \/ \E e \in h.edge : e[1] = l[1] /\ e[2] = l[2]
               \/ \E e \in h.edge : e[1] = l[2] /\ e[2] = l[1]
    <3>1. PICK p \in P : l = p \/ l = <<p[2], p[1]>>
      BY DEF P
    <3>2. PICK e \in h.edge : e[1] = p[1] /\ e[2] = p[2]
      BY <1>2
    <3>3. CASE l = p
      BY <3>2, <3>3
    <3>4. CASE l = <<p[2], p[1]>>
      <4>1. l[1] = p[2] /\ l[2] = p[1]
        BY <3>4
      <4> QED BY <3>2, <4>1
    <3> QED BY <3>1, <3>3, <3>4
  <2> QED BY <2>1, <2>2 DEF Joins
<1>5. Apart(PartsOf(h), L) /\ Whole(PartsOf(h), L)
  BY <1>2, <1>4, ComponentsFinest
<1>6. /\ \A i \in 0 .. n - 1 : comp[i + 1] \subseteq Vertices(h)
      /\ \A i, j \in 0 .. n - 1 : comp[i + 1] \cap comp[j + 1] # {} => i = j
  BY <1>2, ComponentsDivide
<1>7. PartsOf(h) = {comp[i + 1] : i \in 0 .. n - 1}
  BY DEF PartsOf
<1> HIDE DEF comp, n
<1>8. GroupParts' = {CamsOf(i)' : i \in 0 .. n - 1}
  BY <1>1 DEF GroupParts
<1>9. /\ \A g \in D : CamsOf(g) # {}
      /\ \A g, k \in D : CamsOf(g) \cap CamsOf(k) # {} => g = k
  <2>1. \A g \in D : cam_group[g].ref \in CamsOf(g)
    BY DEF Shape, Groups
  <2> QED BY <2>1 DEF Shape, Groups
<1>10. ASSUME NEW i \in 0 .. n - 1
       PROVE  Within(CamsOf(i)') = comp[i + 1]
  <2>1. comp[i + 1] \subseteq D /\ CamsOf(i)' = UNION {CamsOf(g) : g \in comp[i + 1]}
    BY <1>1, <1>2, <1>6
  <2>2. comp[i + 1] \subseteq Within(CamsOf(i)')
    BY <2>1
  <2>3. ASSUME NEW g \in D, CamsOf(g) \subseteq CamsOf(i)'
        PROVE  g \in comp[i + 1]
    <3>1. PICK c : c \in CamsOf(g)
      BY <1>9
    <3>2. PICK k \in comp[i + 1] : c \in CamsOf(k)
      BY <2>1, <2>3, <3>1
    <3> QED BY <1>9, <2>1, <3>1, <3>2
  <2> QED BY <2>2, <2>3
<1> HIDE DEF Within
<1>11. {Within(q) : q \in GroupParts'} = PartsOf(h)
  BY <1>7, <1>8, <1>10
<1>12. \A p, q \in PartsOf(h) : p = q \/ p \cap q = {}
  BY <1>6, <1>7
<1>13. FinestPartition(PartsOf(h), L)
  BY <1>5, <1>12 DEF FinestPartition, Apart, Whole
<1> QED BY <1>11, <1>13 DEF Within

\* The first mergeCameraGroup is exact.
THEOREM FirstMergeUnites == Spec => FirstMergeExact
<1> DEFINE L == UNION {{p, <<p[2], p[1]>>} : p \in DOMAIN no_overlap_pair}
           Exact ==
              At("mergeCameraGroup") /\ LastOf({"mergeCameraGroup"}) = "none"
                 /\ step' # step =>
                   FinestPartition({{g \in DOMAIN cam_group : CamsOf(g) \subseteq p} :
                                       p \in GroupParts'}, L)
<1>1. Shape /\ [Next]_vars => Exact
  <2> SUFFICES ASSUME Shape, [Next]_vars, At("mergeCameraGroup"), step' # step,
                      LastOf({"mergeCameraGroup"}) = "none"
               PROVE  FinestPartition({{g \in DOMAIN cam_group : CamsOf(g) \subseteq p} :
                                          p \in GroupParts'}, L)
    OBVIOUS
  <2>1. step \in 1 .. 30
    BY DEF Shape, Sizes
  <2>2. step = 18
    BY <2>1, CallPlaces, LatestOnGroups
  <2>3. MergeCameraGroup
    BY <2>2, StepCalls DEF Shape
  <2> HIDE DEF L
  <2>4. L = UNION {{p, <<p[2], p[1]>>} : p \in DOMAIN no_overlap_pair}
    BY DEF L
  <2> QED BY <2>2, <2>3, <2>4, PosedGroupsJoined
<1>2. Shape /\ [Next]_vars => [Exact]_vars
  BY <1>1
<1>3. FirstMergeExact <=> [][Exact]_vars
  BY DEF FirstMergeExact
<1> HIDE DEF Exact
<1> QED BY <1>2, <1>3, ShapeInvariant, PTL DEF Spec
=============================================================================
