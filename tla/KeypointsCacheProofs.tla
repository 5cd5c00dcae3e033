------------------------- MODULE KeypointsCacheProofs -------------------------
(***************************************************************************)
(* Proofs about the file of detected keypoints, for any number of cameras, *)
(* frames, boards and runs: what is written to its end is what the writer  *)
(* had, what is loaded is what was written, and neither a kill nor a run   *)
(* that fails leaves a camera with a part of its observations in it.       *)
(***************************************************************************)
EXTENDS KeypointsCache, FiniteSetTheorems, SequenceTheorems, WellFoundedInduction, TLAPS

-----------------------------------------------------------------------------
(* The inductive invariant.                                                *)

\* By camera, frame and board.
Ordered(q) ==
    \A i, j \in DOMAIN q : i < j =>
        q[i].cam < q[j].cam \/ (q[i].cam = q[j].cam /\ Before(q[i], q[j]))

\* The frames in which board b of camera c is detected.
SeenIn(c, b) ==
    {f \in 0 .. NbFrame - 1 : <<c, f, b>> \in DOMAIN images /\ images[<<c, f, b>>] > MinPose}

\* Of camera c a board is in O in all frames in which it was detected, or in none.
AllOrNone(O, c) ==
    \A b \in 0 .. NbBoard - 1 :
        LET held == {o.frame : o \in {p \in O : p.cam = c /\ p.board = b}}
        IN  held = {} \/ held = SeenIn(c, b)

\* Whether the file holds a part of a camera is not to be seen in its cameras.
FileInv ==
    /\ \A i \in DOMAIN file.cams :
         /\ \A o \in Range(file.cams[i]) : o.cam = i - 1
         /\ Ordered(file.cams[i])
         /\ AllOrNone(Range(file.cams[i]), i - 1)
         /\ ~given => file.cams[i] # <<>>
    /\ file.is = "none" => file.cams = <<>>
    /\ file.is = "whole" => last = UNION {Range(file.cams[i]) : i \in DOMAIN file.cams}

\* The observations of the run.
ObsInv ==
    /\ run.at \in {"off", "start"} => obs = <<>>
    /\ \A c \in Cameras : AllOrNone(Range(obs), c)
    /\ run.params => given
    /\ run.at \in {"initialized", "posed", "saving"} /\ ~run.params =>
          \A c \in 0 .. run.cams - 1 : Of(c) # {}
    /\ run.at \in {"extracted", "initialized"} /\ run.from = "images" =>
          \A i \in DOMAIN obs : obs[i].pts > MinPose

\* What was saved so far are the observations of the run.
SavedInv ==
    run.at = "saving" =>
        /\ file.is = "cut" /\ Len(file.cams) <= run.cams
        /\ \A i \in DOMAIN file.cams : Range(file.cams[i]) = {o \in Range(obs) : o.cam = i - 1}

\* What is loaded is what was saved, in the order it is numbered.
LoadedInv ==
    run.at = "extracted" /\ run.from = "file" /\ file.is = "whole" =>
        /\ Range(obs) = {o \in last : o.cam < run.cams}
        /\ Ordered(obs)

CacheInv ==
    /\ TypeOK
    /\ images \in [DOMAIN images -> 1 .. MaxPoints]
    /\ FileInv /\ ObsInv /\ SavedInv /\ LoadedInv

\* The observations of the run and those in the file have the points that were
\* detected, but where outliers were dropped.
PrunedInv ==
    /\ run.at \in {"off", "start"} => pruned.run = {}
    /\ AsDetected(Range(obs), pruned.run)
    /\ \A i \in DOMAIN file.cams : AsDetected(Range(file.cams[i]), pruned.file)
    /\ run.at = "extracted" /\ run.from = "file" => pruned.run = pruned.file
    /\ run.at = "saving" => pruned.file = pruned.run

-----------------------------------------------------------------------------
(* Sequences in an order.                                                  *)

\* The least number of a set, in place of an induction.
LEMMA LeastNumber ==
    ASSUME NEW S \in SUBSET Nat, S # {}
    PROVE  \E n \in S : \A m \in S : n <= m
<1>1. PICK n \in S : \A m \in S : ~ (<<m, n>> \in OpToRel(<, Nat))
  BY NatLessThanWellFounded, WFMin
<1>2. \A m \in S : ~(m < n)
  BY <1>1 DEF OpToRel
<1> QED BY <1>2

\* q lists S by frame and board.
Lists(q, S) == q \in SetToSeqs(S) /\ \A i, j \in DOMAIN q : i < j => Before(q[i], q[j])

\* Any observations of which no two are of one frame and board can be listed.
LEMMA ListExists ==
    ASSUME NEW S \in SUBSET Observations, IsFiniteSet(S),
           \A o, p \in S : o.frame = p.frame /\ o.board = p.board => o = p
    PROVE  \E q : Lists(q, S)
<1> DEFINE bad == {T \in SUBSET S : \A q : ~Lists(q, T)}
           sizes == {Cardinality(T) : T \in bad}
<1> SUFFICES ASSUME bad # {}
             PROVE  FALSE
  OBVIOUS
<1>1. \A T \in SUBSET S : IsFiniteSet(T) /\ Cardinality(T) \in Nat
  BY FS_Subset, FS_CardinalityType
<1>2. sizes \in SUBSET Nat /\ sizes # {}
  BY <1>1
<1>3. PICK n \in sizes : \A m \in sizes : n <= m
  <2> HIDE DEF sizes
  <2> QED BY <1>2, LeastNumber
<1>4. PICK T \in bad : Cardinality(T) = n
  BY <1>3
<1>5. T \subseteq S /\ IsFiniteSet(T) /\ n \in Nat /\ \A q : ~Lists(q, T)
  BY <1>1, <1>4
<1>6. T # {}
  <2> SUFFICES ASSUME T = {}
               PROVE  FALSE
    OBVIOUS
  <2>1. Lists(<<>>, {})
    BY FS_EmptySet DEF Lists, SetToSeqs
  <2> QED BY <1>5, <2>1
<1>7. \A o \in T : o.frame \in Nat /\ o.board \in Nat
  BY <1>5 DEF Observations
<1>8. PICK f \in {o.frame : o \in T} : \A g \in {o.frame : o \in T} : f <= g
  <2> DEFINE F == {o.frame : o \in T}
  <2>1. F \in SUBSET Nat /\ F # {}
    BY <1>6, <1>7
  <2> HIDE DEF F
  <2>2. \E f \in F : \A g \in F : f <= g
    BY <2>1, LeastNumber
  <2> QED BY <2>2 DEF F
<1> DEFINE B == {o.board : o \in {p \in T : p.frame = f}}
<1>9. PICK b \in B : \A d \in B : b <= d
  <2>1. B \in SUBSET Nat /\ B # {}
    BY <1>7, <1>8
  <2> HIDE DEF B
  <2> QED BY <2>1, LeastNumber
<1>10. PICK first \in T : first.frame = f /\ first.board = b
  BY <1>9
<1>11. ASSUME NEW o \in T \ {first}
       PROVE  Before(first, o)
  <2>1. f <= o.frame /\ (o.frame = f => b <= o.board)
    BY <1>8, <1>9
  <2>2. ~(o.frame = f /\ o.board = b)
    BY <1>5, <1>10
  <2>3. f \in Nat /\ b \in Nat /\ o.frame \in Nat /\ o.board \in Nat
    BY <1>7, <1>10
  <2> QED BY <1>10, <2>1, <2>2, <2>3 DEF Before
<1> DEFINE U == T \ {first}
<1>12. U \subseteq S /\ IsFiniteSet(U) /\ Cardinality(U) = n - 1 /\ n - 1 \in Nat
  <2>1. Cardinality(U) = Cardinality(T) - 1
    BY <1>5, <1>10, FS_RemoveElement
  <2> QED BY <1>1, <1>4, <1>5, <2>1
<1>13. PICK q : Lists(q, U)
  <2>1. Cardinality(U) \notin sizes
    BY <1>3, <1>5, <1>12
  <2>2. U \notin bad
    BY <2>1
  <2> QED BY <1>12, <2>2
<1>14. /\ q \in [1 .. n - 1 -> U]
       /\ \A i, j \in 1 .. n - 1 : i # j => q[i] # q[j]
       /\ \A i, j \in 1 .. n - 1 : i < j => Before(q[i], q[j])
  BY <1>12, <1>13 DEF Lists, SetToSeqs
<1> DEFINE r == [i \in 1 .. n |-> IF i = 1 THEN first ELSE q[i - 1]]
<1> HIDE DEF B, sizes, bad
<1>15. \A i \in 2 .. n : i - 1 \in 1 .. n - 1 /\ r[i] = q[i - 1] /\ r[i] \in U
  BY <1>5, <1>14
<1>16. r \in [1 .. n -> T]
  BY <1>5, <1>10, <1>14
<1>17. \A i \in 1 .. n : i = 1 \/ i \in 2 .. n
  BY <1>5
<1>18. 1 \in 1 .. n => r[1] = first
  OBVIOUS
<1> HIDE DEF r
<1>19. ASSUME NEW i \in 1 .. n, NEW j \in 1 .. n, i # j
       PROVE  r[i] # r[j]
  BY <1>5, <1>14, <1>15, <1>17, <1>18, <1>19
<1>20. ASSUME NEW i \in 1 .. n, NEW j \in 1 .. n, i < j
       PROVE  Before(r[i], r[j])
  BY <1>5, <1>11, <1>14, <1>15, <1>17, <1>18, <1>20
<1>21. Lists(r, T)
  BY <1>4, <1>16, <1>19, <1>20 DEF Lists, SetToSeqs
<1> QED BY <1>5, <1>21

\* A sequence of all elements of a finite set holds each of them.
LEMMA EnumerationIs ==
    ASSUME NEW S, IsFiniteSet(S), NEW q \in SetToSeqs(S)
    PROVE  /\ q \in Seq(S) /\ Range(q) = S /\ DOMAIN q = 1 .. Len(q)
           /\ \A i, j \in DOMAIN q : q[i] = q[j] => i = j
<1> DEFINE n == Cardinality(S)
<1>1. n \in Nat
  BY FS_CardinalityType
<1>2. q \in [1 .. n -> S] /\ \A i, j \in 1 .. n : i # j => q[i] # q[j]
  BY DEF SetToSeqs
<1>3. IsFiniteSet(1 .. n) /\ Cardinality(1 .. n) = n
  <2> HIDE DEF n
  <2> QED BY <1>1, FS_Interval
<1>4. q \in Injection(1 .. n, S)
  BY <1>2 DEF Injection, IsInjective
<1>5. q \in Surjection(1 .. n, S)
  BY <1>3, <1>4, FS_Injection
<1>6. Range(q) = S
  BY <1>2, <1>5 DEF Range, Surjection
<1>7. q \in Seq(S)
  BY <1>1, <1>2
<1> QED BY <1>2, <1>6, <1>7, LenProperties

\* One ordered sequence after the other.
LEMMA OrderedConcat ==
    ASSUME NEW q \in Seq(Observations), NEW r \in Seq(Observations), Ordered(q), Ordered(r),
           \A o \in Range(q), p \in Range(r) : o.cam < p.cam
    PROVE  /\ q \o r \in Seq(Observations) /\ Ordered(q \o r)
           /\ Range(q \o r) = Range(q) \cup Range(r)
<1> DEFINE s == q \o r
           n == Len(q)
           m == Len(r)
<1>1. n \in Nat /\ m \in Nat /\ DOMAIN q = 1 .. n /\ DOMAIN r = 1 .. m
  BY LenProperties
<1>2. /\ s \in Seq(Observations) /\ Len(s) = n + m /\ DOMAIN s = 1 .. n + m
      /\ \A i \in 1 .. n + m : s[i] = IF i <= n THEN q[i] ELSE r[i - n]
  BY <1>1, ConcatProperties, LenProperties
<1> HIDE DEF s, n, m
<1>3. \A i \in 1 .. n + m : \/ i \in 1 .. n /\ s[i] = q[i]
                            \/ i - n \in 1 .. m /\ s[i] = r[i - n] /\ i > n
  BY <1>1, <1>2
<1>4. ASSUME NEW i \in 1 .. n + m, NEW j \in 1 .. n + m, i < j
      PROVE  s[i].cam < s[j].cam \/ (s[i].cam = s[j].cam /\ Before(s[i], s[j]))
  <2>1. CASE i \in 1 .. n /\ s[i] = q[i] /\ j \in 1 .. n /\ s[j] = q[j]
    BY <1>1, <1>4, <2>1 DEF Ordered
  <2>2. CASE i \in 1 .. n /\ s[i] = q[i] /\ j - n \in 1 .. m /\ s[j] = r[j - n]
    BY <1>1, <2>2 DEF Range
  <2>3. CASE i - n \in 1 .. m /\ s[i] = r[i - n] /\ j - n \in 1 .. m /\ s[j] = r[j - n]
    <3>1. i - n < j - n
      BY <1>1, <1>4
    <3> QED BY <1>1, <2>3, <3>1 DEF Ordered
  <2> QED BY <1>1, <1>3, <1>4, <2>1, <2>2, <2>3
<1>5. Range(s) = Range(q) \cup Range(r)
  <2>1. q \o r \in Seq(Observations)
    BY <1>2 DEF s
  <2> QED BY <2>1, RangeConcatenation DEF s
<1>6. Ordered(s)
  BY <1>2, <1>4 DEF Ordered
<1> QED BY <1>2, <1>5, <1>6 DEF s

-----------------------------------------------------------------------------
(* The file as one sequence of observations.                               *)

\* F[i] holds the first i of the sequences s.
HeldAfter(W, s, n) ==
    {F \in [1 .. n -> Seq(W)] : F[1] = s[1] /\ \A i \in 2 .. n : F[i] = F[i - 1] \o s[i]}

\* The fold over the cameras is its own unfolding.
LEMMA PrefixesExist ==
    ASSUME NEW W, NEW n \in Nat \ {0}, NEW s \in [1 .. n -> Seq(W)]
    PROVE  HeldAfter(W, s, n) # {}
<1> DEFINE bad == {m \in 1 .. n : HeldAfter(W, s, m) = {}}
<1>0. n \in 1 .. n
  OBVIOUS
<1> SUFFICES ASSUME bad # {}
             PROVE  FALSE
  BY <1>0
<1>1. PICK m \in bad : \A l \in bad : m <= l
  <2>1. bad \in SUBSET Nat
    OBVIOUS
  <2> HIDE DEF bad
  <2> QED BY <2>1, LeastNumber
<1>2. m # 1
  <2> DEFINE G == [i \in 1 .. 1 |-> s[1]]
  <2>1. s[1] \in Seq(W) /\ 1 \in 1 .. n
    OBVIOUS
  <2>2. G \in [1 .. 1 -> Seq(W)] /\ G[1] = s[1] /\ 2 .. 1 = {}
    BY <2>1
  <2> HIDE DEF G
  <2>3. G \in HeldAfter(W, s, 1)
    BY <2>2 DEF HeldAfter
  <2> QED BY <2>3, <1>1
<1>3. m - 1 \in 1 .. n /\ m - 1 \notin bad /\ m \in 2 .. n
  <2>1. m \in 1 .. n
    BY <1>1
  <2>2. m - 1 \in 1 .. n /\ m \in 2 .. n /\ ~(m <= m - 1)
    BY <1>2, <2>1
  <2> HIDE DEF bad
  <2> QED BY <1>1, <2>2
<1>4. PICK F : F \in HeldAfter(W, s, m - 1)
  BY <1>3
<1>5. F \in [1 .. m - 1 -> Seq(W)] /\ F[1] = s[1] /\ \A i \in 2 .. m - 1 : F[i] = F[i - 1] \o s[i]
  BY <1>4 DEF HeldAfter
<1> DEFINE G == [i \in 1 .. m |-> IF i = m THEN F[m - 1] \o s[m] ELSE F[i]]
<1>6. F[m - 1] \o s[m] \in Seq(W)
  <2>1. F[m - 1] \in Seq(W) /\ s[m] \in Seq(W)
    BY <1>3, <1>5
  <2> QED BY <2>1, ConcatProperties
<1>7. G \in [1 .. m -> Seq(W)] /\ G[1] = s[1]
  BY <1>3, <1>5, <1>6
<1>8. ASSUME NEW i \in 2 .. m
      PROVE  G[i] = G[i - 1] \o s[i]
  <2>1. i - 1 \in 1 .. m - 1 /\ G[i - 1] = F[i - 1] /\ i \in 1 .. m
    BY <1>3
  <2>2. CASE i = m
    BY <2>1, <2>2
  <2>3. CASE i # m
    <3>1. i \in 2 .. m - 1 /\ G[i] = F[i]
      BY <1>3, <2>3
    <3> HIDE DEF G
    <3> QED BY <1>5, <2>1, <3>1
  <2> QED BY <2>2, <2>3
<1>9. G \in HeldAfter(W, s, m)
  BY <1>7, <1>8 DEF HeldAfter
<1> QED BY <1>1, <1>9

\* A concatenation of one more sequence.
LEMMA FlattenUnfolds ==
    ASSUME NEW W, NEW n \in Nat \ {0}, NEW s \in [1 .. n -> Seq(W)]
    PROVE  \E F \in HeldAfter(W, s, n) : FlattenSeq(s) = F[n]
<1> DEFINE inner(F) == [i \in 1 .. n |-> IF i = 1 THEN s[i] ELSE F[i - 1] \o s[i]]
<1>1. Len(s) = n
  <2>1. s \in Seq(Seq(W))
    OBVIOUS
  <2> QED BY <2>1, LenProperties
<1>2. FlattenSeq(s) = (CHOOSE F : F = inner(F))[n]
  BY <1>1 DEF FlattenSeq
<1>3. PICK F : F \in HeldAfter(W, s, n)
  BY PrefixesExist
<1>4. F = inner(F)
  <2>1. \A i \in 1 .. n : i = 1 \/ i \in 2 .. n
    OBVIOUS
  <2> QED BY <1>3, <2>1 DEF HeldAfter
<1> DEFINE G == CHOOSE H : H = inner(H)
<1>5. G = inner(G)
  <2> HIDE DEF inner
  <2> QED BY <1>4
<1> HIDE DEF G
<1>6. \A i \in 1 .. n : G[i] = IF i = 1 THEN s[i] ELSE G[i - 1] \o s[i]
  BY <1>5
<1>7. \A i \in 1 .. n : G[i] = F[i]
  <2> DEFINE bad == {i \in 1 .. n : G[i] # F[i]}
  <2> SUFFICES ASSUME bad # {}
               PROVE  FALSE
    OBVIOUS
  <2>0. bad \in SUBSET Nat
    OBVIOUS
  <2>1. PICK i \in bad : \A l \in bad : i <= l
    <3> HIDE DEF bad
    <3> QED BY <2>0, LeastNumber
  <2>2. i # 1
    BY <1>3, <1>6, <2>1 DEF HeldAfter
  <2>3. i - 1 \in 1 .. n /\ i - 1 \notin bad /\ i \in 2 .. n
    BY <2>1, <2>2
  <2>4. G[i] = G[i - 1] \o s[i] /\ G[i - 1] = F[i - 1]
    BY <1>6, <2>1, <2>2, <2>3
  <2>5. F[i] = F[i - 1] \o s[i]
    BY <1>3, <2>3 DEF HeldAfter
  <2> QED BY <2>1, <2>4, <2>5
<1>8. n \in 1 .. n
  OBVIOUS
<1> QED BY <1>2, <1>3, <1>7, <1>8 DEF G

\* What the first k cameras have in the file.
InFile(k) == UNION {Range(file.cams[i]) : i \in {j \in DOMAIN file.cams : j <= k}}

\* loadDetectedKeypoints gives back what is in the file, in order.
LEMMA LoadedIs ==
    ASSUME TypeOK, FileInv
    PROVE  Loaded \in Seq(Observations) /\ Ordered(Loaded) /\ Range(Loaded) = InFile(run.cams)
<1> DEFINE n == run.cams
           s == [i \in 1 .. n |-> Entry(i - 1)]
<1>1. n \in Nat /\ Loaded = FlattenSeq(s)
  BY CacheAssumption DEF TypeOK, Loaded
<1>2. /\ file.cams \in Seq(Seq(Observations)) /\ Len(file.cams) \in Nat
      /\ DOMAIN file.cams = 1 .. Len(file.cams)
      /\ \A i \in DOMAIN file.cams : file.cams[i] \in Seq(Observations)
  <2>1. file.cams \in Seq(Seq(Observations))
    BY DEF TypeOK
  <2> QED BY <2>1, LenProperties
<1>3. \A i \in 1 .. n : s[i] = IF i \in DOMAIN file.cams THEN file.cams[i] ELSE <<>>
  BY <1>1, <1>2 DEF Entry
<1>4. /\ <<>> \in Seq(Observations) /\ Range(<<>>) = {} /\ Ordered(<<>>)
  BY DEF Range, Ordered
<1>5. ASSUME NEW i \in 1 .. n
      PROVE  /\ s[i] \in Seq(Observations) /\ Ordered(s[i]) /\ \A o \in Range(s[i]) : o.cam = i - 1
             /\ InFile(i) = InFile(i - 1) \cup Range(s[i])
  <2>1. i \in Nat /\ i - 1 \in Nat
    BY <1>1
  <2>2. /\ s[i] \in Seq(Observations) /\ Ordered(s[i]) /\ \A o \in Range(s[i]) : o.cam = i - 1
    BY <1>2, <1>3, <1>4 DEF FileInv
  <2> HIDE DEF s
  <2>3. {j \in DOMAIN file.cams : j <= i} =
          {j \in DOMAIN file.cams : j <= i - 1} \cup ({i} \cap DOMAIN file.cams)
    BY <1>2, <2>1
  <2>4. InFile(i) = InFile(i - 1) \cup Range(s[i])
    <3>1. CASE i \in DOMAIN file.cams
      BY <1>3, <2>3, <3>1 DEF InFile
    <3>2. CASE i \notin DOMAIN file.cams
      BY <1>3, <1>4, <2>3, <3>2 DEF InFile
    <3> QED BY <3>1, <3>2
  <2> QED BY <2>2, <2>4
<1>6. CASE n = 0
  <2>1. s = <<>>
    BY <1>6
  <2>2. Loaded = <<>>
    BY <1>1, <2>1 DEF FlattenSeq
  <2>3. InFile(0) = {}
    BY <1>2 DEF InFile
  <2> QED BY <1>4, <1>6, <2>2, <2>3
<1>7. CASE n # 0
  <2>1. n \in Nat \ {0} /\ s \in [1 .. n -> Seq(Observations)]
    BY <1>1, <1>5, <1>7
  <2> HIDE DEF s
  <2>2. PICK F \in HeldAfter(Observations, s, n) : Loaded = F[n]
    BY <1>1, <2>1, FlattenUnfolds
  <2>3. /\ F \in [1 .. n -> Seq(Observations)]
        /\ F[1] = s[1] /\ \A i \in 2 .. n : F[i] = F[i - 1] \o s[i]
    BY DEF HeldAfter
  <2> DEFINE good(i) == /\ F[i] \in Seq(Observations) /\ Ordered(F[i]) /\ Range(F[i]) = InFile(i)
                        /\ \A o \in Range(F[i]) : o.cam <= i - 1
             bad == {i \in 1 .. n : ~good(i)}
  <2>4. bad = {}
    <3> SUFFICES ASSUME bad # {}
                 PROVE  FALSE
      OBVIOUS
    <3>0. bad \in SUBSET Nat
      BY <1>1
    <3>1. PICK i \in bad : \A l \in bad : i <= l
      <4> HIDE DEF bad
      <4> QED BY <3>0, LeastNumber
    <3>2. i # 1
      <4> SUFFICES good(1)
        BY <3>1
      <4>1. 1 \in 1 .. n
        BY <2>1
      <4>2. InFile(0) = {} /\ 1 - 1 = 0
        BY <1>2 DEF InFile
      <4>3. /\ s[1] \in Seq(Observations) /\ Ordered(s[1])
            /\ \A o \in Range(s[1]) : o.cam = 1 - 1
            /\ InFile(1) = InFile(1 - 1) \cup Range(s[1])
        BY <1>5, <4>1
      <4>4. F[1] = s[1] /\ InFile(1 - 1) = {}
        BY <2>3, <4>2
      <4>5. F[1] \in Seq(Observations) /\ Ordered(F[1]) /\ Range(F[1]) = InFile(1)
        BY <4>3, <4>4
      <4>6. \A o \in Range(F[1]) : o.cam <= 1 - 1
        BY <4>3, <4>4
      <4> QED BY <4>5, <4>6
    <3>3. i - 1 \in 1 .. n /\ i - 1 \notin bad /\ i \in 2 .. n /\ i \in 1 .. n
      BY <1>1, <3>1, <3>2
    <3> HIDE DEF bad
    <3>4. good(i - 1)
      BY <3>3 DEF bad
    <3>5. /\ s[i] \in Seq(Observations) /\ Ordered(s[i]) /\ \A o \in Range(s[i]) : o.cam = i - 1
          /\ InFile(i) = InFile(i - 1) \cup Range(s[i])
      BY <1>5, <3>3
    <3>6. \A o \in Range(F[i - 1]) : o.cam <= (i - 1) - 1 /\ o.cam \in Nat
      <4>1. \A o \in Range(F[i - 1]) : o \in Observations
        BY <3>4, LenProperties DEF Range
      <4> QED BY <3>4, <4>1 DEF Observations, Cameras
    <3>7. \A o \in Range(F[i - 1]), p \in Range(s[i]) : o.cam < p.cam
      BY <1>1, <3>3, <3>5, <3>6
    <3>8. F[i] = F[i - 1] \o s[i]
      BY <2>3, <3>3
    <3>9. F[i] \in Seq(Observations) /\ Ordered(F[i]) /\ Range(F[i]) = Range(F[i - 1]) \cup Range(s[i])
      <4> DEFINE q == F[i - 1]
      <4>1. q \in Seq(Observations) /\ Ordered(q) /\ \A o \in Range(q), p \in Range(s[i]) : o.cam < p.cam
        BY <3>4, <3>7
      <4>2. F[i] = q \o s[i]
        BY <3>8
      <4> HIDE DEF q
      <4>3. F[i] \in Seq(Observations) /\ Ordered(F[i]) /\ Range(F[i]) = Range(q) \cup Range(s[i])
        BY <3>5, <4>1, <4>2, OrderedConcat
      <4> QED BY <4>3 DEF q
    <3>10. \A o \in Range(F[i]) : o.cam <= i - 1
      BY <1>1, <3>3, <3>5, <3>6, <3>9
    <3>11. good(i)
      BY <3>4, <3>5, <3>9, <3>10
    <3> QED BY <3>1, <3>11 DEF bad
  <2>5. good(n)
    BY <2>1, <2>4
  <2> QED BY <2>2, <2>5
<1> QED BY <1>6, <1>7

-----------------------------------------------------------------------------
(* The steps.                                                              *)

\* The file as TypeOK has it.
FileType ==
    /\ file \in [is : {"none", "cut", "whole"}, cams : Seq(Seq(Observations)), torn : BOOLEAN]
    /\ Len(file.cams) <= NbCamera

\* Types of the cameras in the file, one by one.
LEMMA FileCams ==
    ASSUME FileType
    PROVE  /\ file.cams \in Seq(Seq(Observations)) /\ Len(file.cams) \in Nat
           /\ DOMAIN file.cams = 1 .. Len(file.cams)
           /\ \A i \in DOMAIN file.cams : file.cams[i] \in Seq(Observations)
                                         /\ Range(file.cams[i]) \subseteq Observations
<1>1. file.cams \in Seq(Seq(Observations))
  BY DEF FileType
<1>2. Len(file.cams) \in Nat /\ DOMAIN file.cams = 1 .. Len(file.cams)
      /\ \A i \in DOMAIN file.cams : file.cams[i] \in Seq(Observations)
  BY <1>1, LenProperties
<1>3. \A i \in DOMAIN file.cams : Range(file.cams[i]) \subseteq Observations
  BY <1>2, LenProperties DEF Range
<1> QED BY <1>1, <1>2, <1>3

\* A file of the right type and with FileInv satisfies what TypeOK says of it.
LEMMA FileTyped ==
    ASSUME FileType, FileInv
    PROVE  \A i \in DOMAIN file.cams :
              Range(file.cams[i]) \subseteq {o \in Observations : o.cam = i - 1}
BY FileCams DEF FileInv

\* Types of the observations of a run, one by one.
LEMMA ObsProperties ==
    ASSUME TypeOK
    PROVE  /\ obs \in Seq(Observations) /\ Len(obs) \in Nat /\ DOMAIN obs = 1 .. Len(obs)
           /\ Range(obs) \subseteq {o \in Observations : o.cam < run.cams /\ o.board < run.boards}
           /\ \A i \in DOMAIN obs : /\ obs[i] \in Observations /\ obs[i].cam < run.cams
                                   /\ obs[i].board < run.boards
           /\ \A c : Of(c) \subseteq DOMAIN obs
<1> DEFINE O == {o \in Observations : o.cam < run.cams /\ o.board < run.boards}
<1>1. obs \in Seq(O)
  BY DEF TypeOK
<1>2. obs \in [1 .. Len(obs) -> O] /\ Len(obs) \in Nat /\ DOMAIN obs = 1 .. Len(obs)
  <2> HIDE DEF O
  <2> QED BY <1>1, LenProperties
<1>3. Range(obs) \subseteq O /\ \A i \in DOMAIN obs : obs[i] \in O
  BY <1>2 DEF Range
<1>4. obs \in Seq(Observations)
  BY <1>2, <1>3
<1> QED BY <1>2, <1>3, <1>4 DEF Of

\* The invariant holds before the first run.
LEMMA CacheInit ==
    ASSUME Init
    PROVE  CacheInv
<1>1. PICK seen \in UNION {kSubset(n, Keys) : n \in 0 .. MaxObs} :
        images \in [seen -> 1 .. MaxPoints]
  BY DEF Init
<1>2. images \in [DOMAIN images -> 1 .. MaxPoints] /\ DOMAIN images \subseteq Keys
  BY <1>1 DEF kSubset
<1>3. /\ file = NoFile /\ run = NoRun /\ obs = <<>>
      /\ wild = "nowhere" /\ runs = 0 /\ given = FALSE /\ last = {}
      /\ pruned = [run |-> {}, file |-> {}]
  BY DEF Init
<1>4. TypeOK
  <2>1. /\ <<>> \in Seq(Seq(Observations)) /\ Len(<<>>) = 0 /\ DOMAIN <<>> = {}
        /\ \A S : <<>> \in Seq(S)
    OBVIOUS
  <2>2. /\ file \in [is : {"none", "cut", "whole"}, cams : Seq(Seq(Observations)), torn : BOOLEAN]
        /\ file.cams = <<>>
    BY <1>3, <2>1 DEF NoFile
  <2>3. run \in [at : {"off", "start", "extracted", "initialized", "posed", "saving"},
                cams : 0 .. NbCamera, boards : 0 .. NbBoard, params : BOOLEAN,
                asserts : BOOLEAN, from : {"images", "file"}]
    BY <1>3, CacheAssumption DEF NoRun
  <2>4. obs \in Seq({o \in Observations : o.cam < run.cams /\ o.board < run.boards})
    BY <1>3, <2>1
  <2>5. \A i \in DOMAIN file.cams :
          Range(file.cams[i]) \subseteq {o \in Observations : o.cam = i - 1}
    BY <2>1, <2>2
  <2>6. Len(file.cams) <= NbCamera /\ 0 \in 0 .. MaxRuns
    BY <2>1, <2>2, CacheAssumption
  <2>7. \A i, j \in DOMAIN obs : KeyOf(obs[i]) = KeyOf(obs[j]) => i = j
    BY <1>3
  <2> QED BY <1>2, <1>3, <2>2, <2>3, <2>4, <2>5, <2>6, <2>7 DEF TypeOK
<1>5. FileInv /\ ObsInv /\ SavedInv /\ LoadedInv
  BY <1>3 DEF FileInv, ObsInv, SavedInv, LoadedInv, NoFile, NoRun, AllOrNone, Range
<1> QED BY <1>2, <1>4, <1>5 DEF CacheInv

\* A run that ends leaves a sound file sound.
LEMMA EndsKeeps ==
    ASSUME CacheInv, Ends, pruned' \in [run : SUBSET Keys, file : SUBSET Keys],
           UNCHANGED <<images, runs, given>>,
           wild' \in {"nowhere", "pose", "object"}, last' \subseteq Observations,
           FileType', FileInv'
    PROVE  CacheInv'
<1>1. run' = NoRun /\ obs' = <<>> /\ images' = images /\ runs' = runs /\ given' = given
  BY DEF Ends
<1>2. \A i \in DOMAIN file'.cams :
         Range(file'.cams[i]) \subseteq {o \in Observations : o.cam = i - 1}
  <2>1. FileType' /\ FileInv' => (\A i \in DOMAIN file.cams :
              Range(file.cams[i]) \subseteq {o \in Observations : o.cam = i - 1})'
    BY FileTyped, PTL
  <2> QED BY <2>1
<1>3. TypeOK'
  <2>1. run' \in [at : {"off", "start", "extracted", "initialized", "posed", "saving"},
                cams : 0 .. NbCamera, boards : 0 .. NbBoard, params : BOOLEAN,
                asserts : BOOLEAN, from : {"images", "file"}]
    BY <1>1, CacheAssumption DEF NoRun
  <2>2. obs' \in Seq({o \in Observations : o.cam < run'.cams /\ o.board < run'.boards})
    <3>1. \A S : <<>> \in Seq(S)
      OBVIOUS
    <3> QED BY <1>1, <3>1
  <2>3. \A i, j \in DOMAIN obs' : KeyOf(obs'[i]) = KeyOf(obs'[j]) => i = j
    BY <1>1
  <2>4. FileType'
    OBVIOUS
  <2>5. /\ DOMAIN images' \subseteq Keys /\ runs' \in 0 .. MaxRuns /\ given' \in BOOLEAN
    BY <1>1 DEF CacheInv, TypeOK
  <2> QED BY <1>2, <2>1, <2>2, <2>3, <2>4, <2>5 DEF TypeOK, FileType
<1>4. ObsInv' /\ SavedInv' /\ LoadedInv'
  BY <1>1 DEF ObsInv, SavedInv, LoadedInv, NoRun, AllOrNone, Range
<1> QED BY <1>1, <1>3, <1>4 DEF CacheInv

\* A step that leaves the file alone leaves it sound.
LEMMA FileKept ==
    ASSUME CacheInv, UNCHANGED <<images, file, last>>, given' = given \/ given' = TRUE
    PROVE  FileType' /\ FileInv'
<1>1. UNCHANGED <<images, file, last>>
  OBVIOUS
<1>3. FileType'
  BY <1>1 DEF FileType, CacheInv, TypeOK
<1>4. FileInv
  BY DEF CacheInv
<1>5. FileInv'
  <2>1. ~given' => ~given
    OBVIOUS
  <2>2. ASSUME NEW i \in DOMAIN file'.cams
        PROVE  /\ \A o \in Range(file'.cams[i]) : o.cam = i - 1
               /\ Ordered(file'.cams[i])
               /\ AllOrNone(Range(file.cams[i]), i - 1)'
               /\ ~given' => file'.cams[i] # <<>>
    <3>1. /\ i \in DOMAIN file.cams /\ file'.cams[i] = file.cams[i]
      BY <1>1
    <3>2. /\ \A o \in Range(file.cams[i]) : o.cam = i - 1
          /\ Ordered(file.cams[i])
          /\ AllOrNone(Range(file.cams[i]), i - 1)
          /\ ~given => file.cams[i] # <<>>
      BY <1>4, <3>1 DEF FileInv
    <3>3. AllOrNone(Range(file.cams[i]), i - 1)'
      BY <1>1, <3>2 DEF AllOrNone, SeenIn
    <3> QED BY <2>1, <3>1, <3>2, <3>3
  <2>3. file'.is = "none" => file'.cams = <<>>
    BY <1>1, <1>4 DEF FileInv
  <2>4. file'.is = "whole" => last' = UNION {Range(file'.cams[i]) : i \in DOMAIN file'.cams}
    BY <1>1, <1>4 DEF FileInv
  <2> QED BY <2>2, <2>3, <2>4 DEF FileInv
<1> QED BY <1>3, <1>5

\* Starting a run keeps the invariant;
LEMMA StartRunStep ==
    ASSUME CacheInv, StartRun, pruned' \in [run : SUBSET Keys, file : SUBSET Keys]
    PROVE  CacheInv'
<1>1. /\ run = NoRun /\ obs = <<>> /\ runs < MaxRuns /\ runs' = runs + 1
      /\ UNCHANGED <<images, file, obs, wild, last>>
  BY DEF StartRun, CacheInv, ObsInv, NoRun
<1>2. PICK cams \in 1 .. NbCamera, boards \in 1 .. NbBoard,
           params \in BOOLEAN, asserts \in BOOLEAN, reuse \in BOOLEAN :
         /\ run' = [at |-> "start", cams |-> cams, boards |-> boards,
                    params |-> params, asserts |-> asserts,
                    from |-> IF reuse /\ file.is # "none" THEN "file" ELSE "images"]
         /\ given' = (given \/ params)
  BY DEF StartRun
<1>3. given \in BOOLEAN /\ given' \in BOOLEAN /\ (given' = given \/ given' = TRUE)
  BY <1>2 DEF CacheInv, TypeOK
<1>4. FileType' /\ FileInv'
  BY <1>1, <1>3, FileKept
<1>5. run' \in [at : {"off", "start", "extracted", "initialized", "posed", "saving"},
                cams : 0 .. NbCamera, boards : 0 .. NbBoard, params : BOOLEAN,
                asserts : BOOLEAN, from : {"images", "file"}]
  BY <1>2, CacheAssumption
<1>6. runs' \in 0 .. MaxRuns
  BY <1>1, CacheAssumption DEF CacheInv, TypeOK
<1>7. TypeOK'
  BY <1>1, <1>3, <1>5, <1>6 DEF CacheInv, TypeOK
<1>8. run'.at = "start" /\ (run'.params => given')
  BY <1>2
<1>9. ObsInv' /\ SavedInv' /\ LoadedInv'
  BY <1>1, <1>8 DEF ObsInv, SavedInv, LoadedInv, AllOrNone, Range
<1> QED BY <1>1, <1>4, <1>7, <1>9 DEF CacheInv

\* What the detection finds: a board of a camera in all frames it is in, or in none.
LEMMA DetectedIs ==
    ASSUME CacheInv
    PROVE  /\ IsFiniteSet(Detected)
           /\ Detected \subseteq {o \in Observations : o.cam < run.cams /\ o.board < run.boards}
           /\ \A o, p \in Detected : KeyOf(o) = KeyOf(p) => o = p
           /\ \A o \in Detected : o.pts > MinPose
           /\ \A c \in Cameras : AllOrNone(Detected, c)
<1> DEFINE K == {m \in DOMAIN images : m[1] < run.cams /\ m[3] < run.boards /\ Accepted(images[m])}
           obsOf(k) == [cam |-> k[1], frame |-> k[2], board |-> k[3], pts |-> images[k]]
<1>1. /\ images \in [DOMAIN images -> 1 .. MaxPoints] /\ DOMAIN images \subseteq Keys
  BY DEF CacheInv, TypeOK
<1>2. Detected = {obsOf(k) : k \in K}
  BY DEF Detected
<1>3. IsFiniteSet(Detected)
  <2>1. IsFiniteSet(Cameras) /\ IsFiniteSet(0 .. NbFrame - 1) /\ IsFiniteSet(0 .. NbBoard - 1)
    <3>1. NbCamera - 1 \in Int /\ NbFrame - 1 \in Int /\ NbBoard - 1 \in Int /\ 0 \in Int
      BY CacheAssumption
    <3> DEFINE a == NbCamera - 1
               b == NbFrame - 1
               d == NbBoard - 1
    <3>2. a \in Int /\ b \in Int /\ d \in Int /\ 0 \in Int
      BY <3>1
    <3> HIDE DEF a, b, d
    <3>3. IsFiniteSet(0 .. a) /\ IsFiniteSet(0 .. b) /\ IsFiniteSet(0 .. d)
      BY <3>2, FS_Interval
    <3> QED BY <3>3 DEF Cameras, a, b, d
  <2>2. IsFiniteSet((Cameras \X (0 .. NbFrame - 1)) \X (0 .. NbBoard - 1))
    BY <2>1, FS_Product
  <2> DEFINE triple == [k \in (Cameras \X (0 .. NbFrame - 1)) \X (0 .. NbBoard - 1) |->
                          <<k[1][1], k[1][2], k[2]>>]
  <2>3. IsFiniteSet(Range(triple)) /\ Keys \subseteq Range(triple)
    <3>1. triple \in Surjection((Cameras \X (0 .. NbFrame - 1)) \X (0 .. NbBoard - 1), Range(triple))
      BY DEF Surjection, Range
    <3>2. Keys \subseteq Range(triple)
      <4>1. ASSUME NEW k \in Keys
            PROVE  k \in Range(triple)
        <5>1. /\ k[1] \in Cameras /\ k[2] \in 0 .. NbFrame - 1 /\ k[3] \in 0 .. NbBoard - 1
              /\ k = <<k[1], k[2], k[3]>>
          BY DEF Keys
        <5> DEFINE l == <<<<k[1], k[2]>>, k[3]>>
        <5>2. l \in (Cameras \X (0 .. NbFrame - 1)) \X (0 .. NbBoard - 1)
          BY <5>1
        <5>3. l[1][1] = k[1] /\ l[1][2] = k[2] /\ l[2] = k[3]
          OBVIOUS
        <5> HIDE DEF l
        <5>4. l \in DOMAIN triple /\ triple[l] = k
          BY <5>1, <5>2, <5>3
        <5> HIDE DEF triple
        <5> QED BY <5>4 DEF Range
      <4> QED BY <4>1
    <3> HIDE DEF triple
    <3> QED BY <2>2, <3>1, <3>2, FS_Surjection
  <2>4. IsFiniteSet(K)
    BY <1>1, <2>3, FS_Subset
  <2> DEFINE maker == [k \in K |-> obsOf(k)]
  <2>5. maker \in Surjection(K, Detected)
    BY <1>2 DEF Surjection
  <2> HIDE DEF maker
  <2> QED BY <2>4, <2>5, FS_Surjection
<1>4. \A k \in K : /\ k \in Keys /\ images[k] \in 1 .. MaxPoints
                   /\ k = <<k[1], k[2], k[3]>> /\ k[1] \in Cameras /\ k[2] \in 0 .. NbFrame - 1
                   /\ k[3] \in 0 .. NbBoard - 1
                   /\ k[1] < run.cams /\ k[3] < run.boards /\ images[k] > MinPose
  BY <1>1 DEF Keys, Accepted
<1>5. Detected \subseteq {o \in Observations : o.cam < run.cams /\ o.board < run.boards}
  BY <1>2, <1>4, CacheAssumption DEF Observations
<1>6. \A o \in Detected : o.pts > MinPose
  BY <1>2, <1>4
<1>7. \A o, p \in Detected : KeyOf(o) = KeyOf(p) => o = p
  <2> SUFFICES ASSUME NEW k \in K, NEW l \in K, KeyOf(obsOf(k)) = KeyOf(obsOf(l))
               PROVE  k = l
    BY <1>2
  <2> QED BY <1>4 DEF KeyOf
<1>8. ASSUME NEW c \in Cameras, NEW b \in 0 .. NbBoard - 1
      PROVE  LET held == {o.frame : o \in {p \in Detected : p.cam = c /\ p.board = b}}
             IN  held = {} \/ held = SeenIn(c, b)
  <2> DEFINE held == {o.frame : o \in {p \in Detected : p.cam = c /\ p.board = b}}
  <2>1. CASE c < run.cams /\ b < run.boards
    <3>1. ASSUME NEW f \in SeenIn(c, b)
          PROVE  f \in held
      <4>1. <<c, f, b>> \in K
        BY <2>1, <1>1 DEF SeenIn, Accepted
      <4> DEFINE k == <<c, f, b>>
                 o == obsOf(k)
      <4>2. o \in Detected
        <5> HIDE DEF k, K, obsOf
        <5> QED BY <1>2, <4>1 DEF k
      <4>3. o.cam = c /\ o.frame = f /\ o.board = b
        OBVIOUS
      <4> HIDE DEF o
      <4> QED BY <4>2, <4>3
    <3>2. ASSUME NEW f \in held
          PROVE  f \in SeenIn(c, b)
      <4>1. PICK k \in K : k[1] = c /\ k[2] = f /\ k[3] = b
        BY <1>2
      <4> QED BY <1>4, <4>1 DEF SeenIn
    <3> QED BY <3>1, <3>2
  <2>2. CASE ~(c < run.cams /\ b < run.boards)
    BY <1>5, <2>2
  <2> QED BY <2>1, <2>2
<1>9. \A c \in Cameras : AllOrNone(Detected, c)
  BY <1>8 DEF AllOrNone
<1> QED BY <1>3, <1>5, <1>6, <1>7, <1>9

\* detecting the boards keeps it,
LEMMA DetectBoardsStep ==
    ASSUME CacheInv, DetectBoards, pruned' \in [run : SUBSET Keys, file : SUBSET Keys]
    PROVE  CacheInv'
<1>1. /\ run.at = "start" /\ run.from = "images"
      /\ run' = [run EXCEPT !.at = "extracted"] /\ obs' \in SetToSeqs(Detected)
      /\ UNCHANGED <<images, file, wild, runs, given, last>>
  BY DEF DetectBoards, GoesTo
<1>2. run' \in [at : {"off", "start", "extracted", "initialized", "posed", "saving"},
                cams : 0 .. NbCamera, boards : 0 .. NbBoard, params : BOOLEAN,
                asserts : BOOLEAN, from : {"images", "file"}]
      /\ run'.at = "extracted" /\ run'.from = "images" /\ run'.cams = run.cams
      /\ run'.boards = run.boards /\ run'.params = run.params
  BY <1>1 DEF CacheInv, TypeOK
<1>3. FileType' /\ FileInv'
  BY <1>1, FileKept
<1>4. /\ obs' \in Seq(Detected) /\ Range(obs') = Detected /\ DOMAIN obs' = 1 .. Len(obs')
      /\ \A i, j \in DOMAIN obs' : obs'[i] = obs'[j] => i = j
  BY <1>1, DetectedIs, EnumerationIs
<1>5. \A i \in DOMAIN obs' : obs'[i] \in Detected
  BY <1>4 DEF Range
<1>6. TypeOK'
  <2>1. obs' \in Seq({o \in Observations : o.cam < run'.cams /\ o.board < run'.boards})
    BY <1>2, <1>4, DetectedIs, SeqMonotonic
  <2>2. \A i, j \in DOMAIN obs' : KeyOf(obs'[i]) = KeyOf(obs'[j]) => i = j
    BY <1>4, <1>5, DetectedIs
  <2> QED BY <1>1, <1>2, <2>1, <2>2 DEF CacheInv, TypeOK
<1>7. ObsInv'
  <2>1. ASSUME NEW c \in Cameras
        PROVE  AllOrNone(Range(obs), c)'
    <3>1. AllOrNone(Detected, c)
      BY DetectedIs
    <3>2. Range(obs)' = Detected
      BY <1>4 DEF Range
    <3> QED BY <1>1, <3>1, <3>2 DEF AllOrNone, SeenIn
  <2>2. \A i \in DOMAIN obs' : obs'[i].pts > MinPose
    BY <1>5, DetectedIs
  <2>3. run'.params => given'
    BY <1>1, <1>2 DEF CacheInv, ObsInv
  <2> QED BY <1>2, <2>1, <2>2, <2>3 DEF ObsInv
<1>8. SavedInv' /\ LoadedInv'
  BY <1>2 DEF SavedInv, LoadedInv
<1>9. images' \in [DOMAIN images' -> 1 .. MaxPoints]
  BY <1>1 DEF CacheInv
<1> QED BY <1>3, <1>6, <1>7, <1>8, <1>9 DEF CacheInv

\* and loading them from the file,
LEMMA LoadDetectedKeypointsStep ==
    ASSUME CacheInv, LoadDetectedKeypoints, pruned' \in [run : SUBSET Keys, file : SUBSET Keys]
    PROVE  CacheInv'
<1>1. /\ run.at = "start" /\ run.from = "file" /\ ~Unloadable
      /\ run' = [run EXCEPT !.at = "extracted"] /\ obs' = Loaded
      /\ UNCHANGED <<images, file, wild, runs, given, last>>
  BY DEF LoadDetectedKeypoints, GoesTo
<1>2. run' \in [at : {"off", "start", "extracted", "initialized", "posed", "saving"},
                cams : 0 .. NbCamera, boards : 0 .. NbBoard, params : BOOLEAN,
                asserts : BOOLEAN, from : {"images", "file"}]
      /\ run'.at = "extracted" /\ run'.from = "file" /\ run'.cams = run.cams
      /\ run'.boards = run.boards /\ run'.params = run.params
      /\ run.cams \in Nat /\ run.boards \in Nat
  <2>1. run \in [at : {"off", "start", "extracted", "initialized", "posed", "saving"},
                cams : 0 .. NbCamera, boards : 0 .. NbBoard, params : BOOLEAN,
                asserts : BOOLEAN, from : {"images", "file"}]
    BY DEF CacheInv, TypeOK
  <2>2. run.cams \in Nat /\ run.boards \in Nat
    BY <2>1, CacheAssumption
  <2> QED BY <1>1, <2>1, <2>2
<1>3. FileType' /\ FileInv'
  BY <1>1, FileKept
<1>4. /\ obs' \in Seq(Observations) /\ Ordered(obs') /\ Range(obs') = InFile(run.cams)
  BY <1>1, LoadedIs DEF CacheInv
<1>5. FileType /\ FileInv /\ TypeOK
  BY DEF CacheInv, TypeOK, FileType
<1>6. /\ DOMAIN file.cams = 1 .. Len(file.cams) /\ Len(file.cams) \in Nat
      /\ \A i \in DOMAIN file.cams : \A o \in Range(file.cams[i]) : o.cam = i - 1
      /\ \A i \in DOMAIN file.cams : Range(file.cams[i]) \subseteq Observations
  BY <1>5, FileCams DEF FileInv
<1>7. DOMAIN obs' = 1 .. Len(obs') /\ Len(obs') \in Nat /\ \A i \in DOMAIN obs' : obs'[i] \in Observations
  BY <1>4, LenProperties
<1>8. \A o \in Range(obs') : o.cam < run.cams
  BY <1>2, <1>4, <1>6 DEF InFile
<1>9. \A o \in Observations : o.cam \in Nat /\ o.frame \in Nat /\ o.board \in Nat
  BY DEF Observations, Cameras
<1>10. ASSUME NEW i \in DOMAIN obs'
       PROVE  obs'[i] \in {o \in Observations : o.cam < run.cams /\ o.board < run.boards}
  <2>1. obs'[i] \in Range(obs')
    BY DEF Range
  <2>2. ~(obs'[i].board >= run.boards)
    BY <1>1 DEF Unloadable
  <2> QED BY <1>2, <1>7, <1>8, <1>9, <2>1, <2>2
<1>11. obs' \in Seq({o \in Observations : o.cam < run'.cams /\ o.board < run'.boards})
  <2> DEFINE O == {o \in Observations : o.cam < run.cams /\ o.board < run.boards}
  <2>1. obs' = [i \in 1 .. Len(obs') |-> obs'[i]]
    BY <1>4, LenProperties
  <2>2. \A i \in 1 .. Len(obs') : obs'[i] \in O
    BY <1>7, <1>10
  <2> HIDE DEF O
  <2>3. obs' \in Seq(O)
    BY <1>7, <2>1, <2>2
  <2> QED BY <1>2, <2>3 DEF O
<1>12. ASSUME NEW i \in DOMAIN obs', NEW j \in DOMAIN obs', KeyOf(obs'[i]) = KeyOf(obs'[j])
       PROVE  i = j
  <2>1. /\ obs'[i].cam = obs'[j].cam /\ obs'[i].frame = obs'[j].frame
        /\ obs'[i].board = obs'[j].board
    BY <1>12 DEF KeyOf
  <2>2. /\ obs'[i].cam \in Nat /\ obs'[i].frame \in Nat /\ obs'[i].board \in Nat
        /\ obs'[j].cam \in Nat /\ obs'[j].frame \in Nat /\ obs'[j].board \in Nat
    BY <1>7, <1>9
  <2>3. ~Before(obs'[i], obs'[j]) /\ ~Before(obs'[j], obs'[i])
    BY <2>1, <2>2 DEF Before
  <2>4. \A k, l \in DOMAIN obs' : k < l =>
            \/ obs'[k].cam < obs'[l].cam
            \/ obs'[k].cam = obs'[l].cam /\ Before(obs'[k], obs'[l])
    BY <1>4 DEF Ordered
  <2>5. ~(i < j)
    BY <2>1, <2>2, <2>3, <2>4
  <2>6. ~(j < i)
    BY <2>1, <2>2, <2>3, <2>4
  <2> QED BY <1>7, <2>5, <2>6
<1>13. TypeOK'
  BY <1>1, <1>2, <1>5, <1>11, <1>12 DEF TypeOK
<1>14. ASSUME NEW c \in Cameras
       PROVE  AllOrNone(Range(obs), c)'
  <2>1. \A o \in Range(obs') : o.cam = c =>
            c + 1 \in DOMAIN file.cams /\ o \in Range(file.cams[c + 1]) /\ c < run.cams
    <3> SUFFICES ASSUME NEW i \in DOMAIN file.cams, i <= run.cams,
                        NEW o \in Range(file.cams[i]), o.cam = c
                 PROVE  c + 1 \in DOMAIN file.cams /\ o \in Range(file.cams[c + 1]) /\ c < run.cams
      BY <1>4 DEF InFile
    <3>1. i = c + 1
      BY <1>6 DEF Cameras
    <3> QED BY <1>2, <1>6, <3>1
  <2>2. CASE c + 1 \in DOMAIN file.cams /\ c < run.cams
    <3> DEFINE l == c + 1
    <3>1. l \in DOMAIN file.cams /\ l <= run.cams /\ l - 1 = c
      BY <1>2, <2>2 DEF Cameras
    <3>2. \A o \in Range(obs') : o.cam = c => o \in Range(file.cams[l])
      BY <2>1
    <3> HIDE DEF l
    <3>3. \A o \in Range(file.cams[l]) : o.cam = c /\ o \in Range(obs')
      BY <1>4, <1>6, <3>1 DEF InFile
    <3>4. AllOrNone(Range(file.cams[l]), c)
      <4>1. AllOrNone(Range(file.cams[l]), l - 1)
        BY <1>5, <3>1 DEF FileInv
      <4> QED BY <3>1, <4>1
    <3>5. \A b : {p \in Range(obs') : p.cam = c /\ p.board = b} =
                 {p \in Range(file.cams[l]) : p.cam = c /\ p.board = b}
      BY <3>2, <3>3
    <3>6. Range(obs)' = Range(obs')
      BY DEF Range
    <3> QED BY <1>1, <3>4, <3>5, <3>6 DEF AllOrNone, SeenIn
  <2>3. CASE ~(c + 1 \in DOMAIN file.cams /\ c < run.cams)
    <3>1. Range(obs)' = Range(obs') /\ \A o \in Range(obs') : o.cam # c
      BY <2>1, <2>3 DEF Range
    <3> QED BY <3>1 DEF AllOrNone
  <2> QED BY <2>2, <2>3
<1>15. ObsInv'
  <2>1. run'.params => given'
    BY <1>1, <1>2 DEF CacheInv, ObsInv
  <2> QED BY <1>2, <1>14, <2>1 DEF ObsInv
<1>16. LoadedInv'
  <2>1. ASSUME file.is = "whole"
        PROVE  Range(obs') = {o \in last : o.cam < run.cams}
    <3>1. last = UNION {Range(file.cams[i]) : i \in DOMAIN file.cams}
      BY <1>5, <2>1 DEF FileInv
    <3>2. \A i \in DOMAIN file.cams : \A o \in Range(file.cams[i]) : o.cam < run.cams <=> i <= run.cams
      BY <1>2, <1>6
    <3> QED BY <1>4, <3>1, <3>2 DEF InFile
  <2>2. Range(obs)' = Range(obs')
    BY DEF Range
  <2> QED BY <1>1, <1>2, <1>4, <2>1, <2>2 DEF LoadedInv, Ordered
<1>17. SavedInv'
  BY <1>2 DEF SavedInv
<1>18. images' \in [DOMAIN images' -> 1 .. MaxPoints]
  BY <1>1 DEF CacheInv
<1> QED BY <1>3, <1>13, <1>15, <1>16, <1>17, <1>18 DEF CacheInv

\* or failing to;
LEMMA LoadFailsStep ==
    ASSUME CacheInv, LoadFails, pruned' \in [run : SUBSET Keys, file : SUBSET Keys]
    PROVE  CacheInv'
<1>1. Ends /\ UNCHANGED <<images, file, wild, runs, given, last>>
  BY DEF LoadFails
<1>2. FileType' /\ FileInv'
  BY <1>1, FileKept
<1>3. wild' \in {"nowhere", "pose", "object"} /\ last' \subseteq Observations
  BY <1>1 DEF CacheInv, TypeOK
<1> QED BY <1>1, <1>2, <1>3, EndsKeeps

\* the start of the calibration, with parameters or without,
LEMMA InitializeCalibrationStep ==
    ASSUME CacheInv, InitializeCalibration, pruned' \in [run : SUBSET Keys, file : SUBSET Keys]
    PROVE  CacheInv'
<1>1. run.at = "extracted" /\ UNCHANGED <<images, file, wild, runs, given, last>>
  BY DEF InitializeCalibration
<1>2. FileType' /\ FileInv'
  BY <1>1, FileKept
<1>3. wild' \in {"nowhere", "pose", "object"} /\ last' \subseteq Observations
  BY <1>1 DEF CacheInv, TypeOK
<1>4. CASE Ends
  BY <1>1, <1>2, <1>3, <1>4, EndsKeeps
<1>5. CASE /\ run.params \/ \A c \in 0 .. run.cams - 1 :
                              \E views \in Chosen(c) : Calibrates(views)
           /\ GoesTo("initialized") /\ UNCHANGED obs
  <2>1. run' \in [at : {"off", "start", "extracted", "initialized", "posed", "saving"},
                cams : 0 .. NbCamera, boards : 0 .. NbBoard, params : BOOLEAN,
                asserts : BOOLEAN, from : {"images", "file"}]
        /\ run'.at = "initialized" /\ run'.from = run.from /\ run'.cams = run.cams
        /\ run'.boards = run.boards /\ run'.params = run.params
    BY <1>5 DEF CacheInv, TypeOK, GoesTo
  <2>2. obs' = obs
    BY <1>5
  <2>3. ASSUME ~run.params, NEW c \in 0 .. run.cams - 1
        PROVE  Of(c)' # {}
    <3>1. PICK views \in Chosen(c) : Calibrates(views)
      BY <1>5, <2>3
    <3>2. views \subseteq Of(c) /\ views # {}
      BY <3>1 DEF Chosen, kSubset, Calibrates
    <3> QED BY <2>2, <3>2 DEF Of
  <2>4. TypeOK'
    BY <1>1, <2>1, <2>2 DEF CacheInv, TypeOK
  <2>5. ASSUME NEW c \in Cameras
        PROVE  AllOrNone(Range(obs), c)'
    <3>1. AllOrNone(Range(obs), c)
      BY DEF CacheInv, ObsInv
    <3> QED BY <1>1, <2>2, <3>1 DEF AllOrNone, SeenIn
  <2>6. run'.params => given'
    BY <1>1, <2>1 DEF CacheInv, ObsInv
  <2>7. run'.from = "images" => \A i \in DOMAIN obs' : obs'[i].pts > MinPose
    BY <1>1, <2>1, <2>2 DEF CacheInv, ObsInv
  <2>8. ObsInv'
    BY <2>1, <2>3, <2>5, <2>6, <2>7 DEF ObsInv
  <2>9. SavedInv' /\ LoadedInv'
    BY <2>1 DEF SavedInv, LoadedInv
  <2>10. images' \in [DOMAIN images' -> 1 .. MaxPoints]
    BY <1>1 DEF CacheInv
  <2> QED BY <1>2, <2>4, <2>8, <2>9, <2>10 DEF CacheInv
<1> QED BY <1>4, <1>5 DEF InitializeCalibration

\* dropping outliers,
LEMMA EstimatePoseStep ==
    ASSUME CacheInv, EstimatePose, pruned' \in [run : SUBSET Keys, file : SUBSET Keys]
    PROVE  CacheInv'
<1>1. run.at = "initialized" /\ UNCHANGED <<images, file, runs, given, last>>
  BY DEF EstimatePose
<1>2. FileType' /\ FileInv'
  BY <1>1, FileKept
<1>3. wild' \in {"nowhere", "pose", "object"} /\ last' \subseteq Observations
  BY <1>1 DEF EstimatePose, Wild, CacheInv, TypeOK
<1>4. CASE Ends
  BY <1>1, <1>2, <1>3, <1>4, EndsKeeps
<1>5. CASE /\ \E kept \in [DOMAIN obs -> 0 .. MaxPoints] :
               /\ \A i \in DOMAIN obs : kept[i] <= obs[i].pts
               /\ obs' = [i \in DOMAIN obs |-> [obs[i] EXCEPT !.pts = kept[i]]]
           /\ GoesTo("posed")
  <2>1. run' \in [at : {"off", "start", "extracted", "initialized", "posed", "saving"},
                cams : 0 .. NbCamera, boards : 0 .. NbBoard, params : BOOLEAN,
                asserts : BOOLEAN, from : {"images", "file"}]
        /\ run'.at = "posed" /\ run'.from = run.from /\ run'.cams = run.cams
        /\ run'.boards = run.boards /\ run'.params = run.params
    BY <1>5 DEF CacheInv, TypeOK, GoesTo
  <2>2. PICK kept \in [DOMAIN obs -> 0 .. MaxPoints] :
           obs' = [i \in DOMAIN obs |-> [obs[i] EXCEPT !.pts = kept[i]]]
    BY <1>5
  <2>3. /\ DOMAIN obs = 1 .. Len(obs) /\ Len(obs) \in Nat
        /\ \A i \in DOMAIN obs : /\ obs[i] \in Observations /\ obs[i].cam < run.cams
                                 /\ obs[i].board < run.boards
    BY ObsProperties DEF CacheInv
  <2>4. DOMAIN obs' = DOMAIN obs
    BY <2>2
  <2>5. ASSUME NEW i \in DOMAIN obs
        PROVE  /\ obs'[i] \in Observations /\ obs'[i].cam = obs[i].cam
               /\ obs'[i].frame = obs[i].frame /\ obs'[i].board = obs[i].board
    <3>1. obs[i] \in [cam : Cameras, frame : 0 .. NbFrame - 1, board : 0 .. NbBoard - 1,
                      pts : 0 .. MaxPoints]
      BY <2>3 DEF Observations
    <3>2. kept[i] \in 0 .. MaxPoints /\ obs'[i] = [obs[i] EXCEPT !.pts = kept[i]]
      BY <2>2
    <3> QED BY <3>1, <3>2 DEF Observations
  <2>6. obs' \in Seq({o \in Observations : o.cam < run'.cams /\ o.board < run'.boards})
    <3> DEFINE O == {o \in Observations : o.cam < run.cams /\ o.board < run.boards}
    <3>1. \A i \in 1 .. Len(obs) : obs'[i] \in O
      BY <2>3, <2>5
    <3>2. obs' = [i \in 1 .. Len(obs) |-> obs'[i]]
      BY <2>2, <2>3
    <3> HIDE DEF O
    <3>3. obs' \in Seq(O)
      BY <2>3, <3>1, <3>2
    <3> QED BY <2>1, <3>3 DEF O
  <2>7. \A i, j \in DOMAIN obs' : KeyOf(obs'[i]) = KeyOf(obs'[j]) => i = j
    <3>1. \A i \in DOMAIN obs : KeyOf(obs'[i]) = KeyOf(obs[i])
      BY <2>5 DEF KeyOf
    <3>2. \A i, j \in DOMAIN obs : KeyOf(obs[i]) = KeyOf(obs[j]) => i = j
      BY DEF CacheInv, TypeOK
    <3> QED BY <2>4, <3>1, <3>2
  <2>8. TypeOK'
    BY <1>1, <1>3, <2>1, <2>6, <2>7 DEF CacheInv, TypeOK
  <2>9. ASSUME NEW c \in Cameras
        PROVE  AllOrNone(Range(obs), c)'
    <3>1. AllOrNone(Range(obs), c)
      BY DEF CacheInv, ObsInv
    <3>2. Range(obs) = {obs[i] : i \in DOMAIN obs} /\ Range(obs)' = {obs'[i] : i \in DOMAIN obs}
      BY <2>4 DEF Range
    <3>3. \A b : {o.frame : o \in {p \in Range(obs)' : p.cam = c /\ p.board = b}} =
                 {o.frame : o \in {p \in Range(obs) : p.cam = c /\ p.board = b}}
      BY <2>5, <3>2
    <3> QED BY <1>1, <3>1, <3>3 DEF AllOrNone, SeenIn
  <2>10. \A c : Of(c)' = Of(c)
    BY <2>4, <2>5 DEF Of
  <2>11. /\ run'.params => given'
         /\ ~run'.params => \A c \in 0 .. run'.cams - 1 : Of(c)' # {}
    BY <1>1, <2>1, <2>10 DEF CacheInv, ObsInv
  <2>12. ObsInv'
    BY <2>1, <2>9, <2>11 DEF ObsInv
  <2>13. SavedInv' /\ LoadedInv'
    BY <2>1 DEF SavedInv, LoadedInv
  <2>14. images' \in [DOMAIN images' -> 1 .. MaxPoints]
    BY <1>1 DEF CacheInv
  <2> QED BY <1>2, <2>8, <2>12, <2>13, <2>14 DEF CacheInv
<1> QED BY <1>4, <1>5 DEF EstimatePose

\* the stages in between and their failures,
LEMMA CalibrateStep ==
    ASSUME CacheInv, Calibrate, pruned' \in [run : SUBSET Keys, file : SUBSET Keys]
    PROVE  CacheInv'
<1>1. run.at = "posed" /\ UNCHANGED <<images, runs, given>>
  BY DEF Calibrate
<1>2. wild' \in {"nowhere", "pose", "object"}
  BY DEF Calibrate, Wild, CacheInv, TypeOK
<1>3. CASE Ends /\ UNCHANGED <<file, last>>
  <2>1. FileType' /\ FileInv'
    BY <1>1, <1>3, FileKept
  <2>2. last' \subseteq Observations
    BY <1>3 DEF CacheInv, TypeOK
  <2> QED BY <1>1, <1>2, <1>3, <2>1, <2>2, EndsKeeps
<1>4. CASE /\ GoesTo("saving")
           /\ file' = [is |-> "cut", cams |-> <<>>, torn |-> FALSE]
           /\ last' = {} /\ UNCHANGED obs
  <2>1. run' \in [at : {"off", "start", "extracted", "initialized", "posed", "saving"},
                cams : 0 .. NbCamera, boards : 0 .. NbBoard, params : BOOLEAN,
                asserts : BOOLEAN, from : {"images", "file"}]
        /\ run'.at = "saving" /\ run'.from = run.from /\ run'.cams = run.cams
        /\ run'.boards = run.boards /\ run'.params = run.params /\ run'.cams \in Nat
    <3>1. run \in [at : {"off", "start", "extracted", "initialized", "posed", "saving"},
                cams : 0 .. NbCamera, boards : 0 .. NbBoard, params : BOOLEAN,
                asserts : BOOLEAN, from : {"images", "file"}]
      BY DEF CacheInv, TypeOK
    <3>2. run.cams \in Nat
      BY <3>1, CacheAssumption
    <3> QED BY <1>4, <3>1, <3>2 DEF GoesTo
  <2>2. /\ <<>> \in Seq(Seq(Observations)) /\ Len(<<>>) = 0 /\ DOMAIN <<>> = {}
    OBVIOUS
  <2>3. /\ file' \in [is : {"none", "cut", "whole"}, cams : Seq(Seq(Observations)), torn : BOOLEAN]
        /\ file'.cams = <<>> /\ file'.is = "cut"
    BY <1>4, <2>2
  <2>4. obs' = obs /\ last' = {}
    BY <1>4
  <2>5. Len(file'.cams) = 0 /\ DOMAIN file'.cams = {}
    BY <2>2, <2>3
  <2>6. 0 <= NbCamera /\ 0 <= run'.cams
    BY <2>1, CacheAssumption
  <2>7. TypeOK'
    BY <1>1, <1>2, <2>1, <2>3, <2>4, <2>5, <2>6 DEF CacheInv, TypeOK
  <2>8. FileInv'
    BY <2>3, <2>5 DEF FileInv
  <2>9. ASSUME NEW c \in Cameras
        PROVE  AllOrNone(Range(obs), c)'
    <3>1. AllOrNone(Range(obs), c)
      BY DEF CacheInv, ObsInv
    <3> QED BY <1>1, <2>4, <3>1 DEF AllOrNone, SeenIn
  <2>10. \A c : Of(c)' = Of(c)
    BY <2>4 DEF Of
  <2>11. /\ run'.params => given'
         /\ ~run'.params => \A c \in 0 .. run'.cams - 1 : Of(c)' # {}
    BY <1>1, <2>1, <2>10 DEF CacheInv, ObsInv
  <2>12. ObsInv'
    BY <2>1, <2>9, <2>11 DEF ObsInv
  <2>13. SavedInv' /\ LoadedInv'
    BY <2>1, <2>3, <2>5, <2>6 DEF SavedInv, LoadedInv
  <2>14. images' \in [DOMAIN images' -> 1 .. MaxPoints]
    BY <1>1 DEF CacheInv
  <2> QED BY <2>7, <2>8, <2>12, <2>13, <2>14 DEF CacheInv
<1> QED BY <1>3, <1>4 DEF Calibrate

\* What is written of a camera: all its observations, in their order.
LEMMA SortedIs ==
    ASSUME CacheInv, NEW c \in Cameras
    PROVE  /\ Sorted(c) \in Seq(Observations) /\ Ordered(Sorted(c))
           /\ Range(Sorted(c)) = {o \in Range(obs) : o.cam = c}
<1> DEFINE S == {obs[i] : i \in Of(c)}
<1>1. /\ DOMAIN obs = 1 .. Len(obs) /\ Len(obs) \in Nat
      /\ \A i \in DOMAIN obs : obs[i] \in Observations
      /\ \A i, j \in DOMAIN obs : KeyOf(obs[i]) = KeyOf(obs[j]) => i = j
  BY ObsProperties DEF CacheInv, TypeOK
<1>2. S \in SUBSET Observations /\ \A o \in S : o.cam = c
  BY <1>1 DEF Of
<1>3. IsFiniteSet(S)
  <2> DEFINE maker == [i \in Of(c) |-> obs[i]]
  <2>1. IsFiniteSet(1 .. Len(obs))
    <3> DEFINE n == Len(obs)
    <3>1. n \in Int /\ 1 \in Int
      BY <1>1
    <3> HIDE DEF n
    <3>2. IsFiniteSet(1 .. n)
      BY <3>1, FS_Interval
    <3> QED BY <3>2 DEF n
  <2>2. IsFiniteSet(Of(c))
    BY <1>1, <2>1, FS_Subset DEF Of
  <2>3. maker \in Surjection(Of(c), S)
    BY DEF Surjection
  <2> HIDE DEF maker, S
  <2> QED BY <2>2, <2>3, FS_Surjection
<1>4. \A o, p \in S : o.frame = p.frame /\ o.board = p.board => o = p
  <2> SUFFICES ASSUME NEW i \in Of(c), NEW j \in Of(c),
                      obs[i].frame = obs[j].frame, obs[i].board = obs[j].board
               PROVE  obs[i] = obs[j]
    OBVIOUS
  <2>1. KeyOf(obs[i]) = KeyOf(obs[j]) /\ i \in DOMAIN obs /\ j \in DOMAIN obs
    BY DEF KeyOf, Of
  <2> QED BY <1>1, <2>1
<1>5. S = {o \in Range(obs) : o.cam = c}
  BY DEF Range, Of
<1>6. Sorted(c) = CHOOSE q \in SetToSeqs(S) : \A i, j \in DOMAIN q : i < j => Before(q[i], q[j])
  BY DEF Sorted
<1> HIDE DEF S
<1>7. \E q : Lists(q, S)
  BY <1>2, <1>3, <1>4, ListExists
<1>8. Lists(Sorted(c), S)
  BY <1>6, <1>7 DEF Lists
<1>9. /\ Sorted(c) \in Seq(S) /\ Range(Sorted(c)) = S
  BY <1>3, <1>8, EnumerationIs DEF Lists
<1>10. Sorted(c) \in Seq(Observations)
  BY <1>2, <1>9, SeqMonotonic
<1>11. \A i \in DOMAIN Sorted(c) : Sorted(c)[i].cam = c
  BY <1>2, <1>9 DEF Range
<1>12. Ordered(Sorted(c))
  BY <1>8, <1>11 DEF Ordered, Lists
<1> QED BY <1>5, <1>9, <1>10, <1>12

\* saving one more camera,
LEMMA SaveCameraStep ==
    ASSUME CacheInv, SaveCamera, pruned' \in [run : SUBSET Keys, file : SUBSET Keys]
    PROVE  CacheInv'
<1> DEFINE n == Len(file.cams)
           q == Sorted(n)
<1>1. /\ run.at = "saving" /\ n < run.cams
      /\ file' = [file EXCEPT !.cams = Append(@, q)]
      /\ UNCHANGED <<images, run, obs, wild, runs, given, last>>
  BY DEF SaveCamera
<1>2. FileType /\ TypeOK /\ FileInv /\ ObsInv /\ SavedInv
  BY DEF CacheInv, TypeOK, FileType
<1>3. /\ file.cams \in Seq(Seq(Observations)) /\ n \in Nat /\ DOMAIN file.cams = 1 .. n
      /\ run.cams \in 0 .. NbCamera /\ n <= NbCamera
  BY <1>2, FileCams DEF TypeOK
<1>4. n \in Cameras /\ n \in 0 .. run.cams - 1
  BY <1>1, <1>3, CacheAssumption DEF Cameras
<1>5. /\ q \in Seq(Observations) /\ Ordered(q) /\ Range(q) = {o \in Range(obs) : o.cam = n}
  BY <1>4, SortedIs
<1> HIDE DEF q
<1>6. /\ Append(file.cams, q) \in Seq(Seq(Observations))
      /\ Len(Append(file.cams, q)) = n + 1
      /\ \A i \in 1 .. n : Append(file.cams, q)[i] = file.cams[i]
      /\ Append(file.cams, q)[n + 1] = q
  BY <1>3, <1>5, AppendProperties
<1>7. /\ file' \in [is : {"none", "cut", "whole"}, cams : Seq(Seq(Observations)), torn : BOOLEAN]
      /\ file'.cams = Append(file.cams, q) /\ file'.is = file.is
  <2>1. file \in [is : {"none", "cut", "whole"}, cams : Seq(Seq(Observations)), torn : BOOLEAN]
    BY <1>2 DEF TypeOK
  <2> HIDE DEF n
  <2> QED BY <1>1, <1>6, <2>1
<1>8. Len(file'.cams) = n + 1 /\ DOMAIN file'.cams = 1 .. n + 1
  BY <1>6, <1>7, LenProperties
<1> HIDE DEF n
<1>9. file'.is = "cut"
  BY <1>1, <1>2, <1>7 DEF SavedInv
<1>10. ASSUME ~given
       PROVE  q # <<>>
  <2>1. Of(n) # {}
    BY <1>1, <1>2, <1>4, <1>10 DEF ObsInv
  <2>2. Range(q) # {}
    BY <1>5, <2>1 DEF Of, Range
  <2> QED BY <2>2 DEF Range
<1>11. AllOrNone(Range(q), n)
  <2>1. AllOrNone(Range(obs), n)
    BY <1>2, <1>4 DEF ObsInv
  <2>2. \A b : {p \in Range(q) : p.cam = n /\ p.board = b} =
               {p \in Range(obs) : p.cam = n /\ p.board = b}
    BY <1>5
  <2> QED BY <2>1, <2>2 DEF AllOrNone
<1>12. ASSUME NEW i \in 1 .. n + 1
       PROVE  \/ i \in 1 .. n /\ file'.cams[i] = file.cams[i]
              \/ i = n + 1 /\ i - 1 = n /\ file'.cams[i] = q
  BY <1>3, <1>6, <1>7
<1>13. ASSUME NEW i \in DOMAIN file'.cams
       PROVE  /\ \A o \in Range(file'.cams[i]) : o.cam = i - 1
              /\ Ordered(file'.cams[i])
              /\ AllOrNone(Range(file.cams[i]), i - 1)'
              /\ ~given' => file'.cams[i] # <<>>
              /\ Range(file'.cams[i]) = {o \in Range(obs) : o.cam = i - 1}
  <2>1. CASE i \in 1 .. n /\ file'.cams[i] = file.cams[i]
    <3>1. /\ \A o \in Range(file.cams[i]) : o.cam = i - 1
          /\ Ordered(file.cams[i])
          /\ AllOrNone(Range(file.cams[i]), i - 1)
          /\ ~given => file.cams[i] # <<>>
          /\ Range(file.cams[i]) = {o \in Range(obs) : o.cam = i - 1}
      BY <1>1, <1>2, <1>3, <2>1 DEF FileInv, SavedInv
    <3>2. AllOrNone(Range(file.cams[i]), i - 1)'
      BY <1>1, <2>1, <3>1 DEF AllOrNone, SeenIn
    <3> QED BY <1>1, <2>1, <3>1, <3>2
  <2>2. CASE i = n + 1 /\ i - 1 = n /\ file'.cams[i] = q
    <3>1. AllOrNone(Range(file'.cams[i]), i - 1)
      BY <1>11, <2>2
    <3>2. AllOrNone(Range(file.cams[i]), i - 1)'
      BY <1>1, <3>1 DEF AllOrNone, SeenIn
    <3> QED BY <1>1, <1>5, <1>10, <2>2, <3>2
  <2> QED BY <1>8, <1>12, <2>1, <2>2
<1>14. FileInv'
  BY <1>9, <1>13 DEF FileInv
<1>15. Len(file'.cams) <= NbCamera /\ Len(file'.cams) <= run'.cams
  BY <1>1, <1>3, <1>8, CacheAssumption
<1>16. FileType'
  BY <1>7, <1>15 DEF FileType
<1>17. \A i \in DOMAIN file'.cams :
         Range(file'.cams[i]) \subseteq {o \in Observations : o.cam = i - 1}
  <2>1. Range(obs) \subseteq Observations
    BY <1>2, ObsProperties
  <2> QED BY <1>13, <2>1
<1>18. TypeOK'
  BY <1>1, <1>2, <1>7, <1>15, <1>17 DEF TypeOK
<1>19. ObsInv'
  <2>1. ASSUME NEW c \in Cameras
        PROVE  AllOrNone(Range(obs), c)'
    <3>1. AllOrNone(Range(obs), c)
      BY <1>2 DEF ObsInv
    <3> QED BY <1>1, <3>1 DEF AllOrNone, SeenIn
  <2>2. \A c : Of(c)' = Of(c)
    BY <1>1 DEF Of
  <2> QED BY <1>1, <1>2, <2>1, <2>2 DEF ObsInv
<1>20. SavedInv'
  <2>1. Range(obs)' = Range(obs)
    BY <1>1
  <2> QED BY <1>9, <1>13, <1>15, <2>1 DEF SavedInv
<1>21. LoadedInv'
  BY <1>1 DEF LoadedInv
<1>22. images' \in [DOMAIN images' -> 1 .. MaxPoints]
  BY <1>1 DEF CacheInv
<1> QED BY <1>14, <1>18, <1>19, <1>20, <1>21, <1>22 DEF CacheInv

\* the end of saving,
LEMMA ReleaseStep ==
    ASSUME CacheInv, Release, pruned' \in [run : SUBSET Keys, file : SUBSET Keys]
    PROVE  CacheInv'
<1>1. /\ run.at = "saving" /\ Len(file.cams) = run.cams
      /\ file' = [file EXCEPT !.is = "whole"] /\ last' = Range(obs) /\ Ends
      /\ UNCHANGED <<images, wild, runs, given>>
  BY DEF Release
<1>2. FileType /\ TypeOK /\ FileInv /\ ObsInv /\ SavedInv
  BY DEF CacheInv, TypeOK, FileType
<1>3. /\ file' \in [is : {"none", "cut", "whole"}, cams : Seq(Seq(Observations)), torn : BOOLEAN]
      /\ file'.cams = file.cams /\ file'.is = "whole"
  BY <1>1, <1>2 DEF FileType
<1>4. FileType'
  BY <1>2, <1>3 DEF FileType
<1>5. Range(obs) = UNION {Range(file.cams[i]) : i \in DOMAIN file.cams}
  <2>1. /\ \A i \in DOMAIN file.cams : Range(file.cams[i]) = {o \in Range(obs) : o.cam = i - 1}
        /\ DOMAIN file.cams = 1 .. run.cams /\ run.cams \in Nat
    BY <1>1, <1>2, FileCams DEF SavedInv
  <2>2. \A o \in Range(obs) : o.cam \in Nat /\ o.cam < run.cams
    BY <1>2, ObsProperties DEF Observations, Cameras
  <2>3. \A o \in Range(obs) : o.cam + 1 \in DOMAIN file.cams /\ (o.cam + 1) - 1 = o.cam
    BY <2>1, <2>2
  <2>4. \A o \in Range(obs) : o \in Range(file.cams[o.cam + 1])
    BY <2>1, <2>3
  <2> QED BY <2>1, <2>3, <2>4
<1>6. ASSUME NEW i \in DOMAIN file'.cams
      PROVE  /\ \A o \in Range(file'.cams[i]) : o.cam = i - 1
             /\ Ordered(file'.cams[i])
             /\ AllOrNone(Range(file.cams[i]), i - 1)'
             /\ ~given' => file'.cams[i] # <<>>
  <2>1. /\ \A o \in Range(file.cams[i]) : o.cam = i - 1
        /\ Ordered(file.cams[i])
        /\ AllOrNone(Range(file.cams[i]), i - 1)
        /\ ~given => file.cams[i] # <<>>
    BY <1>2, <1>3 DEF FileInv
  <2>2. AllOrNone(Range(file.cams[i]), i - 1)'
    BY <1>1, <1>3, <2>1 DEF AllOrNone, SeenIn
  <2> QED BY <1>1, <1>3, <2>1, <2>2
<1>7. FileInv'
  <2>1. last' = UNION {Range(file'.cams[i]) : i \in DOMAIN file'.cams}
    BY <1>1, <1>3, <1>5
  <2> QED BY <1>3, <1>6, <2>1 DEF FileInv
<1>8. wild' \in {"nowhere", "pose", "object"} /\ last' \subseteq Observations
  BY <1>1, <1>2, ObsProperties DEF TypeOK
<1> QED BY <1>1, <1>4, <1>7, <1>8, EndsKeeps

\* and a kill.
LEMMA KillStep ==
    ASSUME CacheInv, Kill, pruned' \in [run : SUBSET Keys, file : SUBSET Keys]
    PROVE  CacheInv'
<1>1. run.at # "off" /\ Ends /\ UNCHANGED <<images, wild, runs, given, last>>
  BY DEF Kill
<1>2. FileType /\ TypeOK /\ FileInv /\ ObsInv /\ SavedInv
  BY DEF CacheInv, TypeOK, FileType
<1>3. wild' \in {"nowhere", "pose", "object"} /\ last' \subseteq Observations
  BY <1>1, <1>2 DEF TypeOK
<1>4. CASE UNCHANGED file
  <2>1. FileType' /\ FileInv'
    BY <1>1, <1>4, FileKept
  <2> QED BY <1>1, <1>3, <2>1, EndsKeeps
<1>5. CASE run.at = "saving"
  <2>1. PICK n \in 0 .. Len(file.cams), torn \in BOOLEAN :
           file' = [file EXCEPT !.cams = SubSeq(@, 1, n), !.torn = torn]
    BY <1>5 DEF Kill
  <2>2. /\ file.cams \in Seq(Seq(Observations)) /\ Len(file.cams) \in Nat
        /\ DOMAIN file.cams = 1 .. Len(file.cams)
    BY <1>2, FileCams
  <2> DEFINE s == SubSeq(file.cams, 1, n)
  <2>3. /\ s \in Seq(Seq(Observations)) /\ Len(s) = n /\ DOMAIN s = 1 .. n
        /\ \A i \in 1 .. n : s[i] = file.cams[i]
    <3>1. /\ s \in Seq(Seq(Observations)) /\ Len(s) = n
          /\ \A i \in 1 .. n : s[i] = file.cams[i]
      <4>1. n \in Nat /\ n <= Len(file.cams) /\ \A i \in 1 .. n : i \in 1 .. Len(file.cams)
        BY <2>2
      <4>2. s = [i \in 1 .. n |-> file.cams[i]]
        BY <2>2, <4>1
      <4>3. \A i \in 1 .. n : file.cams[i] \in Seq(Observations)
        BY <2>2, <4>1, LenProperties
      <4> HIDE DEF s
      <4>4. s \in Seq(Seq(Observations))
        BY <4>1, <4>2, <4>3
      <4> QED BY <4>1, <4>2, <4>4, LenProperties
    <3> HIDE DEF s
    <3> QED BY <3>1, LenProperties
  <2>4. /\ file' \in [is : {"none", "cut", "whole"}, cams : Seq(Seq(Observations)), torn : BOOLEAN]
        /\ file'.cams = s /\ file'.is = "cut"
    <3>1. file \in [is : {"none", "cut", "whole"}, cams : Seq(Seq(Observations)), torn : BOOLEAN]
          /\ file.is = "cut"
      BY <1>2, <1>5 DEF FileType, SavedInv
    <3>2. file' = [file EXCEPT !.cams = s, !.torn = torn]
      BY <2>1, <3>1
    <3> HIDE DEF s
    <3> QED BY <2>3, <3>1, <3>2
  <2> HIDE DEF s
  <2>5. Len(file'.cams) <= NbCamera
    BY <1>2, <2>2, <2>3, <2>4, CacheAssumption DEF FileType
  <2>6. FileType'
    BY <2>4, <2>5 DEF FileType
  <2>7. ASSUME NEW i \in DOMAIN file'.cams
        PROVE  /\ \A o \in Range(file'.cams[i]) : o.cam = i - 1
               /\ Ordered(file'.cams[i])
               /\ AllOrNone(Range(file.cams[i]), i - 1)'
               /\ ~given' => file'.cams[i] # <<>>
    <3>1. i \in DOMAIN file.cams /\ file'.cams[i] = file.cams[i]
      BY <2>2, <2>3, <2>4
    <3>2. /\ \A o \in Range(file.cams[i]) : o.cam = i - 1
          /\ Ordered(file.cams[i])
          /\ AllOrNone(Range(file.cams[i]), i - 1)
          /\ ~given => file.cams[i] # <<>>
      BY <1>2, <3>1 DEF FileInv
    <3>3. AllOrNone(Range(file.cams[i]), i - 1)'
      BY <1>1, <3>1, <3>2 DEF AllOrNone, SeenIn
    <3> QED BY <1>1, <3>1, <3>2, <3>3
  <2>8. FileInv'
    BY <2>4, <2>7 DEF FileInv
  <2> QED BY <1>1, <1>3, <2>6, <2>8, EndsKeeps
<1> QED BY <1>4, <1>5 DEF Kill

\* The history keeps its type.
LEMMA PrunedTyped ==
    ASSUME TypeOK, Next
    PROVE  pruned' \in [run : SUBSET Keys, file : SUBSET Keys]
<1>1. pruned \in [run : SUBSET Keys, file : SUBSET Keys]
  BY DEF TypeOK
<1>2. CASE Ends
  BY <1>1, <1>2 DEF Ends
<1>3. CASE UNCHANGED pruned
  BY <1>1, <1>3
<1>4. CASE LoadDetectedKeypoints
  BY <1>1, <1>4 DEF LoadDetectedKeypoints
<1>5. CASE EstimatePose
  <2>1. ASSUME NEW B, pruned' = [pruned EXCEPT !.run = @ \cup B], B \subseteq Keys
        PROVE  pruned' \in [run : SUBSET Keys, file : SUBSET Keys]
    BY <1>1, <2>1
  <2>2. \A i \in DOMAIN obs : KeyOf(obs[i]) \in Keys
    BY ObsProperties DEF KeyOf, Keys, Observations
  <2>3. \A kept : {KeyOf(obs[i]) : i \in {j \in DOMAIN obs : kept[j] < obs[j].pts}} \subseteq Keys
    BY <2>2
  <2> QED BY <1>2, <1>5, <2>1, <2>3 DEF EstimatePose
<1>6. CASE Calibrate
  BY <1>1, <1>2, <1>6 DEF Calibrate
<1>7. CASE ~LoadDetectedKeypoints /\ ~EstimatePose /\ ~Calibrate
  BY <1>2, <1>3, <1>7 DEF Next, StartRun, DetectBoards, LoadFails, InitializeCalibration,
     SaveCamera, Release, Kill
<1> QED BY <1>2, <1>3, <1>4, <1>5, <1>6, <1>7

\* Every step keeps the invariant.
LEMMA CacheNext ==
    ASSUME CacheInv, [Next]_vars
    PROVE  CacheInv'
<1>1. CASE Next
  <2>1. TypeOK
    BY DEF CacheInv
  <2>2. pruned' \in [run : SUBSET Keys, file : SUBSET Keys]
    BY <1>1, <2>1, PrunedTyped
  <2> QED BY <1>1, <2>2, StartRunStep, DetectBoardsStep, LoadDetectedKeypointsStep,
     LoadFailsStep, InitializeCalibrationStep, EstimatePoseStep, CalibrateStep,
     SaveCameraStep, ReleaseStep, KillStep DEF Next
<1>2. CASE UNCHANGED vars
  <2>1. UNCHANGED <<images, file, run, obs, wild, runs, given, last, pruned>>
    BY <1>2 DEF vars
  <2>2. FileInv'
    BY <2>1, FileKept
  <2>3. TypeOK'
    BY <2>1 DEF CacheInv, TypeOK
  <2>4. ObsInv'
    <3>1. ASSUME NEW c \in Cameras
          PROVE  AllOrNone(Range(obs), c)'
      <4>1. AllOrNone(Range(obs), c)
        BY DEF CacheInv, ObsInv
      <4> QED BY <2>1, <4>1 DEF AllOrNone, SeenIn
    <3>2. \A c : Of(c)' = Of(c)
      BY <2>1 DEF Of
    <3> QED BY <2>1, <3>1, <3>2 DEF CacheInv, ObsInv
  <2>5. SavedInv' /\ LoadedInv'
    <3>1. Range(obs)' = Range(obs)
      BY <2>1
    <3> QED BY <2>1, <3>1 DEF CacheInv, SavedInv, LoadedInv
  <2>6. images' \in [DOMAIN images' -> 1 .. MaxPoints]
    BY <2>1 DEF CacheInv
  <2> QED BY <2>2, <2>3, <2>4, <2>5, <2>6 DEF CacheInv
<1> QED BY <1>1, <1>2

-----------------------------------------------------------------------------
(* The points that were detected, and those that were dropped.             *)

\* A run that ends, whatever of the file is left.
LEMMA PrunedEnds ==
    ASSUME CacheInv, PrunedInv, Ends, images' = images,
           \A i \in DOMAIN file'.cams :
              i \in DOMAIN file.cams /\ file'.cams[i] = file.cams[i]
    PROVE  PrunedInv'
<1>1. /\ run'.at = "off" /\ obs' = <<>> /\ pruned'.run = {} /\ pruned'.file = pruned.file
  BY DEF Ends, NoRun, CacheInv, TypeOK
<1>2. AsDetected(Range(obs), pruned.run)'
  BY <1>1 DEF AsDetected, Range
<1>3. ASSUME NEW i \in DOMAIN file'.cams
      PROVE  AsDetected(Range(file.cams[i]), pruned.file)'
  <2>1. AsDetected(Range(file.cams[i]), pruned.file)
    BY <1>3 DEF PrunedInv
  <2> QED BY <1>1, <1>3, <2>1 DEF AsDetected
<1> QED BY <1>1, <1>2, <1>3 DEF PrunedInv

\* A run that goes on with the file, and the points of what it has, untouched.
LEMMA PrunedStays ==
    ASSUME PrunedInv, UNCHANGED <<images, obs, pruned>>,
           UNCHANGED file \/ file'.cams = <<>>,
           run'.at \in {"start", "initialized"},
           run'.at = "start" => run.at = "off"
    PROVE  PrunedInv'
<1>1. AsDetected(Range(obs), pruned.run)'
  BY DEF PrunedInv, AsDetected
<1>2. ASSUME NEW i \in DOMAIN file'.cams
      PROVE  AsDetected(Range(file.cams[i]), pruned.file)'
  BY <1>2 DEF PrunedInv, AsDetected
<1> QED BY <1>1, <1>2 DEF PrunedInv

\* estimatePose drops points of the boards it counts, and of no others.
LEMMA PrunedEstimate ==
    ASSUME CacheInv, PrunedInv, EstimatePose, GoesTo("posed"),
           NEW kept \in [DOMAIN obs -> 0 .. MaxPoints],
           \A i \in DOMAIN obs : kept[i] <= obs[i].pts,
           obs' = [i \in DOMAIN obs |-> [obs[i] EXCEPT !.pts = kept[i]]],
           pruned' = [pruned EXCEPT !.run = @ \cup
              {KeyOf(obs[i]) : i \in {j \in DOMAIN obs : kept[j] < obs[j].pts}}]
    PROVE  PrunedInv'
<1> DEFINE B == {KeyOf(obs[i]) : i \in {j \in DOMAIN obs : kept[j] < obs[j].pts}}
<1>1. /\ UNCHANGED <<images, file>>
      /\ pruned'.run = pruned.run \cup B /\ pruned'.file = pruned.file
  BY DEF EstimatePose, CacheInv, TypeOK
<1>2. run'.at = "posed"
  BY DEF GoesTo, CacheInv, TypeOK
<1>3. ASSUME NEW i \in DOMAIN obs
      PROVE  /\ KeyOf(obs'[i]) = KeyOf(obs[i]) /\ obs'[i].pts = kept[i]
             /\ kept[i] \in Nat /\ obs[i].pts \in Nat /\ kept[i] <= obs[i].pts
             /\ KeyOf(obs[i]) \in B <=> kept[i] < obs[i].pts
  <2>1. obs[i] \in Observations
    BY ObsProperties DEF CacheInv
  <2>2. obs'[i] = [obs[i] EXCEPT !.pts = kept[i]] /\ kept[i] \in 0 .. MaxPoints
    OBVIOUS
  <2>3. \A j \in DOMAIN obs : KeyOf(obs[i]) = KeyOf(obs[j]) => i = j
    BY DEF CacheInv, TypeOK
  <2>4. KeyOf(obs[i]) \in B <=> kept[i] < obs[i].pts
    BY <2>3
  <2>5. KeyOf(obs'[i]) = KeyOf(obs[i]) /\ obs'[i].pts = kept[i]
    BY <2>1, <2>2 DEF KeyOf, Observations
  <2> QED BY <2>1, <2>2, <2>4, <2>5 DEF Observations
<1>4. AsDetected(Range(obs), pruned.run)'
  <2> SUFFICES ASSUME NEW i \in DOMAIN obs
               PROVE  LET o == obs'[i]
                      IN  /\ KeyOf(o) \in DOMAIN images
                          /\ IF KeyOf(o) \in pruned.run \cup B THEN o.pts < images[KeyOf(o)]
                             ELSE o.pts = images[KeyOf(o)]
    <3>1. Range(obs)' = {obs'[i] : i \in DOMAIN obs}
      BY DEF Range
    <3> HIDE DEF B
    <3> QED BY <1>1, <3>1 DEF AsDetected
  <2> DEFINE k == KeyOf(obs[i])
  <2>1. /\ k \in DOMAIN images
        /\ IF k \in pruned.run THEN obs[i].pts < images[k] ELSE obs[i].pts = images[k]
    BY DEF PrunedInv, AsDetected, Range
  <2>2. images[k] \in Nat
    BY <2>1 DEF CacheInv
  <2>3. /\ KeyOf(obs'[i]) = k /\ obs'[i].pts = kept[i]
        /\ kept[i] \in Nat /\ obs[i].pts \in Nat /\ kept[i] <= obs[i].pts
        /\ k \in B <=> kept[i] < obs[i].pts
    BY <1>3
  <2> DEFINE a == kept[i]
             b == obs[i].pts
             d == images[k]
  <2>4. /\ k \in pruned.run \cup B => a < d
        /\ k \notin pruned.run \cup B => a = d
    <3>1. a \in Nat /\ b \in Nat /\ d \in Nat /\ a <= b /\ (k \in B <=> a < b)
      BY <2>2, <2>3
    <3>2. (k \in pruned.run => b < d) /\ (k \notin pruned.run => b = d)
      BY <2>1
    <3> HIDE DEF a, b, d, k, B
    <3>3. CASE k \in B
      BY <3>1, <3>2, <3>3
    <3>4. CASE k \notin B
      BY <3>1, <3>2, <3>4
    <3> QED BY <3>3, <3>4
  <2> HIDE DEF B
  <2> QED BY <2>1, <2>3, <2>4
<1>5. ASSUME NEW i \in DOMAIN file'.cams
      PROVE  AsDetected(Range(file.cams[i]), pruned.file)'
  BY <1>1, <1>5 DEF PrunedInv, AsDetected
<1> QED BY <1>2, <1>4, <1>5 DEF PrunedInv

\* Every step keeps what is known of the points.
LEMMA PrunedNext ==
    ASSUME CacheInv, PrunedInv, [Next]_vars
    PROVE  PrunedInv'
<1>1. /\ TypeOK /\ FileInv /\ SavedInv
      /\ pruned \in [run : SUBSET Keys, file : SUBSET Keys]
  BY DEF CacheInv, TypeOK
<1>2. CASE Ends /\ UNCHANGED <<images, file>>
  BY <1>2, PrunedEnds
<1>3. CASE StartRun
  <2>1. run.at = "off" /\ run'.at = "start" /\ UNCHANGED <<images, file, obs, pruned>>
    BY <1>3 DEF StartRun, NoRun
  <2> QED BY <2>1, PrunedStays
<1>4. CASE DetectBoards
  <2>1. /\ run'.at = "extracted" /\ run'.from = "images" /\ pruned.run = {}
        /\ obs' \in SetToSeqs(Detected) /\ UNCHANGED <<images, file, pruned>>
    BY <1>1, <1>4 DEF DetectBoards, GoesTo, TypeOK, PrunedInv
  <2>2. Range(obs') = Detected
    BY <2>1, DetectedIs, EnumerationIs
  <2>3. \A o \in Detected : KeyOf(o) \in DOMAIN images /\ o.pts = images[KeyOf(o)]
    <3>1. \A k \in DOMAIN images : k = <<k[1], k[2], k[3]>>
      BY <1>1 DEF TypeOK, Keys
    <3> QED BY <3>1 DEF Detected, KeyOf
  <2>4. AsDetected(Range(obs), pruned.run)'
    BY <2>1, <2>2, <2>3 DEF AsDetected
  <2>5. ASSUME NEW i \in DOMAIN file'.cams
        PROVE  AsDetected(Range(file.cams[i]), pruned.file)'
    BY <2>1, <2>5 DEF PrunedInv, AsDetected
  <2> QED BY <2>1, <2>4, <2>5 DEF PrunedInv
<1>5. CASE LoadDetectedKeypoints
  <2>1. /\ run'.at = "extracted" /\ obs' = Loaded /\ UNCHANGED <<images, file>>
        /\ pruned'.run = pruned.file /\ pruned'.file = pruned.file
    BY <1>1, <1>5 DEF LoadDetectedKeypoints, GoesTo, TypeOK
  <2>2. Range(obs') \subseteq UNION {Range(file.cams[i]) : i \in DOMAIN file.cams}
    BY <1>1, <2>1, LoadedIs DEF InFile
  <2>3. AsDetected(Range(obs), pruned.run)'
    <3>1. ASSUME NEW o \in Range(obs')
          PROVE  /\ KeyOf(o) \in DOMAIN images
                 /\ IF KeyOf(o) \in pruned.file THEN o.pts < images[KeyOf(o)]
                    ELSE o.pts = images[KeyOf(o)]
      <4>1. PICK i \in DOMAIN file.cams : o \in Range(file.cams[i])
        BY <2>2
      <4> QED BY <4>1 DEF PrunedInv, AsDetected
    <3> QED BY <2>1, <3>1 DEF AsDetected
  <2>4. ASSUME NEW i \in DOMAIN file'.cams
        PROVE  AsDetected(Range(file.cams[i]), pruned.file)'
    BY <2>1, <2>4 DEF PrunedInv, AsDetected
  <2> QED BY <2>1, <2>3, <2>4 DEF PrunedInv
<1>6. CASE LoadFails
  BY <1>2, <1>6 DEF LoadFails
<1>7. CASE InitializeCalibration
  <2>1. CASE GoesTo("initialized") /\ UNCHANGED <<obs, pruned>>
    <3>1. run'.at = "initialized" /\ UNCHANGED <<images, file>>
      BY <1>1, <1>7, <2>1 DEF InitializeCalibration, GoesTo, TypeOK
    <3> QED BY <2>1, <3>1, PrunedStays
  <2> QED BY <1>2, <1>7, <2>1 DEF InitializeCalibration
<1>8. CASE EstimatePose
  <2>1. CASE Ends
    BY <1>2, <1>8, <2>1 DEF EstimatePose
  <2> QED BY <1>8, <2>1, PrunedEstimate DEF EstimatePose
<1>9. CASE Calibrate
  <2>1. CASE /\ GoesTo("saving")
             /\ file' = [is |-> "cut", cams |-> <<>>, torn |-> FALSE]
             /\ pruned' = [pruned EXCEPT !.file = pruned.run] /\ UNCHANGED obs
    <3>1. /\ run'.at = "saving" /\ images' = images /\ DOMAIN file'.cams = {}
          /\ pruned'.run = pruned.run /\ pruned'.file = pruned.run
      BY <1>1, <1>9, <2>1 DEF Calibrate, GoesTo, TypeOK
    <3>2. AsDetected(Range(obs), pruned.run)'
      BY <2>1, <3>1 DEF PrunedInv, AsDetected
    <3> QED BY <3>1, <3>2 DEF PrunedInv
  <2> QED BY <1>2, <1>9, <2>1 DEF Calibrate
<1>10. CASE SaveCamera
  <2> DEFINE n == Len(file.cams)
  <2>1. /\ run.at = "saving" /\ n < run.cams /\ file' = [file EXCEPT !.cams = Append(@, Sorted(n))]
        /\ UNCHANGED <<images, run, obs, pruned>> /\ pruned.file = pruned.run
    BY <1>10 DEF SaveCamera, PrunedInv
  <2>2. n \in Nat /\ DOMAIN file.cams = 1 .. n /\ file.cams \in Seq(Seq(Observations))
    BY <1>1, FileCams DEF FileType, TypeOK
  <2>3. n \in Cameras
    BY <1>1, <2>1, <2>2, CacheAssumption DEF Cameras, TypeOK
  <2>4. /\ file'.cams = Append(file.cams, Sorted(n))
        /\ Range(Sorted(n)) \subseteq Range(obs)
    BY <1>1, <2>1, <2>3, SortedIs DEF TypeOK
  <2> HIDE DEF n
  <2>5. ASSUME NEW i \in DOMAIN file'.cams
        PROVE  AsDetected(Range(file.cams[i]), pruned.file)'
    <3>1. CASE i \in DOMAIN file.cams
      <4>1. file'.cams[i] = file.cams[i]
        BY <2>2, <2>4, <3>1
      <4> QED BY <2>1, <3>1, <4>1 DEF PrunedInv, AsDetected
    <3>2. CASE i \notin DOMAIN file.cams
      <4>1. file'.cams[i] = Sorted(n)
        BY <2>2, <2>4, <2>5, <3>2 DEF n
      <4> QED BY <2>1, <2>4, <4>1 DEF PrunedInv, AsDetected
    <3> QED BY <3>1, <3>2
  <2>6. AsDetected(Range(obs), pruned.run)'
    BY <2>1 DEF PrunedInv, AsDetected
  <2> QED BY <2>1, <2>5, <2>6 DEF PrunedInv
<1>11. CASE Release
  <2>1. /\ Ends /\ images' = images /\ file'.cams = file.cams
    BY <1>1, <1>11 DEF Release, TypeOK
  <2> QED BY <2>1, PrunedEnds
<1>12. CASE Kill
  <2>1. Ends /\ images' = images
    BY <1>12 DEF Kill
  <2>2. CASE UNCHANGED file
    BY <1>2, <2>1, <2>2
  <2>3. CASE ~UNCHANGED file
    <3>1. PICK n \in 0 .. Len(file.cams), torn \in BOOLEAN :
             file' = [file EXCEPT !.cams = SubSeq(@, 1, n), !.torn = torn]
      BY <1>12, <2>3 DEF Kill
    <3>2. file.cams \in Seq(Seq(Observations)) /\ Len(file.cams) \in Nat
          /\ DOMAIN file.cams = 1 .. Len(file.cams)
      BY <1>1, FileCams DEF FileType, TypeOK
    <3>3. file'.cams = SubSeq(file.cams, 1, n)
      <4>1. file \in [is : {"none", "cut", "whole"}, cams : Seq(Seq(Observations)), torn : BOOLEAN]
        BY <1>1 DEF TypeOK
      <4> QED BY <3>1, <4>1
    <3>4. \A i \in DOMAIN file'.cams : i \in DOMAIN file.cams /\ file'.cams[i] = file.cams[i]
      <4>1. n \in Nat /\ n <= Len(file.cams) /\ \A i \in 1 .. n : i \in 1 .. Len(file.cams)
        BY <3>2
      <4>2. file'.cams = [i \in 1 .. n |-> file.cams[i]]
        BY <3>2, <3>3, <4>1
      <4> QED BY <3>2, <4>1, <4>2
    <3> QED BY <2>1, <3>4, PrunedEnds
  <2> QED BY <2>2, <2>3
<1>13. CASE UNCHANGED vars
  <2>1. UNCHANGED <<images, file, run, obs, pruned>>
    BY <1>13 DEF vars
  <2> QED BY <2>1 DEF PrunedInv, AsDetected
<1> QED BY <1>3, <1>4, <1>5, <1>6, <1>7, <1>8, <1>9, <1>10, <1>11, <1>12, <1>13 DEF Next

-----------------------------------------------------------------------------
(* The theorems.                                                           *)

\* Over any runs, finished, failed or killed, of boardExtraction,
\* loadDetectedKeypoints and saveDetectedKeypoints the invariant holds.
THEOREM CacheInvariant == Spec => [](CacheInv /\ PrunedInv)
<1>1. Init => CacheInv /\ PrunedInv
  <2> SUFFICES ASSUME Init
               PROVE  CacheInv /\ PrunedInv
    OBVIOUS
  <2>1. /\ run.at = "off" /\ obs = <<>> /\ file.cams = <<>> /\ pruned.run = {}
    BY DEF Init, NoRun, NoFile
  <2>2. DOMAIN file.cams = {} /\ Range(obs) = {}
    BY <2>1 DEF Range
  <2>3. PrunedInv
    BY <2>1, <2>2 DEF PrunedInv, AsDetected
  <2> QED BY <2>3, CacheInit
<1>2. CacheInv /\ PrunedInv /\ [Next]_vars => (CacheInv /\ PrunedInv)'
  BY CacheNext, PrunedNext
<1> QED BY <1>1, <1>2, PTL DEF Spec

\* A run that loads a file that was written to its end (loadDetectedKeypoints)
\* starts from the observations its writer saved (saveDetectedKeypoints), as
\* far as it has the cameras: of a board whose outliers no run dropped before
\* (estimatePose) the points that were detected, of any other fewer.
THEOREM LoadsWhatWasSaved == Spec => []LoadedAsSaved
<1>1. CacheInv /\ PrunedInv => LoadedAsSaved
  <2> SUFFICES ASSUME CacheInv, PrunedInv, run.at = "extracted", run.from = "file", file.is = "whole"
               PROVE  /\ Range(obs) = {o \in last : o.cam < run.cams}
                      /\ Ordered(obs)
                      /\ AsDetected(Range(obs), pruned.file)
    BY DEF LoadedAsSaved, Ordered
  <2>1. Range(obs) = {o \in last : o.cam < run.cams} /\ Ordered(obs)
    BY DEF CacheInv, LoadedInv
  <2>2. AsDetected(Range(obs), pruned.file)
    BY DEF PrunedInv
  <2> QED BY <2>1, <2>2
<1> QED BY <1>1, CacheInvariant, PTL

\* Whatever runs came before, a file saveDetectedKeypoints wrote to its end has
\* a board of a camera in every frame it was detected in or in none, and a
\* camera without observations only if a run was given the camera parameters.
THEOREM FileStaysSound == Spec => []FileSound
<1>1. CacheInv => FileSound
  <2> SUFFICES ASSUME CacheInv
               PROVE  FileSound
    OBVIOUS
  <2>1. FileInv /\ TypeOK
    BY DEF CacheInv
  <2>2. EmptyNeedsParams
    BY <2>1 DEF FileInv, EmptyNeedsParams
  <2>3. ASSUME NEW i \in DOMAIN file.cams, NEW b \in 0 .. NbBoard - 1
        PROVE  LET held == {o.frame : o \in {p \in Range(file.cams[i]) : p.board = b}}
               IN  held = {} \/ held = SeenIn(i - 1, b)
    <3>1. {p \in Range(file.cams[i]) : p.board = b} =
          {p \in Range(file.cams[i]) : p.cam = i - 1 /\ p.board = b}
      BY <2>1 DEF FileInv
    <3>2. AllOrNone(Range(file.cams[i]), i - 1)
      BY <2>1 DEF FileInv
    <3> QED BY <3>1, <3>2 DEF AllOrNone
  <2>4. AllFramesOrNone
    BY <2>3 DEF AllFramesOrNone, SeenIn
  <2> QED BY <2>1, <2>2, <2>4 DEF FileSound
<1> QED BY <1>1, CacheInvariant, PTL

\* A run that detects its boards itself never poses one (ransacP3P) with fewer
\* points than the four it takes.
THEOREM DetectionSufficesForPose == Spec => DetectionSuffices
<1>1. ASSUME CacheInv, [Next]_vars
      PROVE  [run.from = "images" => wild' # "pose" \/ wild = "pose"]_wild
  <2> SUFFICES ASSUME wild' # wild, run.from = "images", wild' = "pose"
               PROVE  FALSE
    OBVIOUS
  <2>1. CASE EstimatePose
    <3>1. PICK n \in {obs[i].pts : i \in DOMAIN obs} : n < MinPose
      BY <2>1 DEF EstimatePose, Wild
    <3>2. PICK i \in DOMAIN obs : n = obs[i].pts
      BY <3>1
    <3>3. obs[i].pts > MinPose /\ obs[i].pts \in Nat /\ MinPose \in Nat
      <4>1. obs[i] \in Observations
        BY <1>1, <3>2, ObsProperties DEF CacheInv
      <4>2. obs[i].pts > MinPose
        BY <1>1, <2>1, <3>2 DEF EstimatePose, CacheInv, ObsInv
      <4> QED BY <4>1, <4>2, CacheAssumption DEF Observations
    <3> QED BY <3>1, <3>2, <3>3
  <2>2. CASE Calibrate
    BY <2>2 DEF Calibrate, Wild
  <2>3. CASE ~EstimatePose /\ ~Calibrate
    BY <1>1, <2>3 DEF Next, vars, StartRun, DetectBoards, LoadDetectedKeypoints, LoadFails,
       InitializeCalibration, SaveCamera, Release, Kill
  <2> QED BY <2>1, <2>2, <2>3
<1> QED BY <1>1, CacheInvariant, PTL DEF Spec, DetectionSuffices
=============================================================================
