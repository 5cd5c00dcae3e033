--------------------------- MODULE FrameSyncProofs ---------------------------
(***************************************************************************)
(* Proofs about the syncer, for any streams, rates, timestamps and         *)
(* capacities, and a stop() at any time: the sets of frames are tight, no  *)
(* frame is handed out twice or after a later one of its stream, and none  *)
(* is held past the cutout; of streams of one rate the earliest go first.  *)
(***************************************************************************)
EXTENDS FrameSync, SequenceTheorems, WellFoundedInduction, TLAPS

-----------------------------------------------------------------------------
(* The inductive invariant.                                                *)

\* The thread dispatches a frame; it has not queued it yet.
Dispatching(s) == thread[s] \in {"find", "enqueue", "sync"}
Bringing(s) == thread[s] \in {"find", "enqueue"}

\* One thread at a time dispatches, under the syncer's mutex.
MutexHeld == \A s \in Streams : Dispatching(s) <=> mutex = s

\* Queues are stopped by stop() only, and a stream that is given up has no
\* frame waiting.
QueuesOpen ==
    /\ active => stops = 0 /\ \A s \in Streams : queues[s].accepting
    /\ \A s \in Streams \ known : queues[s].items = <<>>

\* Of each stream, what waits is in order.
QueuesInOrder ==
    \A s \in Streams : \A i \in DOMAIN queues[s].items :
        /\ queues[s].items[i].stream = s
        /\ \A j \in DOMAIN queues[s].items : i < j => queues[s].items[i].ts < queues[s].items[j].ts

\* A set comes before another in each stream that they share.
Earlier(m, n) == \A f \in m, g \in n : f.stream = g.stream => f.ts < g.ts

MatchesInOrder ==
    \A i \in DOMAIN matches.items :
        /\ Earlier(ready, matches.items[i])
        /\ \A j \in DOMAIN matches.items : i < j => Earlier(matches.items[i], matches.items[j])

\* What was handed out comes before what is published, and that before what waits.
StagesInOrder ==
    /\ \A m \in Published : \A f \in m :
         /\ shown[f.stream] < f.ts
         /\ \A i \in DOMAIN queues[f.stream].items : f.ts < queues[f.stream].items[i].ts
    /\ \A s \in Streams : \A i \in DOMAIN queues[s].items : shown[s] < queues[s].items[i].ts

\* The timestamps of stream s in the syncer, and the one that left it last.
Stamps(s) ==
    {queues[s].items[i].ts : i \in DOMAIN queues[s].items}
        \cup {f.ts : f \in {g \in UNION Published : g.stream = s}}
        \cup ({shown[s]} \ {-1})

\* None of them is later than the last frame that was sent, and the frame that
\* is brought is a new one.
NewestLast ==
    \A s \in Streams :
        /\ Bringing(s) => source[s].sent > 0 /\ lastArrived = source[s].ts
        /\ \A ts \in Stamps(s) : /\ source[s].sent > 0 /\ ts <= source[s].ts
                                 /\ Bringing(s) => ts < source[s].ts

FrameSyncInv ==
    /\ TypeOK
    /\ MutexHeld /\ QueuesOpen
    /\ QueuesInOrder /\ MatchesInOrder /\ StagesInOrder /\ NewestLast
    /\ SetsAreTight /\ HeldBriefly

-----------------------------------------------------------------------------
(* Queues.                                                                 *)

\* The least number of a set, in place of an induction.
LEMMA LeastNumber ==
    ASSUME NEW S \in SUBSET Nat, S # {}
    PROVE  \E n \in S : \A m \in S : n <= m
<1>1. PICK n \in S : \A m \in S : ~ (<<m, n>> \in OpToRel(<, Nat))
  BY NatLessThanWellFounded, WFMin
<1>2. \A m \in S : ~(m < n)
  BY <1>1 DEF OpToRel
<1> QED BY <1>2

\* r is q, which may have lost its front, and x.
Extends(r, q, x) ==
    /\ \A i \in DOMAIN r : r[i] = x \/ \E k \in DOMAIN q : r[i] = q[k]
    /\ \A i, j \in DOMAIN r : i < j =>
         \E k \in DOMAIN q : /\ r[i] = q[k]
                             /\ r[j] = x \/ \E l \in DOMAIN q : k < l /\ r[j] = q[l]

\* r is q without its front.
Drops(r, q) ==
    /\ \A i \in DOMAIN r : \E k \in DOMAIN q : 1 < k /\ r[i] = q[k]
    /\ \A i, j \in DOMAIN r : i < j =>
         \E k, l \in DOMAIN q : k < l /\ r[i] = q[k] /\ r[j] = q[l]

\* What enqueue makes of a queue of frames in order.
LEMMA EnqueuedIs ==
    ASSUME NEW S, NEW q \in [items : Seq(S), accepting : BOOLEAN], NEW cap \in Nat \ {0},
           Len(q.items) <= cap, NEW x \in S, q.accepting
    PROVE  /\ Enqueued(q, cap, x) \in [items : Seq(S), accepting : BOOLEAN]
           /\ Enqueued(q, cap, x).accepting
           /\ Len(Enqueued(q, cap, x).items) <= cap
           /\ Len(Enqueued(q, cap, x).items) >= Len(q.items)
           /\ Extends(Enqueued(q, cap, x).items, q.items, x)
<1> DEFINE s == q.items
           n == Len(s)
           d == IF n < cap THEN 0 ELSE 1
           r == IF n < cap THEN Append(s, x) ELSE Append(Tail(s), x)
<1>1. s \in Seq(S) /\ n \in Nat /\ DOMAIN s = 1 .. n /\ d \in {0, 1} /\ n <= cap
  BY LenProperties
<1>2. Enqueued(q, cap, x) = [q EXCEPT !.items = r]
  BY DEF Enqueued, HasRoom
<1>3. r \in Seq(S) /\ Len(r) = n + 1 - d /\ r[n + 1 - d] = x
      /\ \A i \in 1 .. n - d : r[i] = s[i + d]
  <2>1. CASE n < cap
    <3>1. /\ Append(s, x) \in Seq(S) /\ Len(Append(s, x)) = n + 1 /\ Append(s, x)[n + 1] = x
          /\ \A i \in 1 .. n : Append(s, x)[i] = s[i]
      BY <1>1, AppendProperties
    <3>2. r = Append(s, x) /\ d = 0
      BY <2>1
    <3> HIDE DEF r, d
    <3> QED BY <1>1, <3>1, <3>2
  <2>2. CASE ~(n < cap)
    <3>1. s # <<>> /\ n = cap
      BY <1>1, <2>2
    <3>2. Tail(s) \in Seq(S) /\ Len(Tail(s)) = n - 1 /\ \A i \in 1 .. n - 1 : Tail(s)[i] = s[i + 1]
      BY <1>1, <3>1, HeadTailProperties
    <3>3. /\ Append(Tail(s), x) \in Seq(S) /\ Len(Append(Tail(s), x)) = n
          /\ Append(Tail(s), x)[n] = x
          /\ \A i \in 1 .. n - 1 : Append(Tail(s), x)[i] = s[i + 1]
      <4> DEFINE t == Tail(s)
      <4>1. t \in Seq(S) /\ Len(t) = n - 1 /\ \A i \in 1 .. n - 1 : t[i] = s[i + 1]
        BY <3>2
      <4> HIDE DEF t
      <4>2. /\ Append(t, x) \in Seq(S) /\ Len(Append(t, x)) = n - 1 + 1
            /\ Append(t, x)[n - 1 + 1] = x /\ \A i \in 1 .. n - 1 : Append(t, x)[i] = t[i]
        BY <4>1, AppendProperties
      <4>3. n - 1 + 1 = n
        BY <1>1
      <4> QED BY <4>1, <4>2, <4>3 DEF t
    <3>4. r = Append(Tail(s), x) /\ d = 1 /\ n + 1 - d = n /\ n - d = n - 1
      BY <1>1, <2>2
    <3> HIDE DEF r, d
    <3> QED BY <3>3, <3>4
  <2> QED BY <2>1, <2>2
<1> HIDE DEF r
<1>4. /\ Enqueued(q, cap, x).items = r /\ Enqueued(q, cap, x).accepting
      /\ Enqueued(q, cap, x) \in [items : Seq(S), accepting : BOOLEAN]
  BY <1>2, <1>3
<1>5. DOMAIN r = 1 .. n + 1 - d /\ Len(r) <= cap /\ Len(r) >= n
  BY <1>1, <1>3, LenProperties
<1> HIDE DEF d, s, n
<1>6. \A i \in DOMAIN r : \/ i = n + 1 - d /\ r[i] = x
                          \/ i \in 1 .. n - d /\ i + d \in DOMAIN s /\ r[i] = s[i + d]
  BY <1>1, <1>3, <1>5
<1>7. Extends(r, s, x)
  <2>1. ASSUME NEW i \in DOMAIN r, NEW j \in DOMAIN r, i < j
        PROVE  \E k \in DOMAIN s : /\ r[i] = s[k]
                                   /\ r[j] = x \/ \E l \in DOMAIN s : k < l /\ r[j] = s[l]
    <3>1. i + d \in DOMAIN s /\ r[i] = s[i + d]
      BY <1>1, <1>5, <1>6, <2>1
    <3>2. r[j] = x \/ (j + d \in DOMAIN s /\ i + d < j + d /\ r[j] = s[j + d])
      BY <1>1, <1>5, <1>6, <2>1
    <3> QED BY <3>1, <3>2
  <2> QED BY <1>6, <2>1 DEF Extends
<1> QED BY <1>4, <1>5, <1>7 DEF s, n

\* What dequeue makes of it.
LEMMA DequeuedIs ==
    ASSUME NEW S, NEW q \in [items : Seq(S), accepting : BOOLEAN], q.items # <<>>
    PROVE  /\ Dequeued(q) \in [items : Seq(S), accepting : BOOLEAN]
           /\ Dequeued(q).accepting = q.accepting
           /\ Len(Dequeued(q).items) < Len(q.items)
           /\ Head(q.items) = q.items[1] /\ 1 \in DOMAIN q.items /\ q.items[1] \in S
           /\ Drops(Dequeued(q).items, q.items)
<1> DEFINE s == q.items
           n == Len(s)
           r == Tail(s)
<1>1. s \in Seq(S) /\ n \in Nat /\ DOMAIN s = 1 .. n
  BY LenProperties
<1>2. /\ r \in Seq(S) /\ Len(r) = n - 1 /\ \A i \in 1 .. n - 1 : r[i] = s[i + 1]
      /\ Head(s) = s[1] /\ n # 0 /\ Head(s) \in S
  BY <1>1, HeadTailProperties, EmptySeq
<1>3. DOMAIN r = 1 .. n - 1
  BY <1>2, LenProperties
<1>4. /\ Dequeued(q).items = r /\ Dequeued(q).accepting = q.accepting
      /\ Dequeued(q) \in [items : Seq(S), accepting : BOOLEAN]
  BY <1>2 DEF Dequeued
<1> HIDE DEF r, s, n
<1>5. \A i \in DOMAIN r : i + 1 \in DOMAIN s /\ 1 < i + 1 /\ r[i] = s[i + 1]
  BY <1>1, <1>2, <1>3
<1>6. Drops(r, s)
  <2>1. ASSUME NEW i \in DOMAIN r, NEW j \in DOMAIN r, i < j
        PROVE  \E k, l \in DOMAIN s : k < l /\ r[i] = s[k] /\ r[j] = s[l]
    <3>1. i + 1 < j + 1
      BY <1>1, <1>3, <2>1
    <3> QED BY <1>5, <3>1
  <2> QED BY <1>5, <2>1 DEF Drops
<1>7. 1 \in DOMAIN s
  BY <1>1, <1>2
<1> QED BY <1>1, <1>2, <1>4, <1>6, <1>7 DEF s, n

-----------------------------------------------------------------------------
(* The loop over the first frames of the queues.                           *)

Found == [by : [stream : 0 .. NbStream, ts : Nat], synced : SUBSET Streams, rest : BOOLEAN]

FrontsTyped == \A s \in Arrived : s \in Streams /\ First(s) \in Frames /\ First(s).stream = s

\* What is found after n streams.
FoundAfter(found, n) ==
    /\ found \in Found
    /\ found.synced \subseteq {s \in Arrived : s <= n}
    /\ found.synced = {} => {s \in Arrived : s <= n} = {} /\ ~found.rest
    /\ found.synced # {} =>
         \E b \in found.synced :
            /\ found.by = First(b)
            /\ \A t \in found.synced : t = b \/ Equivalent(First(b), First(t))
    /\ ~found.rest => {s \in Arrived : s <= n} \subseteq found.synced
    /\ \A t \in {s \in Arrived : s <= n} \ found.synced : MayPass(found.by, First(t))

\* Looking at one more stream yields a stream and sets of streams.
LEMMA LookTyped ==
    ASSUME FrontsTyped, NEW found \in Found, NEW s \in Streams
    PROVE  Look(found, s) \in Found
<1>1. CASE s \notin Arrived
  BY <1>1 DEF Look
<1>2. CASE s \in Arrived
  <2> DEFINE f == First(s)
  <2>1. f \in [stream : 0 .. NbStream, ts : Nat] /\ {s} \in SUBSET Streams
        /\ found.synced \cup {s} \in SUBSET Streams
    BY <1>2, FrameSyncAssumption DEF FrontsTyped, Frames, Streams, Found
  <2>2. \/ Look(found, s) = [by |-> f, synced |-> {s}, rest |-> FALSE]
        \/ Look(found, s) = [found EXCEPT !.synced = @ \cup {s}]
        \/ Look(found, s) = [by |-> f, synced |-> {s}, rest |-> TRUE]
        \/ Look(found, s) = [found EXCEPT !.rest = TRUE]
    BY <1>2 DEF Look
  <2> HIDE DEF f
  <2>3. /\ [by |-> f, synced |-> {s}, rest |-> FALSE] \in Found
        /\ [by |-> f, synced |-> {s}, rest |-> TRUE] \in Found
    BY <2>1 DEF Found
  <2>4. [found EXCEPT !.synced = @ \cup {s}] \in Found
    BY <2>1 DEF Found
  <2>5. [found EXCEPT !.rest = TRUE] \in Found
    BY DEF Found
  <2> QED BY <2>2, <2>3, <2>4, <2>5
<1> QED BY <1>1, <1>2

\* Times and gaps: what is in sync with a time, and not after an earlier one that
\* is not in sync with it, has the largest gap, and is in sync with the earlier too.
LEMMA CloseIsSlower ==
    ASSUME NEW a \in Nat, NEW b \in Nat, NEW c \in Nat,
           NEW ga \in Nat, NEW gb \in Nat, NEW gc \in Nat,
           NEW ab \in Nat, ga <= ab, gb <= ab, ab = ga \/ ab = gb,
           NEW ac \in Nat, ga <= ac, gc <= ac, ac = ga \/ ac = gc,
           b < a, c <= b, ~Close(a, b, ab), Close(a, c, ac)
    PROVE  gb < gc /\ Close(b, c, gc)
<1>1. 2 * (a - b) >= ab /\ 2 * (a - c) < ac
  BY DEF Close, Distance
<1>2. ac = gc /\ gb < gc /\ 2 * (b - c) < gc
  BY <1>1
<1> QED BY <1>2 DEF Close, Distance

\* How the frames in sync with a frame stay behind an earlier one that is not.
LEMMA ReplacedIsPassed ==
    ASSUME NEW f \in Frames, NEW g \in Frames, NEW h \in Frames,
           g.ts < f.ts, ~Equivalent(f, g), f = h \/ Equivalent(f, h)
    PROVE  MayPass(g, h)
<1> USE FrameSyncAssumption
<1>1. /\ f.ts \in Nat /\ g.ts \in Nat /\ h.ts \in Nat
      /\ f.stream \in Streams /\ g.stream \in Streams /\ h.stream \in Streams
  BY DEF Frames
<1>2. CASE g.ts < h.ts
  BY <1>2 DEF MayPass
<1>3. CASE ~(g.ts < h.ts)
  <2> DEFINE ga == Gap[f.stream]
             gb == Gap[g.stream]
             gc == Gap[h.stream]
             ab == Slower(f.stream, g.stream)
             ac == Slower(f.stream, h.stream)
  <2>1. ga \in Nat /\ gb \in Nat /\ gc \in Nat
    BY <1>1 DEF Streams
  <2>2. ab \in Nat /\ (ab = ga \/ ab = gb) /\ ga <= ab /\ gb <= ab
    BY <2>1 DEF Slower
  <2>3. ac \in Nat /\ (ac = ga \/ ac = gc) /\ ga <= ac /\ gc <= ac
    BY <2>1 DEF Slower
  <2>4. h.ts <= g.ts /\ f # h
    BY <1>1, <1>3
  <2>5. ~Close(f.ts, g.ts, ab) /\ Close(f.ts, h.ts, ac)
    BY <2>4 DEF Equivalent
  <2>6. gb < gc => Slower(g.stream, h.stream) = gc
    BY DEF Slower
  <2> HIDE DEF ga, gb, gc, ab, ac
  <2>7. gb < gc /\ Close(g.ts, h.ts, gc)
    <3> DEFINE a == f.ts
               b == g.ts
               c == h.ts
    <3>1. a \in Nat /\ b \in Nat /\ c \in Nat /\ b < a /\ c <= b
      BY <1>1, <2>4
    <3>2. ~Close(a, b, ab) /\ Close(a, c, ac)
      BY <2>5
    <3> HIDE DEF a, b, c
    <3>3. gb < gc /\ Close(b, c, gc)
      BY <2>1, <2>2, <2>3, <3>1, <3>2, CloseIsSlower
    <3> QED BY <3>3 DEF b, c
  <2> QED BY <2>6, <2>7 DEF MayPass, Equivalent, gb, gc
<1> QED BY <1>2, <1>3

\* One more stream looked at gives what the loop finds of one more stream.
LEMMA LookFinds ==
    ASSUME FrontsTyped, NEW n \in 1 .. NbStream, NEW found, FoundAfter(found, n - 1)
    PROVE  FoundAfter(Look(found, n), n)
<1> USE FrameSyncAssumption
<1> DEFINE seen == {s \in Arrived : s <= n - 1}
           next == {s \in Arrived : s <= n}
           f == First(n)
           new == Look(found, n)
<1>1. found \in Found /\ n \in Streams /\ \A s \in Arrived : s \in Nat
  BY DEF FoundAfter, FrontsTyped, Streams
<1>2. new \in Found
  BY <1>1, LookTyped
<1>3. CASE n \notin Arrived
  <2>1. next = seen
    BY <1>1, <1>3
  <2>2. new = found
    BY <1>3 DEF Look
  <2> QED BY <2>1, <2>2 DEF FoundAfter
<1>4. CASE n \in Arrived
  <2>1. next = seen \cup {n} /\ n \notin seen
    <3>1. n \in Nat /\ ~(n <= n - 1) /\ \A s \in Nat : s <= n <=> (s <= n - 1 \/ s = n)
      OBVIOUS
    <3> QED BY <1>1, <1>4, <3>1
  <2>2. f \in Frames /\ f.stream = n /\ f.ts \in Nat
    BY <1>4 DEF FrontsTyped, Frames
  <2>3. /\ found.synced \subseteq seen
        /\ found.synced = {} => seen = {} /\ ~found.rest
        /\ ~found.rest => seen \subseteq found.synced
        /\ \A t \in seen \ found.synced : MayPass(found.by, First(t))
        /\ found.by.ts \in Nat
    BY <1>1 DEF FoundAfter, Found
  <2>4. \A t \in seen : First(t).ts \in Nat
    BY DEF FrontsTyped, Frames
  <2> HIDE DEF seen, next
  <2>5. CASE found.synced = {}
    <3>1. new = [by |-> f, synced |-> {n}, rest |-> FALSE]
      BY <1>4, <2>5 DEF Look
    <3>2. new.by = First(n) /\ new.synced = {n} /\ ~new.rest /\ next = {n}
      BY <2>1, <2>3, <2>5, <3>1
    <3> HIDE DEF new
    <3>3. n \in new.synced /\ \A t \in new.synced : t = n \/ Equivalent(First(n), First(t))
      BY <3>2
    <3>4. new.synced \subseteq next /\ next \subseteq new.synced /\ new.synced # {}
      BY <3>2
    <3>5. next \ new.synced = {} /\ new.by = First(n)
      BY <3>2
    <3>6. FoundAfter(new, n)
      BY <1>2, <3>3, <3>4, <3>5 DEF FoundAfter, next
    <3> QED BY <3>6 DEF new
  <2>6. ASSUME found.synced # {}
        PROVE  FoundAfter(new, n)
    <3>1. PICK b \in found.synced :
            /\ found.by = First(b)
            /\ \A t \in found.synced : t = b \/ Equivalent(First(b), First(t))
      BY <2>6 DEF FoundAfter
    <3>2. CASE Equivalent(found.by, f)
      <4>1. new = [found EXCEPT !.synced = @ \cup {n}]
        BY <1>4, <2>6, <3>2 DEF Look
      <4>2. new.by = First(b) /\ new.synced = found.synced \cup {n} /\ new.rest = found.rest
            /\ found.by = First(b)
        BY <1>1, <3>1, <4>1 DEF Found
      <4> HIDE DEF new
      <4>3. \A t \in new.synced : t = b \/ Equivalent(First(b), First(t))
        BY <3>1, <3>2, <4>2
      <4>4. new.synced \subseteq next /\ new.synced # {}
            /\ (~new.rest => next \subseteq new.synced)
        BY <2>1, <2>3, <4>2
      <4>5. \A t \in next \ new.synced : MayPass(new.by, First(t))
        BY <2>1, <2>3, <4>2
      <4>6. b \in new.synced
        BY <4>2
      <4> QED BY <1>2, <4>2, <4>3, <4>4, <4>5, <4>6 DEF FoundAfter, next
    <3>3. CASE ~Equivalent(found.by, f) /\ f.ts < found.by.ts
      <4>1. new = [by |-> f, synced |-> {n}, rest |-> TRUE]
        BY <1>4, <2>6, <3>3 DEF Look
      <4>2. new.by = First(n) /\ new.synced = {n} /\ new.rest
        BY <4>1
      <4> HIDE DEF new
      <4>3. ASSUME NEW t \in next \ new.synced
            PROVE  MayPass(new.by, First(t))
        <5>1. /\ t \in seen /\ First(t) \in Frames /\ First(t).ts \in Nat
              /\ found.by \in Frames /\ new.by = f
          <6>1. t \in seen
            BY <2>1, <4>2
          <6>2. b \in Arrived /\ t \in Arrived
            BY <2>3, <3>1, <6>1 DEF seen
          <6> QED BY <2>4, <3>1, <4>2, <6>1, <6>2 DEF FrontsTyped
        <5>2. CASE t \notin found.synced /\ found.by.ts < First(t).ts
          <6>1. f.ts < First(t).ts
            BY <2>2, <2>3, <3>3, <5>1, <5>2
          <6> QED BY <5>1, <6>1 DEF MayPass
        <5>3. CASE found.by = First(t) \/ Equivalent(found.by, First(t))
          BY <2>2, <3>3, <5>1, <5>3, ReplacedIsPassed
        <5>4. t \notin found.synced => MayPass(found.by, First(t))
          BY <2>3, <5>1
        <5>5. t \in found.synced => found.by = First(t) \/ Equivalent(found.by, First(t))
          BY <3>1
        <5> QED BY <5>2, <5>3, <5>4, <5>5 DEF MayPass
      <4>4. new.synced \subseteq next /\ new.synced # {}
        BY <2>1, <4>2
      <4>5. \A t \in new.synced : t = n \/ Equivalent(First(n), First(t))
        BY <4>2
      <4> QED BY <1>2, <4>2, <4>3, <4>4, <4>5 DEF FoundAfter, next
    <3>4. CASE ~Equivalent(found.by, f) /\ ~(f.ts < found.by.ts)
      <4>1. new = [found EXCEPT !.rest = TRUE]
        BY <1>4, <2>6, <3>4 DEF Look
      <4>2. new.by = First(b) /\ new.synced = found.synced /\ new.rest /\ found.by = First(b)
        BY <1>1, <3>1, <4>1 DEF Found
      <4> HIDE DEF new
      <4>3. found.by.ts # f.ts
        <5>1. /\ b \in Streams /\ First(b).stream = b
          BY <1>1, <2>3, <3>1 DEF FrontsTyped, Found, seen
        <5>2. Slower(b, n) \in Nat \ {0}
          BY <1>1, <5>1 DEF Slower, Streams
        <5>3. ~Close(found.by.ts, f.ts, Slower(b, n))
          BY <2>2, <3>4, <4>2, <5>1 DEF Equivalent
        <5> QED BY <2>2, <2>3, <5>2, <5>3 DEF Close, Distance
      <4>4. found.by.ts < f.ts
        BY <2>2, <2>3, <3>4, <4>3
      <4>5. ASSUME NEW t \in next \ new.synced
            PROVE  MayPass(new.by, First(t))
        <5>1. CASE t = n
          BY <4>2, <4>4, <5>1 DEF MayPass
        <5>2. CASE t # n
          BY <2>1, <2>3, <4>2, <5>2
        <5> QED BY <5>1, <5>2
      <4>6. new.synced \subseteq next /\ new.synced # {}
        BY <2>1, <2>3, <2>6, <4>2
      <4>7. b \in new.synced /\ \A t \in new.synced : t = b \/ Equivalent(First(b), First(t))
        BY <3>1, <4>2
      <4> QED BY <1>2, <4>2, <4>5, <4>6, <4>7 DEF FoundAfter, next
    <3> QED BY <3>2, <3>3, <3>4
  <2> QED BY <2>5, <2>6
<1> QED BY <1>3, <1>4

\* Look, stream after stream.
Looks(n) ==
    {F \in [0 .. n -> Found] : F[0] = NoneFound /\ \A i \in 1 .. n : F[i] = Look(F[i - 1], i)}

\* The loop over the streams is its own unfolding.
LEMMA LooksExist ==
    ASSUME FrontsTyped
    PROVE  Looks(NbStream) # {}
<1> USE FrameSyncAssumption
<1> DEFINE bad == {m \in 0 .. NbStream : Looks(m) = {}}
<1>0. NbStream \in 0 .. NbStream
  OBVIOUS
<1> SUFFICES ASSUME bad # {}
             PROVE  FALSE
  BY <1>0
<1>1. PICK m \in bad : \A l \in bad : m <= l
  <2>1. bad \in SUBSET Nat
    OBVIOUS
  <2> HIDE DEF bad
  <2> QED BY <2>1, LeastNumber
<1>2. NoneFound \in Found
  BY DEF NoneFound, Found, Frame
<1>3. m # 0
  <2> DEFINE G == [i \in 0 .. 0 |-> NoneFound]
  <2>1. G \in [0 .. 0 -> Found] /\ G[0] = NoneFound /\ 1 .. 0 = {}
    BY <1>2
  <2> HIDE DEF G
  <2>2. G \in Looks(0)
    BY <2>1 DEF Looks
  <2> QED BY <1>1, <2>2
<1>4. m - 1 \in 0 .. NbStream /\ m - 1 \notin bad /\ m \in 1 .. NbStream
  <2>1. m \in 0 .. NbStream
    BY <1>1
  <2>2. m - 1 \in 0 .. NbStream /\ m \in 1 .. NbStream /\ ~(m <= m - 1)
    BY <1>3, <2>1
  <2> HIDE DEF bad
  <2> QED BY <1>1, <2>2
<1>5. PICK F : F \in Looks(m - 1)
  BY <1>4
<1>6. F \in [0 .. m - 1 -> Found] /\ F[0] = NoneFound /\ \A i \in 1 .. m - 1 : F[i] = Look(F[i - 1], i)
  BY <1>5 DEF Looks
<1> DEFINE G == [i \in 0 .. m |-> IF i = m THEN Look(F[m - 1], m) ELSE F[i]]
<1>7. Look(F[m - 1], m) \in Found
  <2>1. F[m - 1] \in Found /\ m \in Streams
    BY <1>4, <1>6 DEF Streams
  <2> QED BY <2>1, LookTyped
<1>8. G \in [0 .. m -> Found] /\ G[0] = NoneFound
  BY <1>4, <1>6, <1>7
<1>9. ASSUME NEW i \in 1 .. m
      PROVE  G[i] = Look(G[i - 1], i)
  <2>1. i - 1 \in 0 .. m - 1 /\ i \in 0 .. m /\ G[i - 1] = F[i - 1]
    BY <1>4
  <2>2. CASE i = m
    BY <2>1, <2>2
  <2>3. CASE i # m
    <3>1. i \in 1 .. m - 1 /\ G[i] = F[i]
      BY <1>4, <2>3
    <3> HIDE DEF G
    <3> QED BY <1>6, <2>1, <3>1
  <2> QED BY <2>2, <2>3
<1>10. G \in Looks(m)
  BY <1>8, <1>9 DEF Looks
<1> QED BY <1>1, <1>10

\* What the loop of sync() finds: a set that is tight, around the earliest.
LEMMA ScanFinds ==
    ASSUME FrontsTyped
    PROVE  FoundAfter(Scan, NbStream)
<1> USE FrameSyncAssumption
<1> DEFINE turn(F) == [s \in 0 .. NbStream |-> IF s = 0 THEN NoneFound ELSE Look(F[s - 1], s)]
           G == CHOOSE F : F = turn(F)
<1>1. Scan = G[NbStream]
  BY DEF Scan
<1>2. PICK F : F \in Looks(NbStream)
  BY LooksExist
<1>3. F = turn(F)
  <2>1. \A i \in 0 .. NbStream : i = 0 \/ i \in 1 .. NbStream
    OBVIOUS
  <2> QED BY <1>2, <2>1 DEF Looks
<1>4. G = turn(G)
  <2> HIDE DEF turn
  <2> QED BY <1>3
<1> HIDE DEF G
<1>5. \A s \in 0 .. NbStream : G[s] = IF s = 0 THEN NoneFound ELSE Look(G[s - 1], s)
  BY <1>4
<1> DEFINE bad == {i \in 0 .. NbStream : ~FoundAfter(G[i], i)}
<1>6. bad = {}
  <2> SUFFICES ASSUME bad # {}
               PROVE  FALSE
    OBVIOUS
  <2>0. bad \in SUBSET Nat
    OBVIOUS
  <2>1. PICK i \in bad : \A l \in bad : i <= l
    <3> HIDE DEF bad
    <3> QED BY <2>0, LeastNumber
  <2>2. i # 0
    <3>1. G[0] = NoneFound
      BY <1>5
    <3>2. NoneFound \in Found /\ NoneFound.synced = {} /\ ~NoneFound.rest
      BY DEF NoneFound, Found, Frame
    <3>3. {s \in Arrived : s <= 0} = {}
      BY DEF FrontsTyped, Streams
    <3>4. FoundAfter(NoneFound, 0)
      BY <3>2, <3>3 DEF FoundAfter
    <3> QED BY <2>1, <3>1, <3>4
  <2>3. i - 1 \in 0 .. NbStream /\ i \in 1 .. NbStream /\ i - 1 \notin bad /\ i \in 0 .. NbStream
    <3>1. i \in 0 .. NbStream
      BY <2>1
    <3>2. i - 1 \in 0 .. NbStream /\ i \in 1 .. NbStream /\ ~(i <= i - 1)
      BY <2>2, <3>1
    <3> HIDE DEF bad
    <3> QED BY <2>1, <3>1, <3>2
  <2>4. G[i] = Look(G[i - 1], i)
    BY <1>5, <2>2, <2>3
  <2>5. FoundAfter(G[i - 1], i - 1)
    BY <2>3
  <2>6. FoundAfter(G[i], i)
    BY <2>3, <2>4, <2>5, LookFinds
  <2> QED BY <2>1, <2>6
<1>7. NbStream \in 0 .. NbStream
  OBVIOUS
<1> QED BY <1>1, <1>6, <1>7

-----------------------------------------------------------------------------
(* What the steps share.                                                   *)

\* Types of a queue of frames, one by one.
LEMMA QueueTypes ==
    ASSUME TypeOK
    PROVE  /\ \A s \in Streams :
                /\ queues[s] \in [items : Seq(Frames), accepting : BOOLEAN]
                /\ queues[s].items \in Seq(Frames) /\ Len(queues[s].items) \in Nat
                /\ Len(queues[s].items) <= QUEUE_MAX_SIZE
                /\ DOMAIN queues[s].items = 1 .. Len(queues[s].items)
                /\ \A i \in DOMAIN queues[s].items : queues[s].items[i] \in Frames
                                                    /\ queues[s].items[i].ts \in Nat
           /\ matches \in [items : Seq(SUBSET Frames), accepting : BOOLEAN] /\ matches.accepting
           /\ matches.items \in Seq(SUBSET Frames) /\ Len(matches.items) \in Nat
           /\ DOMAIN matches.items = 1 .. Len(matches.items)
           /\ \A m \in Published : m \subseteq Frames
           /\ \A m \in Published : \A f \in m : f.stream \in Streams /\ f.ts \in Nat
<1>1. ASSUME NEW s \in Streams
      PROVE  /\ queues[s] \in [items : Seq(Frames), accepting : BOOLEAN]
             /\ queues[s].items \in Seq(Frames) /\ Len(queues[s].items) \in Nat
             /\ Len(queues[s].items) <= QUEUE_MAX_SIZE
             /\ DOMAIN queues[s].items = 1 .. Len(queues[s].items)
             /\ \A i \in DOMAIN queues[s].items : queues[s].items[i] \in Frames
                                                 /\ queues[s].items[i].ts \in Nat
  <2>1. queues[s] \in [items : Seq(Frames), accepting : BOOLEAN] /\ queues[s].items \in Seq(Frames)
        /\ Len(queues[s].items) <= QUEUE_MAX_SIZE
    BY DEF TypeOK
  <2> DEFINE q == queues[s].items
  <2>2. q \in Seq(Frames)
    BY <2>1
  <2> HIDE DEF q
  <2>3. Len(q) \in Nat /\ DOMAIN q = 1 .. Len(q) /\ \A i \in DOMAIN q : q[i] \in Frames
    BY <2>2, LenProperties
  <2>4. \A f \in Frames : f.ts \in Nat
    BY DEF Frames
  <2> QED BY <2>1, <2>3, <2>4 DEF q
<1>2. /\ matches \in [items : Seq(SUBSET Frames), accepting : BOOLEAN] /\ matches.accepting
      /\ matches.items \in Seq(SUBSET Frames)
  BY DEF TypeOK
<1> DEFINE q == matches.items
<1>3. Len(q) \in Nat /\ DOMAIN q = 1 .. Len(q) /\ \A i \in DOMAIN q : q[i] \subseteq Frames
  <2>1. q \in Seq(SUBSET Frames)
    BY <1>2
  <2> HIDE DEF q
  <2> QED BY <2>1, LenProperties
<1>4. \A m \in Published : m \subseteq Frames
  BY <1>3 DEF Published, TypeOK
<1>5. \A m \in Published : \A f \in m : f.stream \in Streams /\ f.ts \in Nat
  BY <1>4 DEF Frames
<1> QED BY <1>1, <1>2, <1>3, <1>4, <1>5

\* What waits at the front of the queues.
LEMMA FrontsAreTyped ==
    ASSUME TypeOK, QueuesInOrder, QueuesOpen
    PROVE  /\ FrontsTyped
           /\ \A s \in Arrived : /\ s \in Streams /\ 1 \in DOMAIN queues[s].items
                                 /\ First(s) = queues[s].items[1] /\ queues[s].items # <<>>
           /\ \A s \in Streams : queues[s].items # <<>> => s \in Arrived
<1>1. ASSUME NEW s \in Arrived
      PROVE  /\ s \in Streams /\ 1 \in DOMAIN queues[s].items
             /\ First(s) = queues[s].items[1] /\ queues[s].items # <<>>
  <2>1. s \in Streams /\ queues[s].items # <<>>
    BY DEF Arrived, TypeOK
  <2>2. queues[s] \in [items : Seq(Frames), accepting : BOOLEAN]
    BY <2>1, QueueTypes
  <2> QED BY <2>1, <2>2, DequeuedIs DEF First
<1>2. FrontsTyped
  <2> SUFFICES ASSUME NEW s \in Arrived
               PROVE  s \in Streams /\ First(s) \in Frames /\ First(s).stream = s
    BY DEF FrontsTyped
  <2> QED BY <1>1, QueueTypes DEF QueuesInOrder
<1>3. \A s \in Streams : queues[s].items # <<>> => s \in Arrived
  BY DEF QueuesOpen, Arrived
<1> QED BY <1>1, <1>2, <1>3

\* A step that leaves every frame where it is leaves them in order.
LEMMA FramesStay ==
    ASSUME FrameSyncInv, \A t \in Streams : queues'[t].items = queues[t].items,
           UNCHANGED <<matches, ready, shown>>
    PROVE  /\ QueuesInOrder' /\ MatchesInOrder' /\ StagesInOrder' /\ SetsAreTight'
           /\ \A t \in Streams : Stamps(t)' = Stamps(t)
<1>1. Published' = Published
  BY DEF Published
<1>2. QueuesInOrder'
  BY DEF FrameSyncInv, QueuesInOrder
<1>3. MatchesInOrder'
  BY DEF FrameSyncInv, MatchesInOrder, Earlier
<1>4. StagesInOrder'
  <2>1. \A m \in Published : \A f \in m : f.stream \in Streams
    BY QueueTypes DEF FrameSyncInv
  <2>2. StagesInOrder
    BY DEF FrameSyncInv
  <2>3. ASSUME NEW m \in Published, NEW f \in m
        PROVE  /\ shown'[f.stream] < f.ts
               /\ \A i \in DOMAIN queues'[f.stream].items : f.ts < queues'[f.stream].items[i].ts
    BY <2>1, <2>2 DEF StagesInOrder
  <2>4. \A s \in Streams : \A i \in DOMAIN queues'[s].items : shown'[s] < queues'[s].items[i].ts
    BY <2>2 DEF StagesInOrder
  <2> QED BY <1>1, <2>3, <2>4 DEF StagesInOrder
<1>5. SetsAreTight'
  BY <1>1 DEF FrameSyncInv, SetsAreTight
<1>6. \A t \in Streams : Stamps(t)' = Stamps(t)
  BY <1>1 DEF Stamps
<1> QED BY <1>2, <1>3, <1>4, <1>5, <1>6

\* A step that brings no new timestamp.
LEMMA NewestStays ==
    ASSUME NewestLast, \A t \in Streams : Stamps(t)' \subseteq Stamps(t),
           UNCHANGED <<source, lastArrived>>, \A t \in Streams : Bringing(t)' => Bringing(t)
    PROVE  NewestLast'
BY DEF NewestLast

\* What is held does not depend on how the matches are handed out.
LEMMA HeldStays ==
    ASSUME HeldBriefly, UNCHANGED <<frameVars, mutex, active>>
    PROVE  HeldBriefly'
<1>1. UNCHANGED <<known, queues, lively, expected, lastArrived, mutex, active>>
  BY DEF frameVars
<1> QED BY <1>1 DEF HeldBriefly, AtRest, Arrived, Missing

-----------------------------------------------------------------------------
(* The steps.                                                              *)

\* Streams are numbered from 1.
LEMMA StreamNumbers == \A s \in Streams : s \in Nat /\ s # 0 /\ s \in 0 .. NbStream
BY FrameSyncAssumption DEF Streams

\* The invariant holds before the first frame.
LEMMA InitInv ==
    ASSUME Init
    PROVE  FrameSyncInv
<1> USE FrameSyncAssumption
<1>1. OpenQueue \in [items : Seq(Frames), accepting : BOOLEAN] /\ OpenQueue.items = <<>>
      /\ OpenQueue.accepting
      /\ OpenQueue \in [items : Seq(SUBSET Frames), accepting : {TRUE}]
  <2>1. \A S : <<>> \in Seq(S)
    OBVIOUS
  <2> QED BY <2>1 DEF OpenQueue
<1>2. /\ \A s \in Streams : queues[s].items = <<>> /\ queues[s].accepting
      /\ matches.items = <<>> /\ ready = {}
      /\ \A s \in Streams : thread[s] = "idle" /\ shown[s] = -1
      /\ mutex = 0 /\ known = {} /\ stops = 0
  BY <1>1 DEF Init
<1>3. TypeOK
  <2>1. queues \in [Streams -> [items : Seq(Frames), accepting : BOOLEAN]]
        /\ matches \in [items : Seq(SUBSET Frames), accepting : {TRUE}]
    BY <1>1 DEF Init
  <2>2. Len(<<>>) = 0
    OBVIOUS
  <2>3. /\ \A s \in Streams : Len(queues[s].items) <= QUEUE_MAX_SIZE
        /\ Len(matches.items) <= QUEUE_MAX_SIZE
    BY <1>2, <2>2
  <2>4. /\ source \in [Streams -> [sent : Nat, ts : Nat]]
        /\ thread \in [Streams -> Places] /\ lively \in [Streams -> BOOLEAN]
        /\ expected \in [Streams -> Nat] /\ shown \in [Streams -> Int]
    BY DEF Init, Places
  <2>5. /\ mutex \in 0 .. NbStream /\ callbackMutex \in 0 .. NbStream /\ active \in BOOLEAN
        /\ stops \in 0 .. NbStream /\ lastArrived \in Nat
    BY DEF Init
  <2>6. known \subseteq Streams /\ ready \subseteq Frames
    BY DEF Init
  <2> QED BY <2>1, <2>3, <2>4, <2>5, <2>6 DEF TypeOK
<1>4. Published = {{}} /\ \A s \in Streams : Stamps(s) = {}
  <2>1. DOMAIN <<>> = {}
    OBVIOUS
  <2>2. Published = {{}}
    BY <1>2, <2>1 DEF Published
  <2> QED BY <1>2, <2>1, <2>2 DEF Stamps
<1>5. MutexHeld /\ QueuesOpen
  BY <1>2 DEF MutexHeld, Dispatching, QueuesOpen, Streams
<1>6. QueuesInOrder /\ MatchesInOrder /\ StagesInOrder
  BY <1>2, <1>4 DEF QueuesInOrder, MatchesInOrder, StagesInOrder
<1>7. NewestLast /\ SetsAreTight
  BY <1>2, <1>4 DEF NewestLast, Bringing, SetsAreTight
<1>8. HeldBriefly
  BY <1>2 DEF HeldBriefly, Arrived
<1> QED BY <1>3, <1>5, <1>6, <1>7, <1>8 DEF FrameSyncInv

\* A frame that comes keeps the invariant;
LEMMA ArriveStep ==
    ASSUME FrameSyncInv, NEW s \in Streams, Arrive(s)
    PROVE  FrameSyncInv'
<1> USE FrameSyncAssumption
<1>1. PICK ts \in NextTimes(s) :
         /\ source' = [source EXCEPT ![s] = [sent |-> @.sent + 1, ts |-> ts]]
         /\ lastArrived' = IF active THEN ts ELSE lastArrived
  BY DEF Arrive
<1>2. /\ mutex = 0 /\ mutex' = IF active THEN s ELSE 0
      /\ thread[s] = "idle"
      /\ thread' = [thread EXCEPT ![s] = IF active THEN "find" ELSE "idle"]
      /\ UNCHANGED <<callbackMutex, active, stops, known, queues, lively, expected,
                     matches, ready, shown>>
  BY DEF Arrive, Moved
<1>3. TypeOK /\ MutexHeld /\ NewestLast /\ source[s].sent \in Nat /\ source[s].ts \in Nat
  BY DEF FrameSyncInv, TypeOK
<1>4. ts \in Nat /\ (source[s].sent > 0 => source[s].ts < ts)
  <2>1. CASE source[s].sent = 0
    BY <1>3, <2>1 DEF NextTimes, Streams
  <2>2. CASE source[s].sent # 0
    <3>1. PICK n \in Steps : ts = source[s].ts + n * Gap[s]
      BY <2>2 DEF NextTimes
    <3>2. n \in Nat \ {0} /\ Gap[s] \in Nat \ {0}
      BY DEF Streams
    <3>3. n * Gap[s] \in Nat \ {0}
      BY <3>2
    <3> DEFINE later == n * Gap[s]
    <3>4. later \in Nat \ {0} /\ ts = source[s].ts + later
      BY <3>1, <3>3
    <3> HIDE DEF later
    <3> QED BY <1>3, <3>4
  <2> QED BY <2>1, <2>2
<1>5. /\ source'[s].sent = source[s].sent + 1 /\ source'[s].ts = ts
      /\ \A t \in Streams \ {s} : source'[t] = source[t]
      /\ source' \in [Streams -> [sent : Nat, ts : Nat]]
  BY <1>1, <1>3, <1>4 DEF TypeOK
<1>6. /\ thread' \in [Streams -> Places]
      /\ thread'[s] = IF active THEN "find" ELSE "idle"
      /\ \A t \in Streams \ {s} : thread'[t] = thread[t] /\ ~Dispatching(t)
      /\ s # 0 /\ s \in 0 .. NbStream
  <2>1. thread \in [Streams -> Places] /\ s # 0 /\ s \in 0 .. NbStream
    BY <1>3, StreamNumbers DEF TypeOK
  <2>2. \A t \in Streams : ~Dispatching(t)
    BY <1>2, <1>3, StreamNumbers DEF MutexHeld
  <2>3. "find" \in Places /\ "idle" \in Places
    BY DEF Places
  <2> QED BY <1>2, <2>1, <2>2, <2>3
<1>7. TypeOK'
  BY <1>1, <1>2, <1>3, <1>4, <1>5, <1>6 DEF TypeOK
<1>8. MutexHeld'
  BY <1>2, <1>6 DEF MutexHeld, Dispatching, Streams
<1>9. QueuesOpen'
  BY <1>2 DEF FrameSyncInv, QueuesOpen
<1>10. /\ QueuesInOrder' /\ MatchesInOrder' /\ StagesInOrder' /\ SetsAreTight'
       /\ \A t \in Streams : Stamps(t)' = Stamps(t)
  BY <1>2, FramesStay
<1>11. ASSUME NEW t \in Streams
       PROVE  /\ Bringing(t)' => source'[t].sent > 0 /\ lastArrived' = source'[t].ts
              /\ \A x \in Stamps(t)' : /\ source'[t].sent > 0 /\ x <= source'[t].ts
                                       /\ Bringing(t)' => x < source'[t].ts
  <2>1. CASE t = s
    <3>1. Bringing(s)' => lastArrived' = ts
      BY <1>1, <1>6 DEF Bringing
    <3>2. \A x \in Stamps(s) : source[s].sent > 0 /\ x <= source[s].ts /\ x \in Int
      <4>1. \A x \in Stamps(s) : x \in Int
        <5>1. \A i \in DOMAIN queues[s].items : queues[s].items[i].ts \in Int
          BY <1>3, QueueTypes
        <5>2. \A m \in Published : \A f \in m : f.ts \in Int
          BY <1>3, QueueTypes
        <5>3. shown[s] \in Int
          BY <1>3 DEF TypeOK
        <5> QED BY <5>1, <5>2, <5>3 DEF Stamps
      <4> QED BY <1>3, <4>1 DEF NewestLast
    <3>3. \A x \in Stamps(s) : x < ts
      BY <1>3, <1>4, <3>2
    <3> QED BY <1>3, <1>4, <1>5, <1>10, <2>1, <3>1, <3>2, <3>3
  <2>2. CASE t # s
    <3>1. ~Bringing(t)' /\ source'[t] = source[t]
      BY <1>5, <1>6, <2>2 DEF Bringing, Dispatching
    <3> QED BY <1>3, <1>10, <3>1 DEF NewestLast
  <2> QED BY <2>1, <2>2
<1>12. NewestLast'
  BY <1>11 DEF NewestLast
<1>13. HeldBriefly'
  BY <1>2, <1>6 DEF HeldBriefly, AtRest
<1> QED BY <1>7, <1>8, <1>9, <1>10, <1>12, <1>13 DEF FrameSyncInv

\* so does finding its matcher,
LEMMA FindStep ==
    ASSUME FrameSyncInv, NEW s \in Streams, Find(s)
    PROVE  FrameSyncInv'
<1> USE FrameSyncAssumption
<1>1. /\ thread[s] = "find" /\ thread' = [thread EXCEPT ![s] = "enqueue"]
      /\ lively' = [lively EXCEPT ![s] = TRUE]
      /\ expected' = [expected EXCEPT ![s] = lastArrived + Gap[s]]
      /\ UNCHANGED <<source, mutex, callbackMutex, active, stops, lastArrived,
                     matches, ready, shown>>
  BY DEF Find, Moved
<1>2. TypeOK /\ MutexHeld /\ QueuesOpen
  BY DEF FrameSyncInv
<1>3. \A t \in Streams : queues[t] \in [items : Seq(Frames), accepting : BOOLEAN]
  BY <1>2, QueueTypes
<1>4. /\ known \subseteq known' /\ known' \subseteq Streams
      /\ \A t \in Streams : /\ queues'[t].items = queues[t].items
                            /\ queues[t].accepting => queues'[t].accepting
                            /\ queues'[t] \in [items : Seq(Frames), accepting : BOOLEAN]
      /\ queues' = [t \in Streams |-> queues'[t]]
  <2>1. CASE lively[s]
    BY <1>2, <1>3, <2>1 DEF Find, TypeOK
  <2>2. CASE ~lively[s] /\ s \in known
    <3>1. /\ known' = known \cup {s} /\ queues' = [queues EXCEPT ![s] = Started(@)]
      BY <2>2 DEF Find
    <3>2. /\ Started(queues[s]) \in [items : Seq(Frames), accepting : BOOLEAN]
          /\ Started(queues[s]).items = queues[s].items /\ Started(queues[s]).accepting
      BY <1>3 DEF Started
    <3> QED BY <1>2, <1>3, <3>1, <3>2 DEF TypeOK
  <2>3. CASE ~lively[s] /\ s \notin known
    <3>1. /\ known' = known \cup {s} /\ queues' = [queues EXCEPT ![s] = OpenQueue]
      BY <2>3 DEF Find
    <3>2. /\ OpenQueue \in [items : Seq(Frames), accepting : BOOLEAN]
          /\ OpenQueue.items = <<>> /\ OpenQueue.accepting
      <4>1. <<>> \in Seq(Frames)
        OBVIOUS
      <4> QED BY <4>1 DEF OpenQueue
    <3>3. queues[s].items = <<>>
      BY <1>2, <2>3 DEF QueuesOpen
    <3> QED BY <1>2, <1>3, <3>1, <3>2, <3>3 DEF TypeOK
  <2> QED BY <2>1, <2>2, <2>3
<1>5. /\ thread' \in [Streams -> Places] /\ thread'[s] = "enqueue"
      /\ \A t \in Streams \ {s} : thread'[t] = thread[t]
      /\ mutex = s /\ mutex # 0
  <2>1. thread \in [Streams -> Places] /\ "enqueue" \in Places
    BY <1>2 DEF TypeOK, Places
  <2>2. mutex = s /\ mutex # 0
    BY <1>1, <1>2, StreamNumbers DEF MutexHeld, Dispatching
  <2> QED BY <1>1, <2>1, <2>2
<1>6. TypeOK'
  <2>1. lively' \in [Streams -> BOOLEAN]
    BY <1>1, <1>2 DEF TypeOK
  <2>2. expected' \in [Streams -> Nat]
    <3>1. lastArrived + Gap[s] \in Nat
      <4>1. Gap[s] \in Nat /\ lastArrived \in Nat
        BY <1>2 DEF TypeOK, Streams
      <4> QED BY <4>1
    <3> QED BY <1>1, <1>2, <3>1 DEF TypeOK
  <2>3. queues' \in [Streams -> [items : Seq(Frames), accepting : BOOLEAN]]
    BY <1>4
  <2>4. \A t \in Streams : Len(queues'[t].items) <= QUEUE_MAX_SIZE
    BY <1>2, <1>4, QueueTypes
  <2> QED BY <1>1, <1>2, <1>4, <1>5, <2>1, <2>2, <2>3, <2>4 DEF TypeOK
<1>7. MutexHeld'
  BY <1>1, <1>2, <1>5 DEF MutexHeld, Dispatching
<1>8. QueuesOpen'
  BY <1>1, <1>2, <1>4 DEF QueuesOpen
<1>9. /\ QueuesInOrder' /\ MatchesInOrder' /\ StagesInOrder' /\ SetsAreTight'
      /\ \A t \in Streams : Stamps(t)' = Stamps(t)
  BY <1>1, <1>4, FramesStay
<1>10. NewestLast'
  <2>1. NewestLast /\ UNCHANGED <<source, lastArrived>>
    BY <1>1 DEF FrameSyncInv
  <2>2. \A t \in Streams : Bringing(t)' => Bringing(t)
    BY <1>1, <1>5 DEF Bringing
  <2> QED BY <1>9, <2>1, <2>2, NewestStays
<1>11. HeldBriefly'
  BY <1>1, <1>5 DEF HeldBriefly, AtRest
<1> QED BY <1>6, <1>7, <1>8, <1>9, <1>10, <1>11 DEF FrameSyncInv

\* queueing it and expecting the next,
LEMMA EnqueueStep ==
    ASSUME FrameSyncInv, NEW s \in Streams, Enqueue(s)
    PROVE  FrameSyncInv'
<1> USE FrameSyncAssumption
<1> DEFINE q == Queued(s)
           x == Frame(s, lastArrived)
           r == Enqueued(q, QUEUE_MAX_SIZE, x)
<1>1. /\ thread[s] = "enqueue"
      /\ thread' = [thread EXCEPT ![s] = IF q.accepting THEN "sync" ELSE "callback"]
      /\ mutex' = IF q.accepting THEN s ELSE 0
      /\ known' = known \cup {s}
      /\ queues' = [queues EXCEPT ![s] = r]
      /\ UNCHANGED <<source, callbackMutex, active, stops, lively, expected,
                     lastArrived, matches, ready, shown>>
  BY DEF Enqueue, Moved
<1>2. TypeOK /\ MutexHeld /\ QueuesOpen /\ QueuesInOrder /\ MatchesInOrder /\ StagesInOrder
      /\ NewestLast /\ SetsAreTight
  BY DEF FrameSyncInv
<1>3. /\ q \in [items : Seq(Frames), accepting : BOOLEAN] /\ q.items = queues[s].items
      /\ active => q.accepting
      /\ Len(q.items) <= QUEUE_MAX_SIZE
  <2>1. CASE s \in known
    BY <1>2, <2>1, QueueTypes DEF Queued, QueuesOpen
  <2>2. CASE s \notin known
    <3>1. /\ OpenQueue \in [items : Seq(Frames), accepting : BOOLEAN]
          /\ OpenQueue.items = <<>> /\ OpenQueue.accepting /\ Len(<<>>) = 0
      <4>1. <<>> \in Seq(Frames)
        OBVIOUS
      <4> QED BY <4>1 DEF OpenQueue
    <3>2. q = OpenQueue /\ queues[s].items = <<>> /\ 0 <= QUEUE_MAX_SIZE
      BY <1>2, <2>2 DEF Queued, QueuesOpen
    <3> HIDE DEF q
    <3> QED BY <3>1, <3>2
  <2> QED BY <2>1, <2>2
<1>4. x \in Frames /\ x.stream = s /\ x.ts = source[s].ts /\ source[s].sent > 0
      /\ \A ts \in Stamps(s) : ts < x.ts
  <2>1. lastArrived = source[s].ts /\ source[s].sent > 0 /\ \A ts \in Stamps(s) : ts < source[s].ts
    BY <1>1, <1>2 DEF NewestLast, Bringing
  <2>2. lastArrived \in Nat
    BY <1>2 DEF TypeOK
  <2> QED BY <2>1, <2>2 DEF Frame, Frames
<1>5. /\ thread'[s] = (IF q.accepting THEN "sync" ELSE "callback")
      /\ thread' \in [Streams -> Places]
      /\ \A t \in Streams \ {s} : thread'[t] = thread[t] /\ ~Dispatching(t)
      /\ mutex = s /\ mutex' \in 0 .. NbStream
  <2>1. thread \in [Streams -> Places] /\ "sync" \in Places /\ "callback" \in Places
    BY <1>2 DEF TypeOK, Places
  <2>2. mutex = s
    BY <1>1, <1>2 DEF MutexHeld, Dispatching
  <2>3. \A t \in Streams \ {s} : ~Dispatching(t)
    BY <1>2, <2>2 DEF MutexHeld
  <2>4. mutex' \in 0 .. NbStream
    BY <1>1, StreamNumbers
  <2> QED BY <1>1, <2>1, <2>2, <2>3, <2>4
<1>6. MutexHeld'
  <2>1. thread'[s] = "sync" <=> q.accepting
    BY <1>5
  <2> QED BY <1>1, <1>5, <2>1, StreamNumbers DEF MutexHeld, Dispatching
<1>7. HeldBriefly'
  <2>1. CASE q.accepting
    BY <1>1, <2>1, StreamNumbers DEF HeldBriefly, AtRest
  <2>2. CASE ~q.accepting
    BY <1>1, <1>3, <2>2 DEF HeldBriefly, AtRest
  <2> QED BY <2>1, <2>2
<1>8. \A t \in Streams : Bringing(t)' => Bringing(t) /\ t # s
  BY <1>5 DEF Bringing, Dispatching
<1>9. queues \in [Streams -> [items : Seq(Frames), accepting : BOOLEAN]]
  BY <1>2 DEF TypeOK
<1>10. /\ known' \subseteq Streams /\ known \subseteq known' /\ s \in known'
  BY <1>1, <1>2 DEF TypeOK
<1> HIDE DEF q, x
<1>11. CASE ~q.accepting
  <2>1. r = q
    BY <1>11 DEF Enqueued
  <2>2. /\ \A t \in Streams : queues'[t].items = queues[t].items
        /\ queues' \in [Streams -> [items : Seq(Frames), accepting : BOOLEAN]]
        /\ ~active
    BY <1>1, <1>3, <1>9, <1>11, <2>1
  <2>3. TypeOK'
    BY <1>1, <1>2, <1>5, <1>10, <2>2 DEF TypeOK
  <2>4. QueuesOpen'
    BY <1>1, <1>2, <1>10, <2>2 DEF QueuesOpen
  <2>5. /\ QueuesInOrder' /\ MatchesInOrder' /\ StagesInOrder' /\ SetsAreTight'
        /\ \A t \in Streams : Stamps(t)' = Stamps(t)
    BY <1>1, <2>2, FramesStay
  <2>6. NewestLast'
    BY <1>1, <1>2, <1>8, <2>5, NewestStays
  <2> QED BY <1>6, <1>7, <2>3, <2>4, <2>5, <2>6 DEF FrameSyncInv
<1>12. CASE q.accepting
  <2>1. /\ r \in [items : Seq(Frames), accepting : BOOLEAN] /\ r.accepting
        /\ Len(r.items) <= QUEUE_MAX_SIZE /\ Extends(r.items, q.items, x)
    BY <1>3, <1>4, <1>12, EnqueuedIs
  <2> HIDE DEF r
  <2>2. /\ queues' \in [Streams -> [items : Seq(Frames), accepting : BOOLEAN]]
        /\ queues'[s] = r /\ \A t \in Streams \ {s} : queues'[t] = queues[t]
    BY <1>1, <1>9, <2>1
  <2>3. TypeOK'
    <3>1. \A t \in Streams : Len(queues'[t].items) <= QUEUE_MAX_SIZE
      BY <1>2, <2>1, <2>2, QueueTypes
    <3> QED BY <1>1, <1>2, <1>5, <1>10, <2>2, <3>1 DEF TypeOK
  <2>4. QueuesOpen'
    BY <1>1, <1>2, <1>10, <2>1, <2>2 DEF QueuesOpen
  <2>5. /\ \A i \in DOMAIN queues[s].items : queues[s].items[i].ts \in Stamps(s)
        /\ \A m \in Published : \A f \in m : f.stream = s => f.ts \in Stamps(s)
        /\ shown[s] = -1 \/ shown[s] \in Stamps(s)
    BY DEF Stamps
  <2>6. /\ \A i \in DOMAIN queues[s].items : queues[s].items[i].ts < x.ts
        /\ \A m \in Published : \A f \in m : f.stream = s => f.ts < x.ts
        /\ shown[s] < x.ts
    <3>1. x.ts \in Nat
      BY <1>4 DEF Frames
    <3> QED BY <1>4, <2>5, <3>1
  <2>7. QueuesInOrder'
    <3>1. ASSUME NEW i \in DOMAIN r.items
          PROVE  /\ r.items[i].stream = s
                 /\ \A j \in DOMAIN r.items : i < j => r.items[i].ts < r.items[j].ts
      <4>1. r.items[i].stream = s
        BY <1>2, <1>3, <1>4, <2>1 DEF Extends, QueuesInOrder
      <4>2. ASSUME NEW j \in DOMAIN r.items, i < j
            PROVE  r.items[i].ts < r.items[j].ts
        <5>1. PICK k \in DOMAIN queues[s].items :
                 /\ r.items[i] = queues[s].items[k]
                 /\ r.items[j] = x \/ \E l \in DOMAIN queues[s].items :
                                         k < l /\ r.items[j] = queues[s].items[l]
          BY <1>3, <2>1, <4>2 DEF Extends
        <5> QED BY <1>2, <2>6, <5>1 DEF QueuesInOrder
      <4> QED BY <4>1, <4>2
    <3>2. ASSUME NEW t \in Streams, NEW i \in DOMAIN queues'[t].items
          PROVE  /\ queues'[t].items[i].stream = t
                 /\ \A j \in DOMAIN queues'[t].items :
                       i < j => queues'[t].items[i].ts < queues'[t].items[j].ts
      <4>1. CASE t = s
        BY <2>2, <3>1, <4>1
      <4>2. CASE t # s
        BY <1>2, <2>2, <4>2 DEF QueuesInOrder
      <4> QED BY <4>1, <4>2
    <3> QED BY <3>2 DEF QueuesInOrder
  <2>8. MatchesInOrder' /\ SetsAreTight' /\ Published' = Published
    <3>1. Published' = Published
      BY <1>1 DEF Published
    <3> QED BY <1>1, <1>2, <3>1 DEF MatchesInOrder, Earlier, SetsAreTight
  <2>9. \A i \in DOMAIN r.items : r.items[i] = x \/ \E k \in DOMAIN queues[s].items :
                                                     r.items[i] = queues[s].items[k]
    BY <1>3, <2>1 DEF Extends
  <2>10. StagesInOrder'
    <3>1. ASSUME NEW m \in Published, NEW f \in m
          PROVE  /\ shown'[f.stream] < f.ts
                 /\ \A i \in DOMAIN queues'[f.stream].items : f.ts < queues'[f.stream].items[i].ts
      <4>1. f.stream \in Streams /\ shown[f.stream] < f.ts
            /\ \A i \in DOMAIN queues[f.stream].items : f.ts < queues[f.stream].items[i].ts
        BY <1>2, QueueTypes DEF StagesInOrder
      <4>2. CASE f.stream = s
        <5>1. \A i \in DOMAIN r.items : f.ts < r.items[i].ts
          <6>1. f.ts < x.ts /\ \A k \in DOMAIN queues[s].items : f.ts < queues[s].items[k].ts
            BY <2>6, <4>1, <4>2
          <6> QED BY <2>9, <6>1
        <5> QED BY <1>1, <2>2, <4>1, <4>2, <5>1
      <4>3. CASE f.stream # s
        BY <1>1, <2>2, <4>1, <4>3
      <4> QED BY <4>2, <4>3
    <3>2. ASSUME NEW t \in Streams, NEW i \in DOMAIN queues'[t].items
          PROVE  shown'[t] < queues'[t].items[i].ts
      <4>1. CASE t = s
        BY <1>1, <1>2, <2>2, <2>6, <2>9, <4>1 DEF StagesInOrder
      <4>2. CASE t # s
        BY <1>1, <1>2, <2>2, <4>2 DEF StagesInOrder
      <4> QED BY <4>1, <4>2
    <3> QED BY <2>8, <3>1, <3>2 DEF StagesInOrder
  <2>11. NewestLast'
    <3>1. ASSUME NEW t \in Streams, NEW ts \in Stamps(t)'
          PROVE  /\ source'[t].sent > 0 /\ ts <= source'[t].ts
                 /\ Bringing(t)' => ts < source'[t].ts
      <4>1. CASE t # s
        <5>1. ts \in Stamps(t)
          BY <1>1, <2>2, <2>8, <4>1 DEF Stamps
        <5> QED BY <1>1, <1>2, <1>8, <5>1 DEF NewestLast
      <4>2. CASE t = s
        <5>1. ts \in Stamps(s) \/ ts = x.ts
          <6>1. \A i \in DOMAIN r.items : r.items[i].ts = x.ts \/ r.items[i].ts \in Stamps(s)
            BY <2>5, <2>9
          <6>2. Stamps(s)' = {r.items[i].ts : i \in DOMAIN r.items}
                               \cup {f.ts : f \in {g \in UNION Published : g.stream = s}}
                               \cup ({shown[s]} \ {-1})
            BY <1>1, <2>2, <2>8 DEF Stamps
          <6>3. {f.ts : f \in {g \in UNION Published : g.stream = s}} \cup ({shown[s]} \ {-1})
                  \subseteq Stamps(s)
            BY DEF Stamps
          <6> QED BY <4>2, <6>1, <6>2, <6>3
        <5>2. source[s].ts \in Nat
          BY <1>2 DEF TypeOK
        <5>3. source[s].sent > 0 /\ ts <= source[s].ts
          BY <1>2, <1>4, <5>1, <5>2 DEF NewestLast
        <5> QED BY <1>1, <1>8, <4>2, <5>3
      <4> QED BY <4>1, <4>2
    <3>2. \A t \in Streams : Bringing(t)' => source'[t].sent > 0 /\ lastArrived' = source'[t].ts
      BY <1>1, <1>2, <1>8 DEF NewestLast
    <3> QED BY <3>1, <3>2 DEF NewestLast
  <2> QED BY <1>6, <1>7, <2>3, <2>4, <2>7, <2>8, <2>10, <2>11 DEF FrameSyncInv
<1> QED BY <1>11, <1>12

\* What the loop of sync() found, in the terms of the invariant.
LEMMA ScanResult ==
    ASSUME TypeOK, QueuesInOrder, QueuesOpen
    PROVE  /\ Scan.by.ts \in Nat /\ Scan.rest \in BOOLEAN /\ Scan.synced \subseteq Arrived
           /\ Scan.synced = {} => Arrived = {}
           /\ ~Scan.rest => Scan.synced = Arrived
           /\ Scan.synced # {} =>
                \E b \in Scan.synced :
                   /\ Scan.by = First(b)
                   /\ \A t \in Scan.synced : t = b \/ Equivalent(First(b), First(t))
           /\ \A t \in Arrived \ Scan.synced : MayPass(Scan.by, First(t))
<1>1. FrontsTyped
  BY FrontsAreTyped
<1> DEFINE found == Scan
<1>2. FoundAfter(found, NbStream)
  BY <1>1, ScanFinds
<1>3. {s \in Arrived : s <= NbStream} = Arrived
  <2>1. \A s \in Arrived : s <= NbStream
    BY <1>1, FrameSyncAssumption DEF FrontsTyped, Streams
  <2> QED BY <2>1
<1> HIDE DEF found
<1>4. found.by.ts \in Nat /\ found.rest \in BOOLEAN
  BY <1>2 DEF FoundAfter, Found
<1>5. /\ found.synced \subseteq Arrived
      /\ found.synced = {} => Arrived = {}
      /\ ~found.rest => Arrived \subseteq found.synced
      /\ found.synced # {} =>
           \E b \in found.synced :
              /\ found.by = First(b)
              /\ \A t \in found.synced : t = b \/ Equivalent(First(b), First(t))
      /\ \A t \in Arrived \ found.synced : MayPass(found.by, First(t))
  BY <1>2, <1>3 DEF FoundAfter
<1> QED BY <1>4, <1>5 DEF found

\* Dispatch is over: what is held is held for a stream that is waited for.
LEMMA SyncWaits ==
    ASSUME FrameSyncInv, NEW s \in Streams, Sync(s), mutex' = 0
    PROVE  FrameSyncInv'
<1> USE FrameSyncAssumption
<1> DEFINE found == Scan
           given == IF found.synced # {} /\ ~found.rest
                    THEN {m \in Missing : PastCutout(found.by, m)} ELSE {}
           go == /\ found.synced # {}
                 /\ found.rest \/ ~\E m \in Missing : WaitsFor(found.by, m)
<1>1. /\ thread[s] = "sync"
      /\ known' = known \ given
      /\ lively' = [t \in Streams |-> lively[t] /\ t \notin given]
      /\ UNCHANGED <<source, callbackMutex, active, stops, expected, lastArrived,
                     ready, shown>>
  BY DEF Sync, Moved
<1>2. /\ thread' = [thread EXCEPT ![s] = IF go THEN "sync" ELSE "callback"]
      /\ mutex' = IF go THEN s ELSE 0
      /\ queues' = [t \in Streams |->
            IF go /\ t \in found.synced THEN Dequeued(queues[t]) ELSE queues[t]]
      /\ matches' = IF go THEN Enqueued(matches, QUEUE_MAX_SIZE, {First(t) : t \in found.synced})
                    ELSE matches
  BY DEF Sync, Moved
<1>3. ~go
  <2> HIDE DEF go
  <2> QED BY <1>2, StreamNumbers
<1>4. TypeOK /\ MutexHeld /\ QueuesOpen /\ QueuesInOrder /\ NewestLast
  BY DEF FrameSyncInv
<1>5. given \subseteq Missing /\ given \subseteq Streams
  BY <1>4 DEF Missing, TypeOK
<1>6. /\ thread' = [thread EXCEPT ![s] = "callback"] /\ mutex' = 0
      /\ queues' = [t \in Streams |-> queues[t]] /\ matches' = matches
  <2> HIDE DEF go
  <2> QED BY <1>2, <1>3
<1>7. queues' = queues
  BY <1>4, <1>6 DEF TypeOK
<1>8. /\ mutex = s /\ thread' \in [Streams -> Places] /\ thread'[s] = "callback"
      /\ \A t \in Streams \ {s} : thread'[t] = thread[t] /\ ~Dispatching(t)
  <2>1. thread \in [Streams -> Places] /\ "callback" \in Places
    BY <1>4 DEF TypeOK, Places
  <2>2. mutex = s
    BY <1>1, <1>4 DEF MutexHeld, Dispatching
  <2>3. \A t \in Streams \ {s} : ~Dispatching(t)
    BY <1>4, <2>2 DEF MutexHeld
  <2> QED BY <1>6, <2>1, <2>2, <2>3
<1>9. TypeOK'
  <2> HIDE DEF given
  <2>1. lively' \in [Streams -> BOOLEAN]
    BY <1>1, <1>4 DEF TypeOK
  <2>2. known' \subseteq Streams /\ mutex' \in 0 .. NbStream
    BY <1>1, <1>4, <1>6 DEF TypeOK
  <2> QED BY <1>1, <1>4, <1>6, <1>7, <1>8, <2>1, <2>2 DEF TypeOK
<1>10. MutexHeld'
  BY <1>6, <1>8, StreamNumbers DEF MutexHeld, Dispatching
<1>11. QueuesOpen'
  <2>1. \A t \in given : queues[t].items = <<>>
    BY <1>5 DEF Missing, Arrived
  <2> HIDE DEF given
  <2> QED BY <1>1, <1>4, <1>7, <2>1 DEF QueuesOpen
<1>12. /\ QueuesInOrder' /\ MatchesInOrder' /\ StagesInOrder' /\ SetsAreTight'
       /\ \A t \in Streams : Stamps(t)' = Stamps(t)
  BY <1>1, <1>6, <1>7, FramesStay
<1>13. NewestLast'
  <2>1. \A t \in Streams : Bringing(t)' => Bringing(t)
    BY <1>8 DEF Bringing
  <2> QED BY <1>1, <1>4, <1>12, <2>1, NewestStays
<1>14. HeldBriefly'
  <2> SUFFICES ASSUME Arrived' # {}
               PROVE  \E m \in Missing' : \E t \in Arrived' :
                         lively'[m] /\ lastArrived' < expected'[m] + Cutout * Gap[t]
    BY DEF HeldBriefly
  <2>1. Arrived' = Arrived /\ Missing \ given \subseteq Missing'
    <3> HIDE DEF given
    <3>1. \A t \in given : queues[t].items = <<>>
      BY <1>5 DEF Missing, Arrived
    <3> QED BY <1>1, <1>7, <3>1 DEF Arrived, Missing
  <2>2. found.synced # {} /\ found.synced \subseteq Arrived
    BY <1>4, <2>1, ScanResult
  <2>3. PICK m \in Missing : WaitsFor(found.by, m)
    BY <1>3, <2>2
  <2>4. PICK b \in found.synced : found.by = First(b)
    BY <1>4, <2>2, ScanResult
  <2>5. First(b).stream = b /\ b \in Streams /\ b \in Arrived
    BY <1>4, <2>2, <2>4, FrontsAreTyped DEF FrontsTyped
  <2>6. m \in Streams /\ lastArrived \in Nat /\ expected[m] \in Nat /\ Cutout * Gap[b] \in Nat \ {0}
    <3>1. m \in Streams /\ lastArrived \in Nat /\ expected[m] \in Nat
      BY <1>4, <2>3 DEF TypeOK, Missing
    <3>2. Gap[b] \in Nat \ {0} /\ Cutout \in Nat \ {0}
      BY <2>5 DEF Streams
    <3>3. Cutout * Gap[b] \in Nat \ {0}
      BY <3>2
    <3> QED BY <3>1, <3>3
  <2>7. lively[m] /\ (lastArrived > expected[m] => ~PastCutout(found.by, m))
    BY <2>3 DEF WaitsFor
  <2> DEFINE time == Cutout * Gap[b]
  <2>8. lastArrived > expected[m] => ~(lastArrived - expected[m] >= time)
    BY <2>4, <2>5, <2>7 DEF PastCutout
  <2>9. ~PastCutout(found.by, m)
    BY <2>6, <2>7 DEF PastCutout
  <2> HIDE DEF found
  <2>10. m \notin given
    BY <2>9
  <2> HIDE DEF given
  <2>11. lively'[m] /\ m \in Missing'
    BY <1>1, <2>1, <2>3, <2>6, <2>7, <2>10
  <2>12. lastArrived < expected[m] + time
    <3>1. time \in Nat \ {0}
      BY <2>6
    <3> HIDE DEF time
    <3> QED BY <2>6, <2>8, <3>1
  <2> QED BY <1>1, <2>1, <2>5, <2>11, <2>12
<1> QED BY <1>9, <1>10, <1>11, <1>12, <1>13, <1>14 DEF FrameSyncInv

\* What sync() takes out of the queues: the first frame of each stream in sync.
LEMMA TakenIs ==
    ASSUME TypeOK, QueuesInOrder, QueuesOpen, NEW taken \in SUBSET Arrived,
           queues' = [t \in Streams |-> IF t \in taken THEN Dequeued(queues[t]) ELSE queues[t]]
    PROVE  /\ queues' \in [Streams -> [items : Seq(Frames), accepting : BOOLEAN]]
           /\ \A t \in Streams :
                /\ queues'[t].accepting = queues[t].accepting
                /\ Len(queues'[t].items) <= QUEUE_MAX_SIZE
                /\ \A i \in DOMAIN queues'[t].items : \E k \in DOMAIN queues[t].items :
                     /\ queues'[t].items[i] = queues[t].items[k]
                     /\ t \in taken => 1 < k
                /\ \A i, j \in DOMAIN queues'[t].items : i < j =>
                     \E k, l \in DOMAIN queues[t].items :
                        k < l /\ queues'[t].items[i] = queues[t].items[k]
                              /\ queues'[t].items[j] = queues[t].items[l]
           /\ \A t \in Streams \ taken : queues'[t] = queues[t]
           /\ \A t \in taken : Len(queues'[t].items) < Len(queues[t].items)
<1>1. ASSUME NEW t \in Streams
      PROVE  /\ queues'[t] \in [items : Seq(Frames), accepting : BOOLEAN]
             /\ queues'[t].accepting = queues[t].accepting
             /\ Len(queues'[t].items) <= QUEUE_MAX_SIZE
             /\ \A i \in DOMAIN queues'[t].items : \E k \in DOMAIN queues[t].items :
                  /\ queues'[t].items[i] = queues[t].items[k]
                  /\ t \in taken => 1 < k
             /\ \A i, j \in DOMAIN queues'[t].items : i < j =>
                  \E k, l \in DOMAIN queues[t].items :
                     k < l /\ queues'[t].items[i] = queues[t].items[k]
                           /\ queues'[t].items[j] = queues[t].items[l]
             /\ t \notin taken => queues'[t] = queues[t]
             /\ t \in taken => Len(queues'[t].items) < Len(queues[t].items)
  <2>1. /\ queues[t] \in [items : Seq(Frames), accepting : BOOLEAN]
        /\ Len(queues[t].items) \in Nat /\ Len(queues[t].items) <= QUEUE_MAX_SIZE
    BY QueueTypes
  <2>2. CASE t \notin taken
    <3>1. queues'[t] = queues[t]
      BY <2>2
    <3> QED BY <2>1, <2>2, <3>1
  <2>3. CASE t \in taken
    <3>1. queues'[t] = Dequeued(queues[t]) /\ queues[t].items # <<>>
      BY <2>3, FrontsAreTyped
    <3> DEFINE r == Dequeued(queues[t])
    <3>2. /\ r \in [items : Seq(Frames), accepting : BOOLEAN]
          /\ r.accepting = queues[t].accepting /\ Len(r.items) < Len(queues[t].items)
          /\ Drops(r.items, queues[t].items)
      BY <2>1, <3>1, DequeuedIs
    <3>3. r.items \in Seq(Frames)
      BY <3>2
    <3> HIDE DEF r
    <3>4. Len(r.items) \in Nat
      BY <3>3, LenProperties
    <3>5. Len(r.items) <= QUEUE_MAX_SIZE
      BY <2>1, <3>2, <3>4, FrameSyncAssumption
    <3>6. queues'[t] = r
      BY <3>1 DEF r
    <3> QED BY <2>3, <3>2, <3>5, <3>6 DEF Drops
  <2> QED BY <2>2, <2>3
<1>2. queues' \in [Streams -> [items : Seq(Frames), accepting : BOOLEAN]]
  <2>1. queues' = [t \in Streams |-> queues'[t]]
    OBVIOUS
  <2>2. \A t \in Streams : queues'[t] \in [items : Seq(Frames), accepting : BOOLEAN]
    BY <1>1
  <2> QED BY <2>1, <2>2
<1>3. taken \subseteq Streams
  BY FrontsAreTyped
<1> QED BY <1>1, <1>2, <1>3

\* A set of frames that belong together is put into the queue of matches.
LEMMA SyncReleases ==
    ASSUME FrameSyncInv, NEW s \in Streams, Sync(s), mutex' # 0
    PROVE  FrameSyncInv'
<1> USE FrameSyncAssumption
<1> DEFINE found == Scan
           given == IF found.synced # {} /\ ~found.rest
                    THEN {m \in Missing : PastCutout(found.by, m)} ELSE {}
           go == /\ found.synced # {}
                 /\ found.rest \/ ~\E m \in Missing : WaitsFor(found.by, m)
           taken == found.synced
           match == {First(t) : t \in taken}
<1>1. /\ thread[s] = "sync"
      /\ known' = known \ given
      /\ lively' = [t \in Streams |-> lively[t] /\ t \notin given]
      /\ UNCHANGED <<source, callbackMutex, active, stops, expected, lastArrived,
                     ready, shown>>
  BY DEF Sync, Moved
<1>2. /\ thread' = [thread EXCEPT ![s] = IF go THEN "sync" ELSE "callback"]
      /\ mutex' = IF go THEN s ELSE 0
      /\ queues' = [t \in Streams |-> IF go /\ t \in taken THEN Dequeued(queues[t]) ELSE queues[t]]
      /\ matches' = IF go THEN Enqueued(matches, QUEUE_MAX_SIZE, match) ELSE matches
  BY DEF Sync, Moved
<1>3. go
  <2> HIDE DEF go
  <2> QED BY <1>2
<1>4. TypeOK /\ MutexHeld /\ QueuesOpen /\ QueuesInOrder /\ MatchesInOrder /\ StagesInOrder
      /\ NewestLast /\ SetsAreTight
  BY DEF FrameSyncInv
<1>5. given \subseteq Missing /\ given \subseteq Streams
  BY <1>4 DEF Missing, TypeOK
<1>6. /\ thread' = [thread EXCEPT ![s] = "sync"] /\ mutex' = s
      /\ queues' = [t \in Streams |-> IF t \in taken THEN Dequeued(queues[t]) ELSE queues[t]]
      /\ matches' = Enqueued(matches, QUEUE_MAX_SIZE, match)
  <2> HIDE DEF go, match, taken
  <2> QED BY <1>2, <1>3
<1>7. /\ taken \in SUBSET Arrived /\ taken # {}
      /\ \E b \in taken : \A t \in taken : t = b \/ Equivalent(First(b), First(t))
  BY <1>3, <1>4, ScanResult
<1>8. /\ FrontsTyped
      /\ \A t \in taken : /\ t \in Streams /\ 1 \in DOMAIN queues[t].items
                          /\ First(t) = queues[t].items[1] /\ First(t) \in Frames
                          /\ First(t).stream = t
  BY <1>4, <1>7, FrontsAreTyped DEF FrontsTyped
<1>9. given \cap Arrived = {}
  BY <1>5 DEF Missing
<1> HIDE DEF go, given, taken
<1>10. /\ queues' \in [Streams -> [items : Seq(Frames), accepting : BOOLEAN]]
       /\ \A t \in Streams :
            /\ queues'[t].accepting = queues[t].accepting
            /\ Len(queues'[t].items) <= QUEUE_MAX_SIZE
            /\ \A i \in DOMAIN queues'[t].items : \E k \in DOMAIN queues[t].items :
                 /\ queues'[t].items[i] = queues[t].items[k]
                 /\ t \in taken => 1 < k
            /\ \A i, j \in DOMAIN queues'[t].items : i < j =>
                 \E k, l \in DOMAIN queues[t].items :
                    k < l /\ queues'[t].items[i] = queues[t].items[k]
                          /\ queues'[t].items[j] = queues[t].items[l]
       /\ \A t \in Streams \ taken : queues'[t] = queues[t]
  BY <1>4, <1>6, <1>7, TakenIs
<1>11. match \in SUBSET Frames
  BY <1>8
<1> HIDE DEF match
<1>12. /\ matches' \in [items : Seq(SUBSET Frames), accepting : {TRUE}]
       /\ Len(matches'.items) <= QUEUE_MAX_SIZE
       /\ Extends(matches'.items, matches.items, match)
  <2>1. /\ matches \in [items : Seq(SUBSET Frames), accepting : BOOLEAN] /\ matches.accepting
        /\ Len(matches.items) <= QUEUE_MAX_SIZE
    BY <1>4, QueueTypes DEF TypeOK
  <2> DEFINE r == Enqueued(matches, QUEUE_MAX_SIZE, match)
  <2>2. /\ r \in [items : Seq(SUBSET Frames), accepting : BOOLEAN] /\ r.accepting
        /\ Len(r.items) <= QUEUE_MAX_SIZE /\ Extends(r.items, matches.items, match)
    BY <1>11, <2>1, EnqueuedIs
  <2>3. matches' = r
    BY <1>6
  <2> HIDE DEF r
  <2> QED BY <2>2, <2>3
<1>13. /\ mutex = s /\ thread' \in [Streams -> Places] /\ thread'[s] = "sync"
       /\ \A t \in Streams \ {s} : thread'[t] = thread[t] /\ ~Dispatching(t)
  <2>1. thread \in [Streams -> Places] /\ "sync" \in Places
    BY <1>4 DEF TypeOK, Places
  <2>2. mutex = s
    BY <1>1, <1>4 DEF MutexHeld, Dispatching
  <2>3. \A t \in Streams \ {s} : ~Dispatching(t)
    BY <1>4, <2>2 DEF MutexHeld
  <2> QED BY <1>6, <2>1, <2>2, <2>3
<1>14. TypeOK'
  <2>1. lively' \in [Streams -> BOOLEAN]
    BY <1>1, <1>4 DEF TypeOK
  <2>2. known' \subseteq Streams /\ mutex' \in 0 .. NbStream
    BY <1>1, <1>4, <1>6, StreamNumbers DEF TypeOK
  <2> QED BY <1>1, <1>4, <1>10, <1>12, <1>13, <2>1, <2>2 DEF TypeOK
<1>15. MutexHeld'
  BY <1>6, <1>13 DEF MutexHeld, Dispatching
<1>16. QueuesOpen'
  <2>1. ASSUME NEW t \in Streams \ known'
        PROVE  queues'[t].items = <<>>
    <3>1. t \notin Arrived /\ queues[t].items = <<>>
      <4>1. CASE t \in known
        BY <1>1, <1>5, <2>1, <4>1 DEF Missing, Arrived
      <4>2. CASE t \notin known
        BY <1>4, <4>2 DEF QueuesOpen, Arrived
      <4> QED BY <4>1, <4>2
    <3> QED BY <1>7, <1>10, <3>1
  <2> QED BY <1>1, <1>4, <1>10, <2>1 DEF QueuesOpen
<1>17. QueuesInOrder'
  <2> SUFFICES ASSUME NEW t \in Streams, NEW i \in DOMAIN queues'[t].items
               PROVE  /\ queues'[t].items[i].stream = t
                      /\ \A j \in DOMAIN queues'[t].items :
                            i < j => queues'[t].items[i].ts < queues'[t].items[j].ts
    BY DEF QueuesInOrder
  <2>1. queues'[t].items[i].stream = t
    BY <1>4, <1>10 DEF QueuesInOrder
  <2>2. ASSUME NEW j \in DOMAIN queues'[t].items, i < j
        PROVE  queues'[t].items[i].ts < queues'[t].items[j].ts
    <3>1. PICK k \in DOMAIN queues[t].items, l \in DOMAIN queues[t].items :
             k < l /\ queues'[t].items[i] = queues[t].items[k]
                   /\ queues'[t].items[j] = queues[t].items[l]
      BY <1>10, <2>2
    <3> QED BY <1>4, <3>1 DEF QueuesInOrder
  <2> QED BY <2>1, <2>2
<1>18. \A m \in Published' : m = match \/ m \in Published
  <2> SUFFICES ASSUME NEW m \in Published'
               PROVE  m = match \/ m \in Published
    OBVIOUS
  <2>1. m = ready \/ \E i \in DOMAIN matches'.items : m = matches'.items[i]
    BY <1>1 DEF Published
  <2>2. \A i \in DOMAIN matches'.items :
           matches'.items[i] = match \/ \E k \in DOMAIN matches.items : matches'.items[i] = matches.items[k]
    BY <1>12 DEF Extends
  <2>3. m = ready \/ m = match \/ \E k \in DOMAIN matches.items : m = matches.items[k]
    BY <2>1, <2>2
  <2> QED BY <2>3 DEF Published
<1>19. \A f \in match : \E t \in taken : f = queues[t].items[1] /\ f.stream = t
  BY <1>8 DEF match
<1>20. \A m \in Published : \A f \in m :
          /\ f.stream \in Streams /\ shown[f.stream] < f.ts
          /\ \A i \in DOMAIN queues[f.stream].items : f.ts < queues[f.stream].items[i].ts
  BY <1>4, QueueTypes DEF StagesInOrder
<1>21. \A m \in Published : Earlier(m, match)
  <2> SUFFICES ASSUME NEW m \in Published, NEW f \in m, NEW g \in match, f.stream = g.stream
               PROVE  f.ts < g.ts
    BY DEF Earlier
  <2>1. PICK t \in taken : g = queues[t].items[1] /\ g.stream = t
    BY <1>19
  <2>2. 1 \in DOMAIN queues[t].items /\ f.stream = t
    BY <1>8, <2>1
  <2>3. \A i \in DOMAIN queues[f.stream].items : f.ts < queues[f.stream].items[i].ts
    BY <1>20
  <2> QED BY <2>1, <2>2, <2>3
<1>22. MatchesInOrder'
  <2>1. ready \in Published /\ \A k \in DOMAIN matches.items : matches.items[k] \in Published
    BY DEF Published
  <2>2. ASSUME NEW i \in DOMAIN matches'.items
        PROVE  Earlier(ready, matches'.items[i])
    <3>1. CASE matches'.items[i] = match
      BY <1>21, <2>1, <3>1
    <3>2. ASSUME NEW k \in DOMAIN matches.items, matches'.items[i] = matches.items[k]
          PROVE  Earlier(ready, matches'.items[i])
      BY <1>4, <3>2 DEF MatchesInOrder
    <3> QED BY <1>12, <3>1, <3>2 DEF Extends
  <2>3. ASSUME NEW i \in DOMAIN matches'.items, NEW j \in DOMAIN matches'.items, i < j
        PROVE  Earlier(matches'.items[i], matches'.items[j])
    <3>1. PICK k \in DOMAIN matches.items :
             /\ matches'.items[i] = matches.items[k]
             /\ \/ matches'.items[j] = match
                \/ \E l \in DOMAIN matches.items : k < l /\ matches'.items[j] = matches.items[l]
      BY <1>12, <2>3 DEF Extends
    <3>2. CASE matches'.items[j] = match
      BY <1>21, <2>1, <3>1, <3>2
    <3>3. CASE \E l \in DOMAIN matches.items : k < l /\ matches'.items[j] = matches.items[l]
      BY <1>4, <3>1, <3>3 DEF MatchesInOrder
    <3> QED BY <3>1, <3>2, <3>3
  <2> QED BY <1>1, <2>2, <2>3 DEF MatchesInOrder, Earlier
<1>23. StagesInOrder'
  <2>1. ASSUME NEW m \in Published', NEW f \in m
        PROVE  /\ shown'[f.stream] < f.ts
               /\ \A i \in DOMAIN queues'[f.stream].items : f.ts < queues'[f.stream].items[i].ts
    <3>1. CASE m \in Published
      <4>1. /\ f.stream \in Streams /\ shown[f.stream] < f.ts
            /\ \A i \in DOMAIN queues[f.stream].items : f.ts < queues[f.stream].items[i].ts
        BY <1>20, <3>1
      <4>2. ASSUME NEW i \in DOMAIN queues'[f.stream].items
            PROVE  f.ts < queues'[f.stream].items[i].ts
        <5>1. PICK k \in DOMAIN queues[f.stream].items :
                 queues'[f.stream].items[i] = queues[f.stream].items[k]
          <6>1. PICK t \in Streams : t = f.stream
            BY <4>1
          <6>2. i \in DOMAIN queues'[t].items
            BY <4>2, <6>1
          <6>3. PICK k \in DOMAIN queues[t].items :
                   queues'[t].items[i] = queues[t].items[k]
            BY <1>10, <6>2
          <6> QED BY <6>1, <6>3
        <5> QED BY <4>1, <5>1
      <4> QED BY <1>1, <4>1, <4>2
    <3>2. CASE m = match
      <4>1. PICK t \in taken : f = queues[t].items[1] /\ f.stream = t
        BY <1>19, <3>2
      <4>2. t \in Streams /\ 1 \in DOMAIN queues[t].items
        BY <1>8
      <4>3. shown[t] < f.ts
        BY <1>4, <4>1, <4>2 DEF StagesInOrder
      <4>4. ASSUME NEW i \in DOMAIN queues'[t].items
            PROVE  f.ts < queues'[t].items[i].ts
        <5>1. PICK k \in DOMAIN queues[t].items : queues'[t].items[i] = queues[t].items[k] /\ 1 < k
          BY <1>10, <4>2
        <5> QED BY <1>4, <4>1, <4>2, <5>1 DEF QueuesInOrder
      <4> QED BY <1>1, <4>1, <4>3, <4>4
    <3> QED BY <1>18, <3>1, <3>2
  <2>2. ASSUME NEW t \in Streams, NEW i \in DOMAIN queues'[t].items
        PROVE  shown'[t] < queues'[t].items[i].ts
    <3>1. PICK k \in DOMAIN queues[t].items : queues'[t].items[i] = queues[t].items[k]
      BY <1>10
    <3>2. shown[t] < queues[t].items[k].ts
      BY <1>4 DEF StagesInOrder
    <3> QED BY <1>1, <3>1, <3>2
  <2> QED BY <2>1, <2>2 DEF StagesInOrder
<1>24. NewestLast'
  <2>1. ASSUME NEW t \in Streams, NEW ts \in Stamps(t)'
        PROVE  ts \in Stamps(t)
    <3>1. \/ \E i \in DOMAIN queues'[t].items : ts = queues'[t].items[i].ts
          \/ \E m \in Published' : \E f \in m : f.stream = t /\ ts = f.ts
          \/ ts \in {shown'[t]} \ {-1}
      BY DEF Stamps
    <3>2. CASE \E i \in DOMAIN queues'[t].items : ts = queues'[t].items[i].ts
      <4>1. \E k \in DOMAIN queues[t].items : ts = queues[t].items[k].ts
        <5>1. PICK i \in DOMAIN queues'[t].items : ts = queues'[t].items[i].ts
          BY <3>2
        <5>2. PICK k \in DOMAIN queues[t].items : queues'[t].items[i] = queues[t].items[k]
          BY <1>10
        <5> QED BY <5>1, <5>2
      <4> QED BY <4>1 DEF Stamps
    <3>3. CASE \E m \in Published' : \E f \in m : f.stream = t /\ ts = f.ts
      <4>0. PICK m \in Published' : \E f \in m : f.stream = t /\ ts = f.ts
        BY <3>3
      <4>1. PICK f \in m : f.stream = t /\ ts = f.ts
        BY <4>0
      <4>2. CASE m \in Published
        BY <4>1, <4>2 DEF Stamps
      <4>3. CASE m = match
        <5>1. PICK u \in taken : f = queues[u].items[1] /\ f.stream = u
          BY <1>19, <4>3
        <5>2. 1 \in DOMAIN queues[t].items /\ ts = queues[t].items[1].ts
          BY <1>8, <4>1, <5>1
        <5> QED BY <5>2 DEF Stamps
      <4> QED BY <1>18, <4>2, <4>3
    <3>4. CASE ts \in {shown'[t]} \ {-1}
      BY <1>1, <3>4 DEF Stamps
    <3> QED BY <3>1, <3>2, <3>3, <3>4
  <2>2. \A t \in Streams : Bringing(t)' => Bringing(t)
    BY <1>13 DEF Bringing
  <2> QED BY <1>1, <1>4, <2>1, <2>2, NewestStays
<1>25. SetsAreTight'
  <2>1. ASSUME NEW f \in match, NEW g \in match, f.stream = g.stream
        PROVE  f = g
    <3>1. f = queues[f.stream].items[1] /\ g = queues[g.stream].items[1]
      BY <1>19
    <3> QED BY <2>1, <3>1
  <2>2. \E f \in match : \A g \in match : g = f \/ Equivalent(f, g)
    <3>1. PICK b \in taken : \A t \in taken : t = b \/ Equivalent(First(b), First(t))
      BY <1>7
    <3>2. First(b) \in match /\ \A g \in match : \E t \in taken : g = First(t)
      BY DEF match
    <3> QED BY <3>1, <3>2
  <2>3. ASSUME NEW m \in Published'
        PROVE  /\ \A f, g \in m : f.stream = g.stream => f = g
               /\ m # {} => \E f \in m : \A g \in m : g = f \/ Equivalent(f, g)
    <3>1. CASE m = match
      BY <2>1, <2>2, <3>1
    <3>2. CASE m \in Published
      BY <1>4, <3>2 DEF SetsAreTight
    <3> QED BY <1>18, <3>1, <3>2
  <2> QED BY <2>3 DEF SetsAreTight
<1>26. HeldBriefly'
  BY <1>6, StreamNumbers DEF HeldBriefly, AtRest
<1> QED BY <1>14, <1>15, <1>16, <1>17, <1>22, <1>23, <1>24, <1>25, <1>26 DEF FrameSyncInv

\* A thread that has dispatched its frame goes on without touching frames.
LEMMA ThreadMoves ==
    ASSUME FrameSyncInv, NEW s \in Streams, NEW to \in Places, ~Dispatching(s),
           to \notin {"find", "enqueue", "sync"}, thread' = [thread EXCEPT ![s] = to],
           UNCHANGED <<source, mutex, active, stops>>, UNCHANGED frameVars
    PROVE  /\ thread' \in [Streams -> Places] /\ MutexHeld' /\ QueuesOpen' /\ HeldBriefly'
           /\ \A t \in Streams : Bringing(t)' => Bringing(t)
           /\ UNCHANGED <<known, queues, lively, expected, lastArrived>>
<1>1. UNCHANGED <<known, queues, lively, expected, lastArrived>>
  BY DEF frameVars
<1>2. thread \in [Streams -> Places]
  BY DEF FrameSyncInv, TypeOK
<1>3. /\ thread' \in [Streams -> Places] /\ thread'[s] = to
      /\ \A t \in Streams \ {s} : thread'[t] = thread[t]
  BY <1>2
<1>4. MutexHeld'
  <2>1. \A t \in Streams : Dispatching(t)' <=> Dispatching(t)
    BY <1>3 DEF Dispatching
  <2> QED BY <2>1 DEF FrameSyncInv, MutexHeld
<1>5. QueuesOpen'
  BY <1>1 DEF FrameSyncInv, QueuesOpen
<1>6. HeldBriefly'
  BY HeldStays DEF FrameSyncInv
<1>7. \A t \in Streams : Bringing(t)' => Bringing(t)
  BY <1>3 DEF Bringing
<1> QED BY <1>1, <1>3, <1>4, <1>5, <1>6, <1>7

\* trying to hand out matches and leaving,
LEMMA TryCallbackStep ==
    ASSUME FrameSyncInv, NEW s \in Streams, TryCallback(s) \/ Leave(s)
    PROVE  FrameSyncInv'
<1>1. PICK to \in Places :
         /\ to \notin {"find", "enqueue", "sync"} /\ thread' = [thread EXCEPT ![s] = to]
         /\ ~Dispatching(s)
  <2>1. CASE TryCallback(s)
    BY <2>1 DEF TryCallback, Moved, Places, Dispatching
  <2>2. CASE Leave(s)
    BY <2>2 DEF Leave, Moved, Places, Dispatching
  <2> QED BY <2>1, <2>2
<1>2. /\ UNCHANGED <<source, mutex, active, stops, matches, ready, shown>> /\ UNCHANGED frameVars
  BY DEF TryCallback, Leave
<1>3. callbackMutex' \in 0 .. NbStream
  <2>1. /\ callbackMutex \in 0 .. NbStream /\ s \in 0 .. NbStream /\ 0 \in 0 .. NbStream
    BY StreamNumbers, FrameSyncAssumption DEF FrameSyncInv, TypeOK
  <2>2. callbackMutex' \in {callbackMutex, s, 0}
    BY DEF TryCallback, Leave
  <2> QED BY <2>1, <2>2
<1>4. /\ thread' \in [Streams -> Places] /\ MutexHeld' /\ QueuesOpen' /\ HeldBriefly'
      /\ \A t \in Streams : Bringing(t)' => Bringing(t)
      /\ UNCHANGED <<known, queues, lively, expected, lastArrived>>
  BY <1>1, <1>2, ThreadMoves
<1>5. TypeOK'
  BY <1>2, <1>3, <1>4 DEF FrameSyncInv, TypeOK
<1>6. /\ QueuesInOrder' /\ MatchesInOrder' /\ StagesInOrder' /\ SetsAreTight'
      /\ \A t \in Streams : Stamps(t)' = Stamps(t)
  BY <1>2, <1>4, FramesStay
<1>7. NewestLast'
  BY <1>2, <1>4, <1>6, NewestStays DEF FrameSyncInv
<1> QED BY <1>4, <1>5, <1>6, <1>7 DEF FrameSyncInv

\* taking one of them,
LEMMA TryDequeueStep ==
    ASSUME FrameSyncInv, NEW s \in Streams, TryDequeue(s)
    PROVE  FrameSyncInv'
<1>1. PICK to \in Places :
         /\ to \notin {"find", "enqueue", "sync"} /\ thread' = [thread EXCEPT ![s] = to]
         /\ ~Dispatching(s)
  BY DEF TryDequeue, Moved, Places, Dispatching
<1>2. UNCHANGED <<source, mutex, callbackMutex, active, stops, shown>> /\ UNCHANGED frameVars
  BY DEF TryDequeue
<1>3. /\ thread' \in [Streams -> Places] /\ MutexHeld' /\ QueuesOpen' /\ HeldBriefly'
      /\ \A t \in Streams : Bringing(t)' => Bringing(t)
      /\ UNCHANGED <<known, queues, lively, expected, lastArrived>>
  BY <1>1, <1>2, ThreadMoves
<1>4. CASE matches.items = <<>>
  <2>1. UNCHANGED <<matches, ready>>
    BY <1>4 DEF TryDequeue
  <2>2. TypeOK'
    BY <1>2, <1>3, <2>1 DEF FrameSyncInv, TypeOK
  <2>3. /\ QueuesInOrder' /\ MatchesInOrder' /\ StagesInOrder' /\ SetsAreTight'
        /\ \A t \in Streams : Stamps(t)' = Stamps(t)
    BY <1>2, <1>3, <2>1, FramesStay
  <2>4. NewestLast'
    BY <1>2, <1>3, <2>3, NewestStays DEF FrameSyncInv
  <2> QED BY <1>3, <2>2, <2>3, <2>4 DEF FrameSyncInv
<1>5. CASE matches.items # <<>>
  <2>1. ready' = Head(matches.items) /\ matches' = Dequeued(matches)
    BY <1>5 DEF TryDequeue
  <2>2. /\ matches \in [items : Seq(SUBSET Frames), accepting : BOOLEAN] /\ matches.accepting
        /\ Len(matches.items) <= QUEUE_MAX_SIZE /\ Len(matches.items) \in Nat
    BY QueueTypes DEF FrameSyncInv, TypeOK
  <2>3. /\ matches' \in [items : Seq(SUBSET Frames), accepting : BOOLEAN] /\ matches'.accepting
        /\ Len(matches'.items) < Len(matches.items)
        /\ ready' = matches.items[1] /\ 1 \in DOMAIN matches.items /\ ready' \subseteq Frames
        /\ Drops(matches'.items, matches.items)
    BY <1>5, <2>1, <2>2, DequeuedIs
  <2>4. Len(matches'.items) <= QUEUE_MAX_SIZE
    <3> DEFINE r == matches'.items
    <3>1. r \in Seq(SUBSET Frames)
      BY <2>3
    <3> HIDE DEF r
    <3>2. Len(r) \in Nat
      BY <3>1, LenProperties
    <3>3. Len(r) < Len(matches.items)
      BY <2>3 DEF r
    <3>4. Len(r) <= QUEUE_MAX_SIZE
      BY <2>2, <3>2, <3>3, FrameSyncAssumption
    <3> QED BY <3>4 DEF r
  <2>5. TypeOK'
    BY <1>2, <1>3, <2>3, <2>4 DEF FrameSyncInv, TypeOK
  <2>6. Published' \subseteq Published
    <3> SUFFICES ASSUME NEW m \in Published'
                 PROVE  m \in Published
      OBVIOUS
    <3>1. m = ready' \/ \E i \in DOMAIN matches'.items : m = matches'.items[i]
      BY DEF Published
    <3>2. \A i \in DOMAIN matches'.items :
             \E k \in DOMAIN matches.items : matches'.items[i] = matches.items[k]
      BY <2>3 DEF Drops
    <3>3. \E k \in DOMAIN matches.items : m = matches.items[k]
      BY <2>3, <3>1, <3>2
    <3> QED BY <3>3 DEF Published
  <2>7. QueuesInOrder' /\ SetsAreTight'
    BY <1>3, <2>6 DEF FrameSyncInv, QueuesInOrder, SetsAreTight
  <2>8. StagesInOrder'
    <3>1. StagesInOrder
      BY DEF FrameSyncInv
    <3>2. ASSUME NEW m \in Published', NEW f \in m
          PROVE  /\ shown'[f.stream] < f.ts
                 /\ \A i \in DOMAIN queues'[f.stream].items : f.ts < queues'[f.stream].items[i].ts
      BY <1>2, <1>3, <2>6, <3>1 DEF StagesInOrder
    <3>3. \A t \in Streams : \A i \in DOMAIN queues'[t].items : shown'[t] < queues'[t].items[i].ts
      BY <1>2, <1>3, <3>1 DEF StagesInOrder
    <3> QED BY <3>2, <3>3 DEF StagesInOrder
  <2>9. MatchesInOrder'
    <3>1. MatchesInOrder
      BY DEF FrameSyncInv
    <3>2. ASSUME NEW i \in DOMAIN matches'.items
          PROVE  Earlier(ready', matches'.items[i])
      <4>1. PICK k \in DOMAIN matches.items : 1 < k /\ matches'.items[i] = matches.items[k]
        BY <2>3 DEF Drops
      <4> QED BY <2>3, <3>1, <4>1 DEF MatchesInOrder
    <3>3. ASSUME NEW i \in DOMAIN matches'.items, NEW j \in DOMAIN matches'.items, i < j
          PROVE  Earlier(matches'.items[i], matches'.items[j])
      <4>1. PICK k \in DOMAIN matches.items, l \in DOMAIN matches.items :
               k < l /\ matches'.items[i] = matches.items[k] /\ matches'.items[j] = matches.items[l]
        BY <2>3, <3>3 DEF Drops
      <4> QED BY <3>1, <4>1 DEF MatchesInOrder
    <3> QED BY <3>2, <3>3 DEF MatchesInOrder, Earlier
  <2>10. NewestLast'
    <3>1. \A t \in Streams : Stamps(t)' \subseteq Stamps(t)
      BY <1>2, <1>3, <2>6 DEF Stamps
    <3> QED BY <1>2, <1>3, <3>1, NewestStays DEF FrameSyncInv
  <2> QED BY <1>3, <2>5, <2>7, <2>8, <2>9, <2>10 DEF FrameSyncInv
<1> QED BY <1>4, <1>5

\* handing it out,
LEMMA FrameReadyStep ==
    ASSUME FrameSyncInv, NEW s \in Streams, FrameReady(s)
    PROVE  FrameSyncInv'
<1> DEFINE own(t) == {f \in ready : f.stream = t}
<1>1. PICK to \in Places :
         /\ to \notin {"find", "enqueue", "sync"} /\ thread' = [thread EXCEPT ![s] = to]
         /\ ~Dispatching(s)
  BY DEF FrameReady, Moved, Places, Dispatching
<1>2. /\ shown' = [t \in Streams |-> IF own(t) = {} THEN shown[t] ELSE (CHOOSE f \in own(t) : TRUE).ts]
      /\ ready' = {}
      /\ UNCHANGED <<source, mutex, callbackMutex, active, stops, matches>> /\ UNCHANGED frameVars
  BY DEF FrameReady
<1>3. /\ thread' \in [Streams -> Places] /\ MutexHeld' /\ QueuesOpen' /\ HeldBriefly'
      /\ \A t \in Streams : Bringing(t)' => Bringing(t)
      /\ UNCHANGED <<known, queues, lively, expected, lastArrived>>
  BY <1>1, <1>2, ThreadMoves
<1>4. TypeOK /\ QueuesInOrder /\ MatchesInOrder /\ StagesInOrder /\ SetsAreTight
  BY DEF FrameSyncInv
<1>5. ready \in Published /\ \A k \in DOMAIN matches.items : matches.items[k] \in Published
  BY DEF Published
<1>6. ASSUME NEW t \in Streams
      PROVE  shown'[t] = shown[t] \/ \E f \in ready : f.stream = t /\ shown'[t] = f.ts
  <2>1. CASE own(t) = {}
    BY <1>2, <2>1
  <2>2. CASE own(t) # {}
    <3>1. PICK f \in own(t) : shown'[t] = f.ts
      <4>1. (CHOOSE f \in own(t) : TRUE) \in own(t)
        BY <2>2
      <4> QED BY <1>2, <2>2, <4>1
    <3> QED BY <3>1
  <2> QED BY <2>1, <2>2
<1>7. TypeOK'
  <2>1. \A t \in Streams : shown'[t] \in Int
    <3>1. \A f \in ready : f.ts \in Nat
      BY <1>4, <1>5, QueueTypes
    <3>2. \A t \in Streams : shown[t] \in Int
      BY <1>4 DEF TypeOK
    <3> QED BY <1>6, <3>1, <3>2
  <2>2. shown' \in [Streams -> Int]
    BY <1>2, <2>1
  <2> QED BY <1>2, <1>3, <1>4, <2>2 DEF TypeOK
<1>8. \A m \in Published' : m = {} \/ \E k \in DOMAIN matches.items : m = matches.items[k]
  BY <1>2 DEF Published
<1>9. QueuesInOrder' /\ MatchesInOrder'
  BY <1>2, <1>3, <1>4 DEF QueuesInOrder, MatchesInOrder, Earlier
<1>10. SetsAreTight'
  <2> SUFFICES ASSUME NEW m \in Published'
               PROVE  /\ \A f, g \in m : f.stream = g.stream => f = g
                      /\ m # {} => \E f \in m : \A g \in m : g = f \/ Equivalent(f, g)
    BY DEF SetsAreTight
  <2>1. m = {} \/ m \in Published
    BY <1>5, <1>8
  <2> QED BY <1>4, <2>1 DEF SetsAreTight
<1>11. StagesInOrder'
  <2>1. ASSUME NEW m \in Published', NEW f \in m
        PROVE  /\ shown'[f.stream] < f.ts
               /\ \A i \in DOMAIN queues'[f.stream].items : f.ts < queues'[f.stream].items[i].ts
    <3>1. PICK k \in DOMAIN matches.items : m = matches.items[k]
      BY <1>8
    <3>2. m \in Published /\ Earlier(ready, m)
      BY <1>4, <1>5, <3>1 DEF MatchesInOrder
    <3>3. /\ f.stream \in Streams /\ shown[f.stream] < f.ts
          /\ \A i \in DOMAIN queues[f.stream].items : f.ts < queues[f.stream].items[i].ts
      BY <1>4, <3>2, QueueTypes DEF StagesInOrder
    <3>4. shown'[f.stream] < f.ts
      <4>1. \A g \in ready : g.stream = f.stream => g.ts < f.ts
        BY <3>2 DEF Earlier
      <4> QED BY <1>6, <3>3, <4>1
    <3> QED BY <1>3, <3>3, <3>4
  <2>2. ASSUME NEW t \in Streams, NEW i \in DOMAIN queues'[t].items
        PROVE  shown'[t] < queues'[t].items[i].ts
    <3>1. /\ shown[t] < queues[t].items[i].ts
          /\ \A f \in ready : f.stream = t => f.ts < queues[t].items[i].ts
      BY <1>3, <1>4, <1>5 DEF StagesInOrder
    <3> QED BY <1>3, <1>6, <3>1
  <2> QED BY <2>1, <2>2 DEF StagesInOrder
<1>12. NewestLast'
  <2>1. ASSUME NEW t \in Streams, NEW ts \in Stamps(t)'
        PROVE  ts \in Stamps(t)
    <3>1. \/ \E i \in DOMAIN queues'[t].items : ts = queues'[t].items[i].ts
          \/ \E m \in Published' : \E f \in m : f.stream = t /\ ts = f.ts
          \/ ts = shown'[t] /\ ts # -1
      BY DEF Stamps
    <3>2. CASE \E i \in DOMAIN queues'[t].items : ts = queues'[t].items[i].ts
      BY <1>3, <3>2 DEF Stamps
    <3>3. CASE \E m \in Published' : \E f \in m : f.stream = t /\ ts = f.ts
      <4>1. \E m \in Published : \E f \in m : f.stream = t /\ ts = f.ts
        BY <1>5, <1>8, <3>3
      <4> QED BY <4>1 DEF Stamps
    <3>4. CASE ts = shown'[t] /\ ts # -1
      <4>1. (ts = shown[t] /\ ts # -1) \/ \E f \in ready : f.stream = t /\ ts = f.ts
        BY <1>6, <3>4
      <4> QED BY <1>5, <4>1 DEF Stamps
    <3> QED BY <3>1, <3>2, <3>3, <3>4
  <2> QED BY <1>2, <1>3, <2>1, NewestStays DEF FrameSyncInv
<1> QED BY <1>3, <1>7, <1>9, <1>10, <1>11, <1>12 DEF FrameSyncInv

\* stop() of the syncer
LEMMA StopStep ==
    ASSUME FrameSyncInv, Stop
    PROVE  FrameSyncInv'
<1>1. /\ active /\ active' = FALSE /\ stops' \in {NbStream, 0}
      /\ UNCHANGED <<source, thread, mutex, callbackMutex, matches, ready, shown>>
      /\ UNCHANGED <<known, queues, lively, expected, lastArrived>>
  BY DEF Stop, frameVars
<1>2. TypeOK'
  <2>1. stops' \in 0 .. NbStream
    BY <1>1, FrameSyncAssumption
  <2> QED BY <1>1, <2>1 DEF FrameSyncInv, TypeOK
<1>3. MutexHeld' /\ QueuesOpen' /\ HeldBriefly'
  BY <1>1 DEF FrameSyncInv, MutexHeld, Dispatching, QueuesOpen, HeldBriefly, AtRest
<1>4. /\ QueuesInOrder' /\ MatchesInOrder' /\ StagesInOrder' /\ SetsAreTight'
      /\ \A t \in Streams : Stamps(t)' = Stamps(t)
  BY <1>1, FramesStay
<1>5. NewestLast'
  <2>1. \A t \in Streams : Bringing(t)' => Bringing(t)
    BY <1>1 DEF Bringing
  <2> QED BY <1>1, <1>4, <2>1, NewestStays DEF FrameSyncInv
<1> QED BY <1>2, <1>3, <1>4, <1>5 DEF FrameSyncInv

\* and of the matcher's queues.
LEMMA StopMatcherStep ==
    ASSUME FrameSyncInv, StopMatcher
    PROVE  FrameSyncInv'
<1>1. /\ stops > 0 /\ stops' = stops - 1
      /\ queues' = [s \in Streams |-> IF s \in known THEN Stopped(queues[s]) ELSE queues[s]]
      /\ UNCHANGED <<source, thread, mutex, callbackMutex, active, known, lively,
                     expected, lastArrived, matches, ready, shown>>
  BY DEF StopMatcher
<1>2. TypeOK /\ QueuesOpen /\ ~active /\ stops \in 0 .. NbStream
  <2>1. TypeOK /\ QueuesOpen
    BY DEF FrameSyncInv
  <2>2. stops \in 0 .. NbStream
    BY <2>1 DEF TypeOK
  <2>3. active => stops = 0
    BY <2>1 DEF QueuesOpen
  <2> QED BY <1>1, <2>1, <2>2, <2>3
<1>3. ASSUME NEW t \in Streams
      PROVE  /\ queues'[t] \in [items : Seq(Frames), accepting : BOOLEAN]
             /\ queues'[t].items = <<>>
  <2>1. CASE t \in known
    <3>1. <<>> \in Seq(Frames)
      OBVIOUS
    <3> QED BY <1>1, <2>1, <3>1 DEF Stopped
  <2>2. CASE t \notin known
    BY <1>1, <1>2, <2>2 DEF QueuesOpen, TypeOK
  <2> QED BY <2>1, <2>2
<1>4. queues' \in [Streams -> [items : Seq(Frames), accepting : BOOLEAN]]
  <2>1. queues' = [t \in Streams |-> queues'[t]]
    BY <1>1
  <2> QED BY <1>3, <2>1
<1>5. DOMAIN <<>> = {} /\ Len(<<>>) = 0
  OBVIOUS
<1>6. TypeOK'
  <2>1. stops' \in 0 .. NbStream
    BY <1>1, <1>2, FrameSyncAssumption
  <2>2. \A t \in Streams : Len(queues'[t].items) <= QUEUE_MAX_SIZE
    BY <1>3, <1>5, FrameSyncAssumption
  <2> QED BY <1>1, <1>2, <1>4, <2>1, <2>2 DEF TypeOK
<1>7. MutexHeld' /\ QueuesOpen' /\ HeldBriefly'
  BY <1>1, <1>2, <1>3 DEF FrameSyncInv, MutexHeld, Dispatching, QueuesOpen, HeldBriefly, AtRest
<1>8. Published' = Published
  BY <1>1 DEF Published
<1>9. QueuesInOrder' /\ MatchesInOrder' /\ SetsAreTight'
  BY <1>1, <1>3, <1>5, <1>8 DEF FrameSyncInv, QueuesInOrder, MatchesInOrder, Earlier, SetsAreTight
<1>10. StagesInOrder'
  <2>1. \A m \in Published : \A f \in m : f.stream \in Streams /\ shown[f.stream] < f.ts
    BY <1>2, QueueTypes DEF FrameSyncInv, StagesInOrder
  <2> QED BY <1>1, <1>3, <1>5, <1>8, <2>1 DEF StagesInOrder
<1>11. NewestLast'
  <2>1. \A t \in Streams : Stamps(t)' \subseteq Stamps(t)
    BY <1>1, <1>3, <1>5, <1>8 DEF Stamps
  <2>2. \A t \in Streams : Bringing(t)' => Bringing(t)
    BY <1>1 DEF Bringing
  <2> QED BY <1>1, <2>1, <2>2, NewestStays DEF FrameSyncInv
<1> QED BY <1>6, <1>7, <1>9, <1>10, <1>11 DEF FrameSyncInv

\* Every step keeps the invariant.
LEMMA StepInv ==
    ASSUME FrameSyncInv, [Next]_vars
    PROVE  FrameSyncInv'
<1>1. ASSUME NEW s \in Streams, Sync(s)
      PROVE  FrameSyncInv'
  BY <1>1, SyncWaits, SyncReleases
<1>2. CASE Next
  BY <1>1, <1>2, ArriveStep, FindStep, EnqueueStep, TryCallbackStep, TryDequeueStep,
     FrameReadyStep, StopStep, StopMatcherStep DEF Next
<1>3. CASE UNCHANGED vars
  <2>1. UNCHANGED <<source, thread, mutex, callbackMutex, active, stops, known, queues,
                    lively, expected, lastArrived, matches, ready, shown>>
    BY <1>3 DEF vars
  <2>2. TypeOK' /\ MutexHeld' /\ QueuesOpen'
    BY <2>1 DEF FrameSyncInv, TypeOK, MutexHeld, Dispatching, QueuesOpen
  <2>3. HeldBriefly'
    BY <2>1 DEF FrameSyncInv, HeldBriefly, AtRest, Arrived, Missing
  <2>4. /\ QueuesInOrder' /\ MatchesInOrder' /\ StagesInOrder' /\ SetsAreTight'
        /\ \A t \in Streams : Stamps(t)' = Stamps(t)
    BY <2>1, FramesStay
  <2>5. NewestLast'
    <3>1. \A t \in Streams : Bringing(t)' => Bringing(t)
      BY <2>1 DEF Bringing
    <3> QED BY <2>1, <2>4, <3>1, NewestStays DEF FrameSyncInv
  <2> QED BY <2>2, <2>3, <2>4, <2>5 DEF FrameSyncInv
<1> QED BY <1>2, <1>3

-----------------------------------------------------------------------------
(* The theorems.                                                           *)

\* Whatever the threads of the streams, the hand-out of matches and stop() do
\* to the syncer's matcher (composite_matcher), the invariant holds.
LEMMA FrameSyncInvariant == Spec => []FrameSyncInv
<1>1. Init => FrameSyncInv
  BY InitInv
<1>2. FrameSyncInv /\ [Next]_vars => FrameSyncInv'
  BY StepInv
<1> QED BY <1>1, <1>2, PTL DEF Spec

\* Every set composite_matcher::sync releases has one frame of a stream at
\* most, and all its frames belong to one of them (are_equivalent).
THEOREM ReleasedSetsAreTight == Spec => []SetsAreTight
<1>1. FrameSyncInv => SetsAreTight
  BY DEF FrameSyncInv
<1> QED BY <1>1, FrameSyncInvariant, PTL

\* When dispatch is over, sync() holds a frame only for a stream that it has
\* not given up and that is late by less than the cutout (skip_missing_stream).
THEOREM FramesAreHeldBriefly == Spec => []HeldBriefly
<1>1. FrameSyncInv => HeldBriefly
  BY DEF FrameSyncInv
<1> QED BY <1>1, FrameSyncInvariant, PTL

\* No frame of the syncer is in two places or handed out twice, and none after
\* a later one of its stream.
THEOREM FramesGoOutOnce == Spec => []OnceOnly
<1>1. FrameSyncInv => OnceOnly
  <2> SUFFICES ASSUME FrameSyncInv
               PROVE  OnceOnly
    OBVIOUS
  <2>1. TypeOK /\ QueuesInOrder /\ StagesInOrder
    BY DEF FrameSyncInv
  <2>2. ASSUME NEW s \in Streams, NEW i \in DOMAIN queues[s].items
        PROVE  /\ queues[s].items[i].ts > shown[s]
               /\ \A m \in Published : queues[s].items[i] \notin m
    <3>1. shown[s] < queues[s].items[i].ts /\ shown[s] \in Int /\ queues[s].items[i].ts \in Nat
      BY <2>1, QueueTypes DEF StagesInOrder, TypeOK
    <3>2. ASSUME NEW m \in Published, queues[s].items[i] \in m
          PROVE  FALSE
      <4> DEFINE f == queues[s].items[i]
      <4>1. f.stream = s /\ f.ts \in Nat
        BY <2>1, <3>1 DEF QueuesInOrder
      <4>2. f.ts < f.ts
        BY <2>1, <3>2, <4>1 DEF StagesInOrder
      <4> QED BY <4>1, <4>2
    <3> QED BY <3>1, <3>2
  <2>3. ASSUME NEW m \in Published, NEW f \in m
        PROVE  f.ts > shown[f.stream]
    <3>1. f.stream \in Streams /\ f.ts \in Nat
      BY <2>1, QueueTypes
    <3>2. shown[f.stream] \in Int /\ shown[f.stream] < f.ts
      BY <2>1, <3>1 DEF TypeOK, StagesInOrder
    <3> QED BY <3>1, <3>2
  <2> QED BY <2>1, <2>2, <2>3 DEF OnceOnly
<1> QED BY <1>1, FrameSyncInvariant, PTL

\* Whatever the rates of the streams, a set that sync() releases passes over an
\* earlier frame only when that is of a slower stream, and in sync with the set.
THEOREM OnlySlowerArePassed == Spec => PassesOnlySlower
<1> USE FrameSyncAssumption
<1> DEFINE A == \A s, t \in Streams :
                  s \in Arrived /\ Len(queues'[s].items) < Len(queues[s].items)
                                /\ queues'[s].accepting
                  /\ t \in Arrived /\ queues'[t] = queues[t]
                      => \E u \in Arrived : queues'[u] # queues[u] /\ MayPass(First(u), First(t))
<1>1. ASSUME FrameSyncInv, [Next]_vars
      PROVE  [A]_queues
  <2> SUFFICES ASSUME NEW s \in Streams, NEW t \in Streams, queues' # queues,
                      s \in Arrived, Len(queues'[s].items) < Len(queues[s].items),
                      queues'[s].accepting, t \in Arrived, queues'[t] = queues[t]
               PROVE  \E u \in Arrived : queues'[u] # queues[u] /\ MayPass(First(u), First(t))
    OBVIOUS
  <2>1. TypeOK /\ QueuesInOrder /\ QueuesOpen
    BY <1>1 DEF FrameSyncInv
  <2>2. /\ queues[s] \in [items : Seq(Frames), accepting : BOOLEAN]
        /\ Len(queues[s].items) \in Nat /\ Len(queues[s].items) <= QUEUE_MAX_SIZE
    BY <2>1, QueueTypes
  <2>3. ASSUME NEW r \in Streams, Find(r)
        PROVE  FALSE
    <3>1. queues'[s].items = queues[s].items
      <4>1. CASE s = r /\ s \in known
        BY <2>1, <2>2, <2>3, <4>1 DEF Find, Started, TypeOK
      <4>2. CASE s \notin known
        BY <4>2 DEF Arrived
      <4>3. CASE s # r
        BY <2>1, <2>3, <4>3 DEF Find, TypeOK
      <4> QED BY <4>1, <4>2, <4>3
    <3> QED BY <2>2, <3>1
  <2>4. ASSUME NEW r \in Streams, Enqueue(r)
        PROVE  FALSE
    <3>1. queues' = [queues EXCEPT ![r] = Enqueued(Queued(r), QUEUE_MAX_SIZE, Frame(r, lastArrived))]
      BY <2>4 DEF Enqueue
    <3>2. CASE s # r
      BY <2>1, <2>2, <3>1, <3>2 DEF TypeOK
    <3>3. CASE s = r
      <4>1. Queued(r) = queues[s]
        BY <3>3 DEF Arrived, Queued
      <4> DEFINE x == Frame(r, lastArrived)
      <4>2. x \in Frames
        BY <2>1 DEF Frame, Frames, TypeOK
      <4>3. queues'[s] = Enqueued(queues[s], QUEUE_MAX_SIZE, x)
        BY <2>1, <3>1, <3>3, <4>1 DEF TypeOK
      <4> HIDE DEF x
      <4>4. CASE ~queues[s].accepting
        BY <2>2, <4>3, <4>4 DEF Enqueued
      <4>5. CASE queues[s].accepting
        <5> DEFINE q == queues[s]
                   r2 == Enqueued(q, QUEUE_MAX_SIZE, x)
        <5>1. /\ r2 \in [items : Seq(Frames), accepting : BOOLEAN]
              /\ Len(r2.items) >= Len(q.items)
          BY <2>2, <4>2, <4>5, EnqueuedIs
        <5>2. r2.items \in Seq(Frames)
          BY <5>1
        <5>3. queues'[s] = r2
          BY <4>3
        <5> HIDE DEF r2
        <5>4. Len(r2.items) \in Nat
          BY <5>2, LenProperties
        <5> QED BY <2>2, <5>1, <5>3, <5>4
      <4> QED BY <4>4, <4>5
    <3> QED BY <3>2, <3>3
  <2>5. ASSUME NEW r \in Streams, Sync(r)
        PROVE  \E u \in Arrived : queues'[u] # queues[u] /\ MayPass(First(u), First(t))
    <3> DEFINE found == Scan
               go == /\ found.synced # {}
                     /\ found.rest \/ ~\E m \in Missing : WaitsFor(found.by, m)
               taken == found.synced
    <3>1. queues' = [v \in Streams |-> IF go /\ v \in taken THEN Dequeued(queues[v]) ELSE queues[v]]
      BY <2>5 DEF Sync
    <3>2. go
      <4> SUFFICES ASSUME ~go
                   PROVE  FALSE
        OBVIOUS
      <4> HIDE DEF go
      <4>1. queues'[s] = queues[s]
        BY <3>1
      <4> QED BY <2>2, <4>1
    <3>3. queues' = [v \in Streams |-> IF v \in taken THEN Dequeued(queues[v]) ELSE queues[v]]
      <4> HIDE DEF go, taken
      <4> QED BY <3>1, <3>2
    <3>4. taken \in SUBSET Arrived /\ taken # {}
          /\ \A v \in Arrived \ taken : MayPass(found.by, First(v))
      BY <2>1, <3>2, ScanResult
    <3>5. PICK b \in taken : found.by = First(b)
      BY <2>1, <3>4, ScanResult
    <3> HIDE DEF found, taken
    <3>6. \A v \in taken : Len(queues'[v].items) < Len(queues[v].items)
      BY <2>1, <3>3, <3>4, TakenIs
    <3>7. \A v \in taken : queues'[v] # queues[v]
      <4> SUFFICES ASSUME NEW v \in taken, queues'[v] = queues[v]
                   PROVE  FALSE
        OBVIOUS
      <4>1. queues[v].items \in Seq(Frames)
        BY <2>1, <3>4, QueueTypes DEF TypeOK, Arrived
      <4>2. Len(queues[v].items) \in Nat
        BY <4>1, LenProperties
      <4>3. Len(queues[v].items) < Len(queues[v].items)
        BY <3>6
      <4> QED BY <4>2, <4>3
    <3>8. t \notin taken
      BY <3>7
    <3> QED BY <3>4, <3>5, <3>7, <3>8
  <2>6. ASSUME StopMatcher
        PROVE  FALSE
    BY <2>6 DEF StopMatcher, Stopped, Arrived
  <2>7. ASSUME NEW r \in Streams, Arrive(r) \/ TryCallback(r) \/ TryDequeue(r) \/ FrameReady(r) \/ Leave(r)
        PROVE  FALSE
    BY <2>7 DEF Arrive, TryCallback, TryDequeue, FrameReady, Leave, frameVars
  <2>8. CASE Stop \/ UNCHANGED vars
    BY <2>8 DEF Stop, frameVars, vars
  <2> QED BY <1>1, <2>3, <2>4, <2>5, <2>6, <2>7, <2>8 DEF Next
<1>2. Spec => [][A]_queues
  BY <1>1, FrameSyncInvariant, PTL DEF Spec
<1> QED BY <1>2 DEF PassesOnlySlower
=============================================================================
