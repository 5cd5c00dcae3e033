-------------------------- MODULE DispatcherProofs --------------------------
(***************************************************************************)
(* Proofs about the dispatcher, for any number of callers and calls, any   *)
(* capacity and any way of calling: actions run in the order of their      *)
(* caller, invoke_and_wait is synchronous, and stop() leaves nothing.      *)
(***************************************************************************)
EXTENDS Dispatcher, SequenceTheorems, TLAPS

\* The actions of a sequence, and that those of a caller are in its order.
Items(s) == {s[i] : i \in DOMAIN s}
Ordered(s) ==
    \A i, j \in DOMAIN s : i < j /\ s[i].by = s[j].by => s[i].call < s[j].call

\* The caller is in a call and has not queued its action yet.
Entering(t) == caller[t].at \in {"entered", "room", "no_room"}

\* The worker holds an action from dequeue to the end of the action.
WorkerHolds ==
    worker.item = NoAction <=> worker.at \in {"loop", "wait_start", "wait_item", "exit"}

\* A call has a number; who waits for room does not wait for the action; done
\* is set after the action was queued.
CallPlaces ==
    \A t \in Callers :
        /\ caller[t].at # "idle" => caller[t].call >= 1
        /\ caller[t].at \in {"room", "no_room"} => caller[t].mode # "waiting"
        /\ caller[t].done => ~Entering(t)

\* The actions of a caller are queued in the order of its calls, after the one
\* that the worker holds.
QueueOrder ==
    /\ Ordered(queue.items)
    /\ worker.item # NoAction =>
         \A a \in Items(queue.items) :
            worker.item.by = a.by => worker.item.call < a.call

\* Every pending action belongs to a call that its caller has made; the call
\* that a caller is about to queue is later.
CallsMade ==
    \A a \in Pending :
        /\ a.call <= caller[a.by].call
        /\ Entering(a.by) => a.call < caller[a.by].call

\* After stop() the queue takes nothing; before the first start() it would,
\* but no caller has entered.
Stopping ==
    /\ owner.at \in {"stopping", "stop_flag", "joining", "gone"} =>
            queue.items = <<>> /\ ~queue.accepting
    /\ owner.at = "starting" => ~stopped
    /\ stopped /\ owner.at = "idle" =>
            /\ queue.items = <<>>
            /\ queue.accepting => \A t \in Callers : ~Entering(t)

DispatcherInv ==
    /\ TypeOK
    /\ WorkerHolds
    /\ CallPlaces
    /\ QueueOrder
    /\ CallsMade
    /\ WaitIsSynchronous
    /\ Stopping

-----------------------------------------------------------------------------
(* The queue and the callers, as the steps change them.                    *)

\* A later action of its caller may be queued last.
LEMMA AppendKeepsOrder ==
    ASSUME NEW s \in Seq(Actions), NEW x \in Actions, Ordered(s),
           \A a \in Items(s) : a.by = x.by => a.call < x.call
    PROVE  /\ Append(s, x) \in Seq(Actions)
           /\ Len(Append(s, x)) = Len(s) + 1
           /\ Ordered(Append(s, x))
           /\ Items(Append(s, x)) = Items(s) \cup {x}
<1> DEFINE t == Append(s, x)
<1>1. /\ t \in Seq(Actions) /\ Len(t) = Len(s) + 1
      /\ \A i \in 1 .. Len(s) : t[i] = s[i]
      /\ t[Len(s) + 1] = x
  BY AppendProperties
<1>2. /\ Len(s) \in Nat /\ DOMAIN s = 1 .. Len(s)
      /\ DOMAIN t = 1 .. Len(s) + 1
  BY <1>1, LenProperties
<1>3. Items(t) = Items(s) \cup {x}
  <2>1. \A i \in DOMAIN t : t[i] \in Items(s) \cup {x}
    BY <1>1, <1>2 DEF Items
  <2>2. \A i \in DOMAIN s : s[i] \in Items(t)
    BY <1>1, <1>2 DEF Items
  <2>3. x \in Items(t)
    BY <1>1, <1>2 DEF Items
  <2> QED BY <2>1, <2>2, <2>3 DEF Items
<1>4. ASSUME NEW i \in DOMAIN t, NEW j \in DOMAIN t, i < j, t[i].by = t[j].by
      PROVE  t[i].call < t[j].call
  <2>1. i \in DOMAIN s /\ t[i] = s[i] /\ s[i] \in Items(s)
    BY <1>1, <1>2, <1>4 DEF Items
  <2>2. CASE j = Len(s) + 1
    BY <1>1, <1>4, <2>1, <2>2
  <2>3. CASE j \in DOMAIN s
    BY <1>1, <1>2, <1>4, <2>1, <2>3 DEF Ordered
  <2> QED BY <1>2, <2>2, <2>3
<1> QED BY <1>1, <1>3, <1>4 DEF Ordered

\* Taking or dropping the first action keeps the order.
LEMMA TailKeepsOrder ==
    ASSUME NEW s \in Seq(Actions), s # <<>>, Ordered(s)
    PROVE  /\ Tail(s) \in Seq(Actions)
           /\ Len(Tail(s)) = Len(s) - 1
           /\ Ordered(Tail(s))
           /\ Head(s) \in Actions
           /\ Items(s) = {Head(s)} \cup Items(Tail(s))
           /\ \A a \in Items(Tail(s)) : Head(s).by = a.by => Head(s).call < a.call
<1> DEFINE t == Tail(s)
<1>1. /\ t \in Seq(Actions) /\ Len(t) = Len(s) - 1
      /\ Head(s) \in Actions
      /\ \A i \in 1 .. Len(t) : t[i] = s[i + 1]
  BY HeadTailProperties
<1>2. /\ Len(s) \in Nat \ {0} /\ DOMAIN s = 1 .. Len(s)
      /\ DOMAIN t = 1 .. Len(s) - 1
  BY <1>1, LenProperties, EmptySeq
<1>3. Head(s) = s[1]
  BY <1>1
<1>4. \A i \in DOMAIN t : i + 1 \in DOMAIN s /\ t[i] = s[i + 1]
  BY <1>1, <1>2
<1>5. Items(s) = {Head(s)} \cup Items(t)
  <2>1. \A i \in DOMAIN s : i = 1 \/ (i - 1 \in DOMAIN t /\ t[i - 1] = s[i])
    BY <1>1, <1>2
  <2>2. \A i \in DOMAIN s : s[i] \in {Head(s)} \cup Items(t)
    BY <2>1, <1>3 DEF Items
  <2>3. \A i \in DOMAIN t : t[i] \in Items(s)
    BY <1>4 DEF Items
  <2>4. Head(s) \in Items(s)
    BY <1>2, <1>3 DEF Items
  <2> QED BY <2>2, <2>3, <2>4 DEF Items
<1>6. Ordered(t)
  BY <1>2, <1>4 DEF Ordered
<1>7. \A i \in DOMAIN t : s[1].by = t[i].by => s[1].call < t[i].call
  BY <1>2, <1>4 DEF Ordered
<1>8. \A a \in Items(t) : Head(s).by = a.by => Head(s).call < a.call
  BY <1>3, <1>7 DEF Items
<1> QED BY <1>1, <1>5, <1>6, <1>8

\* The queue with other items in it.
LEMMA QueueWithItems ==
    ASSUME NEW q \in [items : Seq(Actions), accepting : BOOLEAN], NEW s \in Seq(Actions)
    PROVE  /\ [q EXCEPT !.items = s] \in [items : Seq(Actions), accepting : BOOLEAN]
           /\ [q EXCEPT !.items = s].items = s
           /\ [q EXCEPT !.items = s].accepting = q.accepting
OBVIOUS

\* A wake-up moves the sleepers of one condition variable and no one else.
LEMMA NotifiedCallers ==
    ASSUME TypeOK, NEW woken, woken \subseteq RoomSleepers \/ woken \subseteq DoneSleepers
    PROVE  /\ Notified(woken) \in [Callers -> [at : CallerPlaces, call : 0 .. MaxCalls,
                                               mode : Modes, done : BOOLEAN]]
           /\ \A t \in Callers :
                /\ Notified(woken)[t].call = caller[t].call
                /\ Notified(woken)[t].mode = caller[t].mode
                /\ Notified(woken)[t].done = caller[t].done
                /\ \/ Notified(woken)[t].at = caller[t].at
                   \/ caller[t].at = "no_room" /\ Notified(woken)[t].at = "room"
                   \/ caller[t].at = "asleep" /\ Notified(woken)[t].at = "waiting"
<1> DEFINE C == [at : CallerPlaces, call : 0 .. MaxCalls, mode : Modes, done : BOOLEAN]
<1>1. \A t \in Callers : caller[t] \in C
  BY DEF TypeOK
<1>2. /\ "room" \in CallerPlaces /\ "waiting" \in CallerPlaces
      /\ \A t \in woken : caller[t].at = "no_room" \/ caller[t].at = "asleep"
  BY DEF CallerPlaces, RoomSleepers, DoneSleepers
<1>3. ASSUME NEW t \in Callers
      PROVE  /\ Notified(woken)[t] \in C
             /\ Notified(woken)[t].call = caller[t].call
             /\ Notified(woken)[t].mode = caller[t].mode
             /\ Notified(woken)[t].done = caller[t].done
             /\ \/ Notified(woken)[t].at = caller[t].at
                \/ caller[t].at = "no_room" /\ Notified(woken)[t].at = "room"
                \/ caller[t].at = "asleep" /\ Notified(woken)[t].at = "waiting"
  <2>1. CASE t \notin woken
    <3>1. Notified(woken)[t] = caller[t]
      BY <2>1 DEF Notified
    <3> QED BY <1>1, <3>1
  <2>2. CASE t \in woken
    <3>1. Notified(woken)[t] = [caller[t] EXCEPT
             !.at = IF caller[t].at = "no_room" THEN "room" ELSE "waiting"]
      BY <2>2 DEF Notified
    <3> QED BY <1>1, <1>2, <2>2, <3>1
  <2> QED BY <2>1, <2>2
<1>4. Notified(woken) = [t \in Callers |-> Notified(woken)[t]]
  BY DEF Notified
<1> QED BY <1>3, <1>4

\* What each step does to the callers, in terms the invariant speaks of.
LEMMA ToldCallers ==
    ASSUME TypeOK, NEW a \in Actions, NEW woken, woken \subseteq DoneSleepers
    PROVE  /\ Told(a, woken) \in [Callers -> [at : CallerPlaces, call : 0 .. MaxCalls,
                                              mode : Modes, done : BOOLEAN]]
           /\ \A t \in Callers :
                /\ Told(a, woken)[t].call = caller[t].call
                /\ Told(a, woken)[t].mode = caller[t].mode
                /\ Told(a, woken)[t].done =
                     (caller[t].done \/ (/\ t = a.by /\ caller[t].call = a.call
                                         /\ caller[t].at # "idle"))
                /\ \/ Told(a, woken)[t].at = caller[t].at
                   \/ caller[t].at = "asleep" /\ Told(a, woken)[t].at = "waiting"
<1> DEFINE done(t) == t = a.by /\ caller[t].call = a.call /\ caller[t].at # "idle"
           N == Notified(woken)
           C == [at : CallerPlaces, call : 0 .. MaxCalls, mode : Modes, done : BOOLEAN]
<1>1. /\ N \in [Callers -> C]
      /\ \A t \in Callers :
           /\ N[t].call = caller[t].call /\ N[t].mode = caller[t].mode
           /\ N[t].done = caller[t].done
           /\ N[t].at = caller[t].at \/ (caller[t].at = "asleep" /\ N[t].at = "waiting")
  <2>1. \A t \in Callers : caller[t].at = "no_room" => N[t] = caller[t]
    BY DEF Notified, DoneSleepers
  <2> QED BY <2>1, NotifiedCallers
<1>2. Told(a, woken) = [t \in Callers |-> [N[t] EXCEPT !.done = @ \/ done(t)]]
  BY DEF Told
<1>3. ASSUME NEW t \in Callers
      PROVE  /\ Told(a, woken)[t] \in C
             /\ Told(a, woken)[t].call = N[t].call /\ Told(a, woken)[t].mode = N[t].mode
             /\ Told(a, woken)[t].at = N[t].at
             /\ Told(a, woken)[t].done = (N[t].done \/ done(t))
  <2> DEFINE d == N[t].done \/ done(t)
  <2>1. Told(a, woken)[t] = [N[t] EXCEPT !.done = d] /\ N[t] \in C
    BY <1>1, <1>2
  <2>2. d \in BOOLEAN
    BY <1>1
  <2> HIDE DEF d, N
  <2>3. /\ [N[t] EXCEPT !.done = d] \in C
        /\ [N[t] EXCEPT !.done = d].call = N[t].call
        /\ [N[t] EXCEPT !.done = d].mode = N[t].mode
        /\ [N[t] EXCEPT !.done = d].at = N[t].at
        /\ [N[t] EXCEPT !.done = d].done = d
    BY <2>1, <2>2
  <2> QED BY <2>1, <2>3 DEF d, N
<1>4. Told(a, woken) \in [Callers -> C]
  BY <1>2, <1>3
<1> QED BY <1>1, <1>3, <1>4

-----------------------------------------------------------------------------
(* The steps keep the types.                                               *)
LEMMA TypeStep ==
    ASSUME TypeOK, WorkerHolds, CallPlaces, QueueOrder, [Next]_vars
    PROVE  TypeOK'
<1> USE DispatcherAssumption
<1>1. ASSUME NEW t \in Callers, caller[t].at \in {"entered", "room"}
      PROVE  ActionOf(t) \in Actions
  BY <1>1 DEF TypeOK, CallPlaces, ActionOf, Actions
<1>2. ASSUME NEW t \in Callers, NEW place \in CallerPlaces, GoesTo(t, place)
      PROVE  caller' \in [Callers -> [at : CallerPlaces, call : 0 .. MaxCalls,
                                      mode : Modes, done : BOOLEAN]]
  BY <1>2 DEF TypeOK, GoesTo
<1>3. ASSUME NEW t \in Callers, Invoke(t) PROVE TypeOK'
  <2>1. PICK m \in May[t] : caller' = [caller EXCEPT ![t] =
            [at |-> IF ~stopped THEN IF m \in {"blocking", "flush"} THEN "room" ELSE "entered"
                    ELSE IF m = "waiting" THEN "waiting" ELSE "idle",
             call |-> caller[t].call + 1, mode |-> m, done |-> FALSE]]
    BY <1>3 DEF Invoke
  <2>2. m \in Modes
    BY DEF Modes
  <2>3. caller[t].call + 1 \in 0 .. MaxCalls
    BY <1>3 DEF Invoke, TypeOK
  <2>4. caller' \in [Callers -> [at : CallerPlaces, call : 0 .. MaxCalls,
                                 mode : Modes, done : BOOLEAN]]
    BY <2>1, <2>2, <2>3 DEF TypeOK, CallerPlaces
  <2> QED BY <1>3, <2>4 DEF Invoke, TypeOK
<1>4. ASSUME NEW t \in Callers, Enqueue(t) PROVE TypeOK'
  <2>1. ActionOf(t) \in Actions
    BY <1>1, <1>4 DEF Enqueue
  <2>2. /\ queue' \in [items : Seq(Actions), accepting : BOOLEAN]
        /\ Len(queue'.items) <= Cap
    <3> DEFINE s == queue.items
    <3>1. /\ s \in Seq(Actions) /\ queue.accepting \in BOOLEAN /\ Len(s) <= Cap
          /\ queue' = Enqueued(queue, Cap, ActionOf(t))
      BY <1>4 DEF Enqueue, TypeOK
    <3>2. Append(s, ActionOf(t)) \in Seq(Actions) /\ Len(Append(s, ActionOf(t))) = Len(s) + 1
      BY <2>1, <3>1, AppendProperties
    <3>3. CASE ~queue.accepting
      BY <3>1, <3>3 DEF Enqueued, TypeOK
    <3>4. CASE queue.accepting /\ Len(s) < Cap
      <4>1. queue' = [queue EXCEPT !.items = Append(s, ActionOf(t))]
        BY <3>1, <3>4 DEF Enqueued, HasRoom
      <4> HIDE DEF s
      <4>2. /\ queue' \in [items : Seq(Actions), accepting : BOOLEAN]
            /\ queue'.items = Append(s, ActionOf(t))
        BY <3>2, <4>1, QueueWithItems DEF TypeOK
      <4> QED BY <3>1, <3>2, <3>4, <4>2, LenProperties
    <3>5. CASE queue.accepting /\ ~(Len(s) < Cap)
      <4>1. queue' = [queue EXCEPT !.items = Append(Tail(s), ActionOf(t))]
        BY <3>1, <3>5 DEF Enqueued, HasRoom
      <4>2. s # <<>> /\ Tail(s) \in Seq(Actions) /\ Len(Tail(s)) = Len(s) - 1
        BY <3>1, <3>5, EmptySeq, HeadTailProperties
      <4>3. /\ Append(Tail(s), ActionOf(t)) \in Seq(Actions)
            /\ Len(Append(Tail(s), ActionOf(t))) = Len(s)
        BY <2>1, <3>1, <4>2, AppendProperties
      <4>4. /\ queue' \in [items : Seq(Actions), accepting : BOOLEAN]
            /\ queue'.items = Append(Tail(s), ActionOf(t))
        BY <4>1, <4>3, QueueWithItems DEF TypeOK
      <4> QED BY <3>1, <4>3, <4>4
    <3> QED BY <3>1, <3>3, <3>4, <3>5
  <2>3. caller' \in [Callers -> [at : CallerPlaces, call : 0 .. MaxCalls,
                                 mode : Modes, done : BOOLEAN]]
    BY <1>2, <1>4 DEF Enqueue, CallerPlaces
  <2> QED BY <1>4, <2>2, <2>3 DEF Enqueue, TypeOK
<1>5. ASSUME NEW t \in Callers, BlockingEnqueue(t) PROVE TypeOK'
  <2>1. ActionOf(t) \in Actions
    BY <1>1, <1>5 DEF BlockingEnqueue
  <2>2. /\ queue' \in [items : Seq(Actions), accepting : BOOLEAN]
        /\ Len(queue'.items) <= Cap
    <3> DEFINE s == Append(queue.items, ActionOf(t))
    <3>1. s \in Seq(Actions) /\ Len(s) = Len(queue.items) + 1 /\ Len(queue.items) \in Nat
      BY <2>1, AppendProperties, LenProperties DEF TypeOK
    <3>2. \/ queue' = queue
          \/ Len(queue.items) < Cap /\ queue' = [queue EXCEPT !.items = s]
      BY <1>5 DEF BlockingEnqueue, Added, HasRoom
    <3> HIDE DEF s
    <3>3. CASE queue' = queue
      BY <3>3 DEF TypeOK
    <3>4. CASE Len(queue.items) < Cap /\ queue' = [queue EXCEPT !.items = s]
      <4>1. queue' \in [items : Seq(Actions), accepting : BOOLEAN] /\ queue'.items = s
        BY <3>1, <3>4, QueueWithItems DEF TypeOK
      <4> QED BY <3>1, <3>4, <4>1
    <3> QED BY <3>2, <3>3, <3>4
  <2>3. caller' \in [Callers -> [at : CallerPlaces, call : 0 .. MaxCalls,
                                 mode : Modes, done : BOOLEAN]]
    BY <1>2, <1>5 DEF BlockingEnqueue, CallerPlaces
  <2> QED BY <1>5, <2>2, <2>3 DEF BlockingEnqueue, TypeOK
<1>6. ASSUME NEW t \in Callers, Wait(t) \/ Flushed(t) PROVE TypeOK'
  <2>1. caller' \in [Callers -> [at : CallerPlaces, call : 0 .. MaxCalls,
                                 mode : Modes, done : BOOLEAN]]
    BY <1>2, <1>6 DEF Wait, Flushed, CallerPlaces
  <2> QED BY <1>6, <2>1 DEF Wait, Flushed, TypeOK
<1>7. CASE Quit
  BY <1>7 DEF Quit, TypeOK
<1>8. CASE Loop \/ WaitForStart \/ Dispatch \/ TrySleep \/ WakeUp \/ WorkerTimeout
  BY <1>8 DEF Loop, WaitForStart, Dispatch, TrySleep, WakeUp, WorkerTimeout, Moved,
              TypeOK, WorkerPlaces
<1>9. CASE Dequeue
  <2>1. CASE queue.items = <<>>
    BY <1>9, <2>1 DEF Dequeue, TypeOK, WorkerPlaces
  <2>2. CASE queue.items # <<>>
    <3>1. /\ Tail(queue.items) \in Seq(Actions) /\ Head(queue.items) \in Actions
          /\ Len(Tail(queue.items)) = Len(queue.items) - 1
          /\ Len(queue.items) \in Nat
      BY <2>2, TailKeepsOrder DEF TypeOK, QueueOrder
    <3>2. /\ queue' = [queue EXCEPT !.items = Tail(queue.items)]
          /\ worker' = [at |-> "taken", item |-> Head(queue.items)]
      BY <1>9, <2>2 DEF Dequeue, Dequeued, TypeOK
    <3>3. caller' \in [Callers -> [at : CallerPlaces, call : 0 .. MaxCalls,
                                   mode : Modes, done : BOOLEAN]]
      <4>1. PICK woken \in One(RoomSleepers) : caller' = Notified(woken)
        BY <1>9, <2>2 DEF Dequeue
      <4>2. woken \subseteq RoomSleepers
        BY <4>1 DEF One
      <4> QED BY <4>1, <4>2, NotifiedCallers
    <3>4. queue' \in [items : Seq(Actions), accepting : BOOLEAN] /\ Len(queue'.items) <= Cap
      <4>1. /\ queue' \in [items : Seq(Actions), accepting : BOOLEAN]
            /\ queue'.items = Tail(queue.items)
        BY <3>1, <3>2, QueueWithItems DEF TypeOK
      <4> QED BY <3>1, <4>1 DEF TypeOK
    <3>5. worker' \in [at : WorkerPlaces, item : Actions \cup {NoAction}]
      BY <3>1, <3>2 DEF WorkerPlaces
    <3> QED BY <1>9, <3>3, <3>4, <3>5 DEF Dequeue, TypeOK
  <2> QED BY <2>1, <2>2
<1>10. CASE Finish
  <2>1. worker.item \in Actions
    BY <1>10 DEF Finish, TypeOK, WorkerHolds
  <2>2. caller' \in [Callers -> [at : CallerPlaces, call : 0 .. MaxCalls,
                                 mode : Modes, done : BOOLEAN]]
    <3>1. UNCHANGED caller
             \/ \E woken \in SUBSET DoneSleepers : caller' = Told(worker.item, woken)
      BY <1>10 DEF Finish, One
    <3> QED BY <2>1, <3>1, ToldCallers DEF TypeOK
  <2> QED BY <1>10, <2>2 DEF Finish, TypeOK, WorkerPlaces
<1>11. CASE Start \/ StopWait \/ StopFlag \/ Destroy \/ Join
  <2>1. CASE Start
    <3>1. owner.starts + 1 \in 0 .. MaxStarts
      BY <2>1 DEF Start, TypeOK
    <3>2. owner' \in [at : OwnerPlaces, starts : 0 .. MaxStarts, dying : BOOLEAN]
      BY <2>1, <3>1 DEF Start, TypeOK, OwnerPlaces
    <3> QED BY <2>1, <3>2 DEF Start, TypeOK
  <2>2. CASE StopWait
    BY <2>2 DEF StopWait, TypeOK, OwnerPlaces
  <2>3. CASE StopFlag
    BY <2>3 DEF StopFlag, TypeOK, OwnerPlaces
  <2>4. CASE Destroy
    BY <2>4 DEF Destroy, TypeOK, OwnerPlaces
  <2>5. CASE Join
    BY <2>5 DEF Join, TypeOK, OwnerPlaces
  <2> QED BY <1>11, <2>1, <2>2, <2>3, <2>4, <2>5
<1>12. CASE StartQueue
  BY <1>12 DEF StartQueue, Started, TypeOK, OwnerPlaces
<1>13. CASE Stop
  <2>1. caller' \in [Callers -> [at : CallerPlaces, call : 0 .. MaxCalls,
                                 mode : Modes, done : BOOLEAN]]
    BY <1>13, NotifiedCallers DEF Stop
  <2>2. queue' \in [items : Seq(Actions), accepting : BOOLEAN] /\ Len(queue'.items) <= Cap
    BY <1>13 DEF Stop, Stopped
  <2> QED BY <1>13, <2>1, <2>2 DEF Stop, TypeOK, OwnerPlaces
<1>14. CASE UNCHANGED vars
  BY <1>14 DEF vars, TypeOK
<1> QED BY <1>3, <1>4, <1>5, <1>6, <1>7, <1>8, <1>9, <1>10, <1>11, <1>12, <1>13, <1>14 DEF Next

-----------------------------------------------------------------------------
(* The steps keep the order of the calls and the promises of               *)
(* invoke_and_wait and stop().                                             *)

\* Actions not yet run are those of callers.
LEMMA PendingActions ==
    ASSUME TypeOK
    PROVE  \A a \in Pending : a \in Actions /\ a.by \in Callers /\ a.call \in Nat
<1>1. \A i \in DOMAIN queue.items : queue.items[i] \in Actions
  BY ElementOfSeq, LenProperties DEF TypeOK
<1>2. worker.item # NoAction => worker.item \in Actions
  BY DEF TypeOK
<1>3. \A a \in Pending : a \in Actions
  BY <1>1, <1>2 DEF Pending
<1> QED BY <1>3, DispatcherAssumption DEF Actions

\* A step of a caller that only moves: nothing becomes pending.
LEMMA CallerMoves ==
    ASSUME DispatcherInv, TypeOK', NEW t \in Callers,
           Invoke(t) \/ Wait(t) \/ Flushed(t)
    PROVE  DispatcherInv'
<1> USE DispatcherAssumption DEF DispatcherInv
<1>1. UNCHANGED <<queue, stopped, alive, worker, owner, quit>>
  BY DEF Invoke, Wait, Flushed
<1>2. /\ \A u \in Callers : u # t => caller'[u] = caller[u]
      /\ caller'[t].call \in Nat /\ caller[t].call \in Nat
      /\ \/ /\ caller[t].at = "idle" /\ caller'[t].call = caller[t].call + 1
            /\ caller'[t].done = FALSE
            /\ caller'[t].at = "room" => caller'[t].mode # "waiting"
            /\ caller'[t].at # "no_room"
            /\ caller'[t].at \in {"entered", "room"} => ~stopped
         \/ /\ caller[t].at \in {"waiting", "flushing"}
            /\ caller'[t].call = caller[t].call
            /\ caller'[t].mode = caller[t].mode /\ caller'[t].done = caller[t].done
            /\ \/ caller'[t].at = "idle"
                  /\ (caller[t].at = "waiting" => caller[t].done \/ quit)
               \/ caller'[t].at = "asleep" /\ caller[t].at = "waiting"
  <2>1. CASE Invoke(t)
    BY <2>1 DEF Invoke, TypeOK
  <2>2. CASE Wait(t) \/ Flushed(t)
    BY <2>2 DEF Wait, Flushed, GoesTo, TypeOK
  <2> QED BY <2>1, <2>2
<1>3. Pending' = Pending
  BY <1>1 DEF Pending
<1>4. \A a \in Pending : a \in Actions /\ a.by \in Callers /\ a.call \in Nat
  BY PendingActions
<1>5. WorkerHolds' /\ QueueOrder'
  BY <1>1 DEF WorkerHolds, QueueOrder
<1>6. CallPlaces'
  BY <1>2 DEF CallPlaces, Entering
<1>7. CallsMade'
  <2> SUFFICES ASSUME NEW a \in Pending
               PROVE  /\ a.call <= caller'[a.by].call
                      /\ Entering(a.by)' => a.call < caller'[a.by].call
    BY <1>3 DEF CallsMade
  <2>1. a.call <= caller[a.by].call /\ (Entering(a.by) => a.call < caller[a.by].call)
    BY DEF CallsMade
  <2> QED BY <1>2, <1>4, <2>1 DEF Entering
<1>8. WaitIsSynchronous'
  <2>1. WaitIsBarrier'
    BY <1>2, <1>3 DEF WaitIsSynchronous, WaitIsBarrier
  <2>2. ASSUME NEW a \in Pending, a.mode = "waiting", ~quit
        PROVE  caller'[a.by].at \in {"waiting", "asleep"} /\ caller'[a.by].call = a.call
    <3>1. caller[a.by].at \in {"waiting", "asleep"} /\ caller[a.by].call = a.call
      BY <2>2 DEF WaitIsSynchronous, FrameOutlivesAction
    <3>2. ~caller[a.by].done
      BY <1>4 DEF WaitIsSynchronous, WaitIsBarrier
    <3> QED BY <1>2, <1>4, <2>2, <3>1, <3>2
  <2> QED BY <1>1, <1>3, <2>1, <2>2 DEF WaitIsSynchronous, FrameOutlivesAction
<1>9. Stopping'
  BY <1>1, <1>2 DEF Stopping, Entering
<1> QED BY <1>5, <1>6, <1>7, <1>8, <1>9

\* The newcomer is later than all that its caller has pending.
LEMMA ActionIsLast ==
    ASSUME DispatcherInv, NEW t \in Callers, caller[t].at \in {"entered", "room"}
    PROVE  /\ ActionOf(t) \in Actions
           /\ \A a \in Pending : a.by = t => a.call < ActionOf(t).call
<1>1. ActionOf(t) \in Actions
  BY DispatcherAssumption DEF DispatcherInv, TypeOK, CallPlaces, ActionOf, Actions
<1> QED BY <1>1 DEF DispatcherInv, CallsMade, Entering, ActionOf

\* A step that queues an action, or finds no room for it.
LEMMA CallerQueues ==
    ASSUME DispatcherInv, TypeOK', NEW t \in Callers, Enqueue(t) \/ BlockingEnqueue(t)
    PROVE  DispatcherInv'
<1> DEFINE x == ActionOf(t)
           s == queue.items
<1> USE DispatcherAssumption DEF DispatcherInv
<1>1. /\ UNCHANGED <<stopped, alive, worker, owner, quit>>
      /\ caller[t].at \in {"entered", "room"}
  BY DEF Enqueue, BlockingEnqueue
<1>2. /\ x \in Actions /\ x.by = t /\ x.call = caller[t].call /\ x.mode = caller[t].mode
      /\ \A a \in Pending : a.by = t => a.call < x.call
  BY <1>1, ActionIsLast DEF ActionOf
<1>3. /\ s \in Seq(Actions) /\ Ordered(s)
      /\ Pending = Items(s) \cup (IF worker.item = NoAction THEN {} ELSE {worker.item})
  BY DEF TypeOK, QueueOrder, Pending, Items
<1>4. /\ \A u \in Callers : u # t => caller'[u] = caller[u]
      /\ caller'[t].call = caller[t].call /\ caller'[t].mode = caller[t].mode
      /\ caller'[t].done = caller[t].done
      /\ \/ queue' = queue /\ caller[t].at = "room" /\ caller'[t].at = "no_room"
         \/ /\ caller'[t].at \in {"waiting", "flushing", "idle"}
            /\ caller[t].at = "entered" /\ caller[t].mode = "waiting"
                  => caller'[t].at = "waiting"
  BY DEF Enqueue, BlockingEnqueue, GoesTo, TypeOK
<1>5. \/ queue' = queue
      \/ queue.accepting /\ queue' = [queue EXCEPT !.items = Append(s, x)]
      \/ queue.accepting /\ s # <<>> /\ queue' = [queue EXCEPT !.items = Append(Tail(s), x)]
  <2>1. CASE Enqueue(t)
    <3>1. queue' = Enqueued(queue, Cap, x)
      BY <2>1 DEF Enqueue
    <3>2. s = <<>> => HasRoom(queue, Cap)
      BY EmptySeq DEF HasRoom, TypeOK
    <3> QED BY <3>1, <3>2 DEF Enqueued
  <2>2. CASE BlockingEnqueue(t)
    BY <2>2 DEF BlockingEnqueue, Added
  <2> QED BY <2>1, <2>2
<1>6. /\ Ordered(queue'.items)
      /\ Items(queue'.items) \subseteq Items(s) \cup {x}
      /\ queue'.accepting = queue.accepting
      /\ queue' = queue \/ (queue.accepting /\ x \in Items(queue'.items))
  <2>1. CASE queue' = queue
    BY <1>3, <2>1
  <2>2. CASE queue.accepting /\ queue' = [queue EXCEPT !.items = Append(s, x)]
    <3>1. \A a \in Items(s) : a.by = x.by => a.call < x.call
      BY <1>2, <1>3
    <3>2. /\ Append(s, x) \in Seq(Actions) /\ Ordered(Append(s, x))
          /\ Items(Append(s, x)) = Items(s) \cup {x}
      BY <1>2, <1>3, <3>1, AppendKeepsOrder
    <3>3. queue'.items = Append(s, x) /\ queue'.accepting = queue.accepting
      BY <2>2, <3>2, QueueWithItems DEF TypeOK
    <3> QED BY <2>2, <3>2, <3>3
  <2>3. CASE /\ queue.accepting /\ s # <<>>
             /\ queue' = [queue EXCEPT !.items = Append(Tail(s), x)]
    <3> DEFINE r == Tail(s)
    <3>1. r \in Seq(Actions) /\ Ordered(r) /\ Items(r) \subseteq Items(s)
      BY <1>3, <2>3, TailKeepsOrder
    <3>2. \A a \in Items(r) : a.by = x.by => a.call < x.call
      BY <1>2, <1>3, <3>1
    <3>3. /\ Append(r, x) \in Seq(Actions) /\ Ordered(Append(r, x))
          /\ Items(Append(r, x)) = Items(r) \cup {x}
      BY <1>2, <3>1, <3>2, AppendKeepsOrder
    <3>4. queue'.items = Append(r, x) /\ queue'.accepting = queue.accepting
      BY <2>3, <3>3, QueueWithItems DEF TypeOK
    <3> QED BY <2>3, <3>1, <3>3, <3>4
  <2> QED BY <1>5, <2>1, <2>2, <2>3
<1>7. Pending' \subseteq Pending \cup {x}
  BY <1>1, <1>3, <1>6 DEF Pending, Items
<1>8. queue' = queue => Pending' = Pending
  BY <1>1 DEF Pending
<1>9. \A a \in Pending : a \in Actions /\ a.by \in Callers /\ a.call \in Nat
  BY PendingActions
<1> HIDE DEF x
<1>10. WorkerHolds' /\ CallPlaces'
  BY <1>1, <1>4 DEF WorkerHolds, CallPlaces, Entering
<1>11. QueueOrder'
  <2>1. ASSUME worker.item # NoAction, NEW a \in Items(queue'.items), worker.item.by = a.by
        PROVE  worker.item.call < a.call
    <3>1. CASE a \in Items(s)
      BY <2>1, <3>1 DEF QueueOrder
    <3>2. CASE a = x
      BY <1>2, <1>3, <2>1, <3>2
    <3> QED BY <1>6, <2>1, <3>1, <3>2
  <2> QED BY <1>1, <1>6, <2>1 DEF QueueOrder
<1>12. \A a \in Pending' : /\ a.call <= caller'[a.by].call
                           /\ Entering(a.by)' => a.call < caller'[a.by].call
  <2>1. \A a \in Pending : /\ a.call <= caller[a.by].call
                           /\ Entering(a.by) => a.call < caller[a.by].call
    BY DEF CallsMade
  <2>2. Entering(t)
    BY <1>1 DEF Entering
  <2>3. ASSUME NEW a \in Pending
        PROVE  a.call <= caller'[a.by].call /\ (Entering(a.by)' => a.call < caller'[a.by].call)
    BY <1>4, <1>9, <2>1, <2>2 DEF Entering
  <2>4. CASE queue' = queue
    BY <1>8, <2>3, <2>4
  <2>5. CASE queue' # queue
    <3>1. x.call \in Int /\ x.call = caller'[x.by].call
      BY <1>2, <1>4, DispatcherAssumption DEF Actions
    <3>2. caller'[t].at \notin {"entered", "room", "no_room"}
      BY <1>4, <2>5
    <3>3. \A a : a = x => a.call <= caller'[a.by].call /\ ~Entering(a.by)'
      BY <1>2, <3>1, <3>2 DEF Entering
    <3>4. \A a \in Pending' : a \in Pending \/ a = x
      BY <1>7
    <3> QED BY <2>3, <3>3, <3>4
  <2> QED BY <2>4, <2>5
<1>13. CallsMade'
  BY <1>12 DEF CallsMade
<1>14. WaitIsSynchronous'
  <2>1. ASSUME NEW u \in Callers, caller'[u].done
        PROVE  ~\E a \in Pending' : a.by = u
    <3>1. caller[u].done /\ u # t
      BY <1>1, <1>4, <2>1 DEF CallPlaces, Entering
    <3> QED BY <1>2, <1>7, <3>1 DEF WaitIsSynchronous, WaitIsBarrier
  <2>2. ASSUME NEW a \in Pending', a.mode = "waiting", ~quit
        PROVE  caller'[a.by].at \in {"waiting", "asleep"} /\ caller'[a.by].call = a.call
    <3>1. CASE a \in Pending
      <4>1. caller[a.by].at \in {"waiting", "asleep"} /\ caller[a.by].call = a.call
        BY <2>2, <3>1 DEF WaitIsSynchronous, FrameOutlivesAction
      <4> QED BY <1>1, <1>4, <1>9, <3>1, <4>1
    <3>2. CASE a = x /\ queue' # queue
      <4>1. caller[t].mode = "waiting" /\ caller[t].at = "entered"
        BY <1>1, <1>2, <2>2, <3>2 DEF CallPlaces
      <4> QED BY <1>2, <1>4, <3>2, <4>1
    <3> QED BY <1>7, <1>8, <2>2, <3>1, <3>2
  <2>3. WaitIsBarrier'
    BY <2>1 DEF WaitIsBarrier
  <2>4. FrameOutlivesAction'
    BY <1>1, <2>2 DEF FrameOutlivesAction
  <2> QED BY <2>3, <2>4 DEF WaitIsSynchronous
<1>15. Stopping'
  <2>1. (stopped /\ owner.at = "idle") \/ owner.at \in {"stopping", "stop_flag", "joining", "gone"}
            => ~queue.accepting
    BY <1>1 DEF Stopping, Entering
  <2>2. queue' # queue => queue.accepting
    BY <1>6
  <2> QED BY <1>1, <1>6, <2>1, <2>2 DEF Stopping
<1> QED BY <1>10, <1>11, <1>13, <1>14, <1>15

\* A step of the worker between two actions or inside one.
LEMMA WorkerMoves ==
    ASSUME DispatcherInv, TypeOK',
           \/ Loop \/ WaitForStart \/ Dispatch \/ TrySleep \/ WakeUp \/ WorkerTimeout
           \/ Dequeue /\ queue.items = <<>>
    PROVE  DispatcherInv'
<1> USE DEF DispatcherInv
<1>1. /\ UNCHANGED <<queue, stopped, alive, caller, owner, quit>>
      /\ worker'.item = worker.item
      /\ LET idle == {"loop", "wait_start", "wait_item", "exit"}
         IN  worker'.at \in idle <=> worker.at \in idle
  BY DEF Loop, WaitForStart, Dispatch, TrySleep, WakeUp, WorkerTimeout, Dequeue, Moved, TypeOK
<1>2. Pending' = Pending
  BY <1>1 DEF Pending
<1>3. WorkerHolds' /\ CallPlaces' /\ QueueOrder' /\ Stopping'
  BY <1>1 DEF WorkerHolds, CallPlaces, QueueOrder, Stopping, Entering
<1>4. CallsMade'
  BY <1>1, <1>2 DEF CallsMade, Entering
<1>5. WaitIsSynchronous'
  BY <1>1, <1>2 DEF WaitIsSynchronous, WaitIsBarrier, FrameOutlivesAction
<1> QED BY <1>3, <1>4, <1>5

\* The worker takes the front of the queue; one thread may learn of the room.
LEMMA WorkerTakes ==
    ASSUME DispatcherInv, TypeOK', Dequeue, queue.items # <<>>
    PROVE  DispatcherInv'
<1> DEFINE s == queue.items
<1> USE DEF DispatcherInv
<1>1. /\ worker' = [at |-> "taken", item |-> Head(s)]
      /\ queue' = [queue EXCEPT !.items = Tail(s)]
      /\ UNCHANGED <<stopped, alive, owner, quit>>
      /\ worker.item = NoAction
  BY DEF Dequeue, Dequeued, WorkerHolds
<1>2. /\ s \in Seq(Actions) /\ Ordered(s) /\ Head(s) \in Actions
      /\ Tail(s) \in Seq(Actions) /\ Ordered(Tail(s))
      /\ Items(s) = {Head(s)} \cup Items(Tail(s))
      /\ \A a \in Items(Tail(s)) : Head(s).by = a.by => Head(s).call < a.call
  BY TailKeepsOrder DEF TypeOK, QueueOrder
<1>3. queue'.items = Tail(s) /\ queue'.accepting = queue.accepting
  BY <1>1, <1>2, QueueWithItems DEF TypeOK
<1>4. worker'.item = Head(s) /\ worker'.at = "taken"
  BY <1>1
<1>5. Head(s) # NoAction
  BY <1>2, DispatcherAssumption DEF Actions, NoAction
<1>6. /\ Pending = Items(s)
      /\ Pending' = Items(Tail(s)) \cup {Head(s)}
  BY <1>1, <1>3, <1>4, <1>5 DEF Pending, Items
<1>7. Pending' = Pending
  BY <1>2, <1>6
<1>8. \A t \in Callers :
        /\ caller'[t].call = caller[t].call
        /\ caller'[t].mode = caller[t].mode
        /\ caller'[t].done = caller[t].done
        /\ \/ caller'[t].at = caller[t].at
           \/ caller[t].at = "no_room" /\ caller'[t].at = "room"
           \/ caller[t].at = "asleep" /\ caller'[t].at = "waiting"
  <2>1. PICK woken \in One(RoomSleepers) : caller' = Notified(woken)
    BY DEF Dequeue
  <2>2. woken \subseteq RoomSleepers
    BY <2>1 DEF One
  <2> QED BY <2>1, <2>2, NotifiedCallers
<1>9. \A a \in Pending : a \in Actions /\ a.by \in Callers /\ a.call \in Nat
  BY PendingActions
<1>10. WorkerHolds'
  BY <1>4, <1>5 DEF WorkerHolds, NoAction
<1>11. CallPlaces'
  BY <1>8 DEF CallPlaces, Entering
<1>12. QueueOrder'
  BY <1>2, <1>3, <1>4 DEF QueueOrder
<1>13. CallsMade'
  BY <1>7, <1>8, <1>9 DEF CallsMade, Entering
<1>14. WaitIsSynchronous'
  BY <1>1, <1>7, <1>8, <1>9 DEF WaitIsSynchronous, WaitIsBarrier, FrameOutlivesAction
<1>15. Stopping'
  BY <1>1, <1>3, <1>8 DEF Stopping, Entering
<1> QED BY <1>10, <1>11, <1>12, <1>13, <1>14, <1>15

\* The action ends.  A caller is told only of its own current call, before
\* which it can have nothing in the queue.
LEMMA WorkerFinishes ==
    ASSUME DispatcherInv, TypeOK', Finish
    PROVE  DispatcherInv'
<1> DEFINE a == worker.item
<1> USE DEF DispatcherInv
<1>1. /\ worker' = [at |-> "loop", item |-> NoAction]
      /\ UNCHANGED <<queue, stopped, alive, owner, quit>>
      /\ a \in Actions /\ a # NoAction
  BY DEF Finish, WorkerHolds, TypeOK
<1>2. /\ Pending' = Items(queue.items)
      /\ Pending = Items(queue.items) \cup {a}
  BY <1>1 DEF Pending, Items
<1>3. \A t \in Callers :
        /\ caller'[t].call = caller[t].call
        /\ caller'[t].mode = caller[t].mode
        /\ caller'[t].done => \/ caller[t].done
                              \/ /\ t = a.by /\ caller[t].call = a.call
                                 /\ caller[t].at # "idle"
        /\ \/ caller'[t].at = caller[t].at
           \/ caller[t].at = "asleep" /\ caller'[t].at = "waiting"
  <2>1. UNCHANGED caller \/ \E woken \in SUBSET DoneSleepers : caller' = Told(a, woken)
    BY DEF Finish, One
  <2>2. CASE UNCHANGED caller
    BY <2>2
  <2>3. ASSUME NEW woken \in SUBSET DoneSleepers, caller' = Told(a, woken)
        PROVE  \A t \in Callers :
                 /\ caller'[t].call = caller[t].call
                 /\ caller'[t].mode = caller[t].mode
                 /\ caller'[t].done => \/ caller[t].done
                                       \/ /\ t = a.by /\ caller[t].call = a.call
                                          /\ caller[t].at # "idle"
                 /\ \/ caller'[t].at = caller[t].at
                    \/ caller[t].at = "asleep" /\ caller'[t].at = "waiting"
    BY <1>1, <2>3, ToldCallers
  <2> QED BY <2>1, <2>2, <2>3
<1>4. \A b \in Pending : b \in Actions /\ b.by \in Callers /\ b.call \in Nat
  BY PendingActions
<1>5. a \in Pending /\ a.call \in Nat /\ \A b \in Items(queue.items) : b \in Pending
  BY <1>2, <1>4
<1>6. \A b \in Items(queue.items) : b.by = a.by => a.call < b.call /\ b.call <= caller[a.by].call
  BY <1>1, <1>5 DEF QueueOrder, CallsMade
<1>7. caller[a.by].call = a.call => ~\E b \in Items(queue.items) : b.by = a.by
  BY <1>4, <1>5, <1>6
<1> HIDE DEF a
<1>8. WorkerHolds' /\ QueueOrder'
  BY <1>1 DEF WorkerHolds, QueueOrder
<1>9. CallPlaces'
  BY <1>3, <1>5 DEF CallPlaces, CallsMade, Entering
<1>10. CallsMade'
  BY <1>2, <1>3, <1>4, <1>5 DEF CallsMade, Entering
<1>11. WaitIsBarrier'
  BY <1>2, <1>3, <1>7 DEF WaitIsSynchronous, WaitIsBarrier
<1>12. FrameOutlivesAction'
  BY <1>1, <1>2, <1>3, <1>4 DEF WaitIsSynchronous, FrameOutlivesAction
<1>13. Stopping'
  BY <1>1, <1>3 DEF Stopping, Entering
<1> QED BY <1>8, <1>9, <1>10, <1>11, <1>12, <1>13 DEF WaitIsSynchronous

\* A step of the owner, except stop() itself, or of the exit condition.
LEMMA OwnerMoves ==
    ASSUME DispatcherInv, TypeOK',
           \/ Start \/ StartQueue \/ StopWait \/ StopFlag \/ Destroy \/ Join
           \/ Quit \/ UNCHANGED vars
    PROVE  DispatcherInv'
<1> USE DEF DispatcherInv
<1>1. UNCHANGED <<worker, caller>> /\ (quit' = quit \/ quit')
  BY DEF Start, StartQueue, StopWait, StopFlag, Destroy, Join, Quit, vars
<1>2. queue'.items = queue.items
  BY DEF Start, StartQueue, StopWait, StopFlag, Destroy, Join, Quit, vars, Started, TypeOK
<1>3. Pending' = Pending
  BY <1>1, <1>2 DEF Pending
<1>4. WorkerHolds' /\ CallPlaces' /\ QueueOrder'
  BY <1>1, <1>2 DEF WorkerHolds, CallPlaces, QueueOrder, Entering
<1>5. CallsMade'
  BY <1>1, <1>3 DEF CallsMade, Entering
<1>6. WaitIsSynchronous'
  BY <1>1, <1>3 DEF WaitIsSynchronous, WaitIsBarrier, FrameOutlivesAction
<1>7. Stopping'
  <2>1. CASE Start
    BY <2>1 DEF Start, Stopping, TypeOK
  <2>2. CASE StartQueue
    BY <2>2 DEF StartQueue, Stopping, TypeOK
  <2>3. CASE StopWait
    BY <2>3 DEF StopWait, Stopping, TypeOK
  <2>4. CASE StopFlag
    BY <2>4 DEF StopFlag, Stopping, TypeOK
  <2>5. CASE Destroy
    BY <2>5 DEF Destroy, Stopping, TypeOK
  <2>6. CASE Join
    BY <2>6 DEF Join, Stopping, TypeOK
  <2>7. CASE Quit \/ UNCHANGED vars
    BY <2>7 DEF Quit, vars, Stopping, Entering
  <2> QED BY <2>1, <2>2, <2>3, <2>4, <2>5, <2>6, <2>7
<1> QED BY <1>4, <1>5, <1>6, <1>7

\* stop() drops what is queued, and wakes those that wait for room.
LEMMA OwnerStops ==
    ASSUME DispatcherInv, TypeOK', Stop
    PROVE  DispatcherInv'
<1> USE DEF DispatcherInv
<1>1. /\ queue' = [items |-> <<>>, accepting |-> FALSE]
      /\ owner' = [owner EXCEPT !.at = "stopping"]
      /\ UNCHANGED <<stopped, alive, worker, quit>>
  BY DEF Stop, Stopped
<1>2. queue'.items = <<>> /\ queue'.accepting = FALSE /\ owner'.at = "stopping"
  BY <1>1 DEF TypeOK
<1>3. Items(queue'.items) = {}
  BY <1>2 DEF Items
<1>4. Pending' \subseteq Pending
  BY <1>1, <1>3 DEF Pending, Items
<1>5. \A t \in Callers :
        /\ caller'[t].call = caller[t].call
        /\ caller'[t].mode = caller[t].mode
        /\ caller'[t].done = caller[t].done
        /\ \/ caller'[t].at = caller[t].at
           \/ caller[t].at = "no_room" /\ caller'[t].at = "room"
           \/ caller[t].at = "asleep" /\ caller'[t].at = "waiting"
  BY NotifiedCallers DEF Stop
<1>6. \A a \in Pending : a \in Actions /\ a.by \in Callers /\ a.call \in Nat
  BY PendingActions
<1>7. WorkerHolds' /\ CallPlaces'
  BY <1>1, <1>5 DEF WorkerHolds, CallPlaces, Entering
<1>8. QueueOrder'
  BY <1>1, <1>2, <1>3 DEF QueueOrder, Ordered
<1>9. CallsMade'
  BY <1>4, <1>5, <1>6 DEF CallsMade, Entering
<1>10. WaitIsSynchronous'
  BY <1>1, <1>4, <1>5, <1>6 DEF WaitIsSynchronous, WaitIsBarrier, FrameOutlivesAction
<1>11. Stopping'
  BY <1>2 DEF Stopping
<1> QED BY <1>7, <1>8, <1>9, <1>10, <1>11

\* Every step keeps the invariant.
LEMMA InvStep ==
    ASSUME DispatcherInv, [Next]_vars
    PROVE  DispatcherInv'
<1>1. TypeOK'
  BY TypeStep DEF DispatcherInv
<1> QED BY <1>1, CallerMoves, CallerQueues, WorkerMoves, WorkerTakes, WorkerFinishes,
           OwnerMoves, OwnerStops DEF Next

\* The invariant holds before start().
LEMMA InvInit ==
    ASSUME Init
    PROVE  DispatcherInv
<1> USE DispatcherAssumption DEF Init, OpenQueue
<1>1. Items(queue.items) = {} /\ Pending = {}
  BY DEF Items, Pending
<1>2. TypeOK
  <2>1. queue \in [items : Seq(Actions), accepting : BOOLEAN] /\ Len(queue.items) <= Cap
    BY EmptySeq
  <2>2. worker \in [at : WorkerPlaces, item : Actions \cup {NoAction}]
    BY DEF WorkerPlaces
  <2>3. caller \in [Callers -> [at : CallerPlaces, call : 0 .. MaxCalls,
                                mode : Modes, done : BOOLEAN]]
    BY DEF CallerPlaces, Modes
  <2>4. owner \in [at : OwnerPlaces, starts : 0 .. MaxStarts, dying : BOOLEAN]
    BY DEF OwnerPlaces
  <2> QED BY <2>1, <2>2, <2>3, <2>4 DEF TypeOK
<1>3. WorkerHolds /\ CallPlaces /\ Stopping
  BY DEF WorkerHolds, CallPlaces, Stopping, Entering
<1>4. QueueOrder
  BY <1>1 DEF QueueOrder, Ordered
<1>5. CallsMade /\ WaitIsSynchronous
  BY <1>1 DEF CallsMade, WaitIsSynchronous, WaitIsBarrier, FrameOutlivesAction
<1> QED BY <1>2, <1>3, <1>4, <1>5 DEF DispatcherInv

\* The inductive invariant.
LEMMA DispatcherInvariant == Spec => []DispatcherInv
BY InvInit, InvStep, PTL DEF Spec

-----------------------------------------------------------------------------
(* What the dispatcher promises.                                           *)

\* Actions are dispatched in the order in which their caller queued them, also
\* when the oldest are dropped at capacity.
THEOREM DispatchInOrder == Spec => []InvokeOrder
<1>1. DispatcherInv => InvokeOrder
  <2> SUFFICES ASSUME DispatcherInv, NEW i \in DOMAIN queue.items
               PROVE  LET a == queue.items[i] IN
                      /\ \A j \in 1 .. i - 1 :
                            queue.items[j].by = a.by => queue.items[j].call < a.call
                      /\ worker.item.by = a.by => worker.item.call < a.call
    BY DEF DispatcherInv, InvokeOrder
  <2>1. DOMAIN queue.items = 1 .. Len(queue.items) /\ Len(queue.items) \in Nat
    BY LenProperties DEF DispatcherInv, TypeOK
  <2>2. \A j \in 1 .. i - 1 : j \in DOMAIN queue.items /\ j < i
    BY <2>1
  <2>3. queue.items[i] \in Actions /\ queue.items[i] \in Items(queue.items)
    BY <2>1, ElementOfSeq DEF DispatcherInv, TypeOK, Items
  <2>4. worker.item = NoAction => worker.item.by # queue.items[i].by
    BY <2>3, DispatcherAssumption DEF NoAction, Actions
  <2> QED BY <2>2, <2>3, <2>4 DEF DispatcherInv, QueueOrder, Ordered
<1> QED BY <1>1, DispatcherInvariant, PTL

\* When invoke_and_wait has been told, nothing its caller queued before is
\* pending, and its action never outlives the frame it refers to.
THEOREM InvokeAndWaitIsSynchronous == Spec => []WaitIsSynchronous
BY DispatcherInvariant, PTL DEF DispatcherInv

\* After stop() only the action that the worker held may still be there.
THEOREM StopLeavesNothing == Spec => []StopClears
<1>1. DispatcherInv => StopClears
  BY DEF DispatcherInv, Stopping, StopClears, Pending
<1> QED BY <1>1, DispatcherInvariant, PTL
=============================================================================
