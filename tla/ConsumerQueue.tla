---------------------------- MODULE ConsumerQueue ----------------------------
(***************************************************************************)
(* single_consumer_queue of librealsense's concurrency.h as operators on   *)
(* its state: the items, and whether more are accepted.  Every operation   *)
(* holds the queue's mutex from its first line to its last, so a module    *)
(* that uses the queue takes each one in a single step; the waits on the   *)
(* two condition variables are the guards of those steps.                  *)
(***************************************************************************)
EXTENDS Naturals, Sequences

\* A queue as constructed.
OpenQueue == [items |-> <<>>, accepting |-> TRUE]

HasRoom(q, cap) == Len(q.items) < cap

\* Mutants: the newcomer goes first; a queue that was stopped goes on accepting;
\* the item taken stays.
EnqueuedFront(q, cap, x) ==
    IF q.accepting /\ HasRoom(q, cap) THEN [q EXCEPT !.items = <<x>> \o @] ELSE q
EnqueuedAlways(q, cap, x) ==
    [q EXCEPT !.items = Append(IF HasRoom(q, cap) THEN @ ELSE Tail(@), x)]
DequeuedKept(q) == q

\* enqueue: never waits; at capacity the front is lost for the newcomer.
Enqueued(q, cap, x) ==
    IF ~q.accepting THEN q
    ELSE [q EXCEPT !.items = IF HasRoom(q, cap) THEN Append(@, x)
                             ELSE Append(Tail(@), x)]

\* blocking_enqueue, once there is room.
Added(q, x) == IF q.accepting THEN [q EXCEPT !.items = Append(@, x)] ELSE q

\* dequeue and try_dequeue of a queue that has an item.
Dequeued(q) == [q EXCEPT !.items = Tail(@)]

\* stop, which also clears, and start.
Stopped(q) == [items |-> <<>>, accepting |-> FALSE]
Started(q) == [q EXCEPT !.accepting = TRUE]
=============================================================================
