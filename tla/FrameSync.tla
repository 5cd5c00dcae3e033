------------------------------ MODULE FrameSync ------------------------------
(***************************************************************************)
(* librealsense's syncer: syncer_process_unit over a device whose matcher  *)
(* is the timestamp matcher of its streams (matcher_factory's default).    *)
(* Each stream's frames come from a thread of their own, in order.  A      *)
(* thread dispatches its frame to the matcher under the syncer's mutex;    *)
(* the matcher queues it and releases every set of frames that belong      *)
(* together to the queue of matches; then the thread hands out the matches *)
(* unless another thread is doing so.  stop() comes from a further thread  *)
(* and takes only the matcher's own mutex, which sync() holds for one turn *)
(* of its loop.                                                            *)
(*                                                                         *)
(* Streams are numbered in the order of the matcher's map of queues.       *)
(***************************************************************************)
EXTENDS ConsumerQueue, Integers

CONSTANTS
    NbStream,
    Gap,        \* for each stream the time between two of its frames
    Steps,      \* a frame comes that many gaps after the one before
    Offsets,    \* bound: for each stream the timestamps of its first frame
    MaxFrames,  \* bound: for each stream the number of its frames
    Cutout,     \* a stream is given up that many gaps after it was expected
    QUEUE_MAX_SIZE

Streams == 1 .. NbStream
ASSUME FrameSyncAssumption ==
    /\ NbStream \in Nat \ {0}
    /\ Gap \in [1 .. NbStream -> Nat \ {0}]
    /\ Steps \subseteq Nat \ {0}
    /\ Offsets \in [1 .. NbStream -> SUBSET Nat]
    /\ MaxFrames \in [1 .. NbStream -> Nat]
    /\ Cutout \in Nat \ {0}
    /\ QUEUE_MAX_SIZE \in Nat \ {0}

VARIABLES
    source,     \* for each stream the frames sent so far and the last timestamp
    thread,     \* where the thread of each stream is
    mutex,      \* the thread that holds the syncer's mutex, 0 for none
    callbackMutex,
    active,     \* the outer matcher's _active
    stops,      \* the calls of the device matcher's stop() that are due
    known,      \* the streams that have an entry in _frames_queue
    queues,     \* _frames_queue
    lively,     \* _active of each stream's matcher
    expected,   \* _next_expected
    lastArrived,\* the timestamp of the frame that is dispatched
    matches,    \* _matches
    ready,      \* the match that is being handed out
    shown       \* history: the timestamp last handed out, of each stream

frameVars == <<known, queues, lively, expected, lastArrived>>
vars == <<source, thread, mutex, callbackMutex, active, stops, known, queues,
          lively, expected, lastArrived, matches, ready, shown>>

-----------------------------------------------------------------------------
\* A frame is its stream and its timestamp; fps is known by the gap.
Frame(s, ts) == [stream |-> s, ts |-> ts]
First(s) == Head(queues[s].items)

\* are_equivalent: closer than half the gap of the slower stream.
Distance(a, b) == IF a < b THEN b - a ELSE a - b
Close(a, b, gap) == 2 * Distance(a, b) < gap
Slower(s, t) == IF Gap[s] < Gap[t] THEN Gap[t] ELSE Gap[s]
Equivalent(f, g) == Close(f.ts, g.ts, Slower(f.stream, g.stream))

Places == {"idle", "find", "enqueue", "sync", "callback",
           "dequeue", "frame_ready", "leave"}

Init ==
    /\ source = [s \in Streams |-> [sent |-> 0, ts |-> 0]]
    /\ thread = [s \in Streams |-> "idle"]
    /\ mutex = 0 /\ callbackMutex = 0
    /\ active = TRUE /\ stops = 0
    /\ known = {}
    /\ queues = [s \in Streams |-> OpenQueue]
    /\ lively = [s \in Streams |-> TRUE]
    /\ expected = [s \in Streams |-> 0]
    /\ lastArrived = 0
    /\ ready = {}
    /\ matches = OpenQueue
    /\ shown = [s \in Streams |-> -1]

Moved(s, from, to) ==
    /\ thread[s] = from
    /\ thread' = [thread EXCEPT ![s] = to]

-----------------------------------------------------------------------------
(***************************************************************************)
(* Dispatch, under the syncer's mutex.                                     *)
(***************************************************************************)

NextTimes(s) ==
    IF source[s].sent = 0 THEN Offsets[s]
    ELSE {source[s].ts + n * Gap[s] : n \in Steps}

\* A frame arrives and its thread gets the mutex; a syncer that was stopped
\* drops the frame.
Arrive(s) ==
    /\ mutex = 0
    /\ source[s].sent < MaxFrames[s]
    /\ Moved(s, "idle", IF active THEN "find" ELSE "idle")
    /\ mutex' = IF active THEN s ELSE 0
    /\ \E ts \in NextTimes(s) :
         /\ source' = [source EXCEPT ![s] = [sent |-> @.sent + 1, ts |-> ts]]
         /\ lastArrived' = IF active THEN ts ELSE lastArrived
    /\ UNCHANGED <<callbackMutex, active, stops, known, queues, lively, expected,
                   matches, ready, shown>>

\* find_matcher wakes the stream up if it had been given up, and
\* update_next_expected.
Find(s) ==
    /\ Moved(s, "find", "enqueue")
    /\ lively' = [lively EXCEPT ![s] = TRUE]
    /\ IF lively[s] THEN UNCHANGED <<known, queues>>
       ELSE /\ known' = known \cup {s}
            /\ queues' = [queues EXCEPT
                  ![s] = IF s \in known THEN Started(@) ELSE OpenQueue]
    /\ expected' = [expected EXCEPT ![s] = lastArrived + Gap[s]]
    /\ UNCHANGED <<source, mutex, callbackMutex, active, stops, lastArrived,
                   matches, ready, shown>>

Queued(s) == IF s \in known THEN queues[s] ELSE OpenQueue

\* The frame is queued; when the queue was stopped there is nothing to do.
Enqueue(s) ==
    /\ Moved(s, "enqueue", IF Queued(s).accepting THEN "sync" ELSE "callback")
    /\ mutex' = IF Queued(s).accepting THEN s ELSE 0
    /\ known' = known \cup {s}
    /\ queues' = [queues EXCEPT
          ![s] = Enqueued(Queued(s), QUEUE_MAX_SIZE, Frame(s, lastArrived))]
    /\ UNCHANGED <<source, callbackMutex, active, stops, lively, expected,
                   lastArrived, matches, ready, shown>>

\* The streams that have a frame queued, and those that are waited for.
Arrived == {s \in known : queues[s].items # <<>>}
Missing == known \ Arrived

\* What the loop over the first frames of the queues has found: the frame to go
\* by, the streams in sync with it, and whether any is left out.
NoneFound == [by |-> Frame(0, 0), synced |-> {}, rest |-> FALSE]

\* Mutants: the frames in sync with a later frame are kept; the first stream's
\* frame is gone by, however late it is.
ScanKeeps ==
    LET Keep(found, s) ==
            LET f == First(s) IN
            IF s \notin Arrived THEN found
            ELSE IF found.synced = {} THEN [by |-> f, synced |-> {s}, rest |-> FALSE]
            ELSE IF Equivalent(found.by, f) THEN [found EXCEPT !.synced = @ \cup {s}]
            ELSE IF f.ts < found.by.ts
                 THEN [by |-> f, synced |-> found.synced \cup {s}, rest |-> TRUE]
            ELSE [found EXCEPT !.rest = TRUE]
        look[s \in 0 .. NbStream] == IF s = 0 THEN NoneFound ELSE Keep(look[s - 1], s)
    IN  look[NbStream]
ScanFirst ==
    LET first == CHOOSE s \in Arrived : \A t \in Arrived : s <= t
        near == {s \in Arrived : Equivalent(First(first), First(s))}
    IN  IF Arrived = {} THEN NoneFound
        ELSE [by |-> First(first), synced |-> near, rest |-> near # Arrived]

\* One stream more.
Look(found, s) ==
    LET f == First(s) IN
    IF s \notin Arrived THEN found
    ELSE IF found.synced = {} THEN [by |-> f, synced |-> {s}, rest |-> FALSE]
    ELSE IF Equivalent(found.by, f) THEN [found EXCEPT !.synced = @ \cup {s}]
    ELSE IF f.ts < found.by.ts THEN [by |-> f, synced |-> {s}, rest |-> TRUE]
    ELSE [found EXCEPT !.rest = TRUE]

Scan ==
    LET look[s \in 0 .. NbStream] == IF s = 0 THEN NoneFound ELSE Look(look[s - 1], s)
    IN  look[NbStream]

\* Mutant: a stream that is late is waited for until it comes.
PastCutoutNever(f, m) == FALSE

\* skip_missing_stream: a lively stream m is waited for up to the cutout, or
\* while its next frame would be in sync with frame f.
PastCutout(f, m) ==
    /\ lively[m]
    /\ lastArrived > expected[m]
    /\ lastArrived - expected[m] >= Cutout * Gap[f.stream]

\* Mutant: a stream that is given up is waited for all the same.
WaitsForLate(f, m) ==
    lively[m] /\ (lastArrived <= expected[m] => Close(f.ts, expected[m], Gap[f.stream]))

WaitsFor(f, m) ==
    /\ lively[m]
    /\ IF lastArrived > expected[m] THEN ~PastCutout(f, m)
       ELSE Close(f.ts, expected[m], Gap[f.stream])

\* One turn of the loop of sync(), under the matcher's mutex: a set of frames
\* is taken out of the queues and, as a composite frame, put into the queue of
\* matches; or dispatch is over.
Sync(s) ==
    /\ LET found == Scan
           given == IF found.synced # {} /\ ~found.rest
                    THEN {m \in Missing : PastCutout(found.by, m)} ELSE {}
           go == /\ found.synced # {}
                 /\ found.rest \/ ~\E m \in Missing : WaitsFor(found.by, m)
           match == {First(t) : t \in found.synced}
       IN  /\ known' = known \ given
           /\ lively' = [t \in Streams |-> lively[t] /\ t \notin given]
           /\ Moved(s, "sync", IF go THEN "sync" ELSE "callback")
           /\ mutex' = IF go THEN s ELSE 0
           /\ queues' = [t \in Streams |->
                IF go /\ t \in found.synced THEN Dequeued(queues[t]) ELSE queues[t]]
           /\ matches' = IF go THEN Enqueued(matches, QUEUE_MAX_SIZE, match) ELSE matches
    /\ UNCHANGED <<source, callbackMutex, active, stops, expected, lastArrived,
                   ready, shown>>

-----------------------------------------------------------------------------
(***************************************************************************)
(* The matches are handed out by one thread at a time.                     *)
(***************************************************************************)
TryCallback(s) ==
    /\ Moved(s, "callback", IF callbackMutex = 0 THEN "dequeue" ELSE "idle")
    /\ callbackMutex' = IF callbackMutex = 0 THEN s ELSE callbackMutex
    /\ UNCHANGED <<source, mutex, active, stops, matches, ready, shown>>
    /\ UNCHANGED frameVars

TryDequeue(s) ==
    /\ Moved(s, "dequeue", IF matches.items = <<>> THEN "leave" ELSE "frame_ready")
    /\ IF matches.items = <<>> THEN UNCHANGED <<matches, ready>>
       ELSE /\ ready' = Head(matches.items)
            /\ matches' = Dequeued(matches)
    /\ UNCHANGED <<source, mutex, callbackMutex, active, stops, shown>>
    /\ UNCHANGED frameVars

FrameReady(s) ==
    /\ Moved(s, "frame_ready", "dequeue")
    /\ shown' = [t \in Streams |->
          LET own == {f \in ready : f.stream = t} IN
          IF own = {} THEN shown[t] ELSE (CHOOSE f \in own : TRUE).ts]
    /\ ready' = {}
    /\ UNCHANGED <<source, mutex, callbackMutex, active, stops, matches>>
    /\ UNCHANGED frameVars

Leave(s) ==
    /\ Moved(s, "leave", "idle")
    /\ callbackMutex' = 0
    /\ UNCHANGED <<source, mutex, active, stops, matches, ready, shown>>
    /\ UNCHANGED frameVars

-----------------------------------------------------------------------------
(***************************************************************************)
(* stop(): the outer matcher turns inactive, then stops the device's       *)
(* matcher, once for each stream that leads to it.                         *)
(***************************************************************************)
Stop ==
    /\ active
    /\ active' = FALSE
    /\ stops' = IF \E s \in Streams : source[s].sent > 0 THEN NbStream ELSE 0
    /\ UNCHANGED <<source, thread, mutex, callbackMutex, matches, ready, shown>>
    /\ UNCHANGED frameVars

StopMatcher ==
    /\ stops > 0
    /\ stops' = stops - 1
    /\ queues' = [s \in Streams |-> IF s \in known THEN Stopped(queues[s]) ELSE queues[s]]
    /\ UNCHANGED <<source, thread, mutex, callbackMutex, active, known, lively,
                   expected, lastArrived, matches, ready, shown>>

-----------------------------------------------------------------------------
Step(s) ==
    \/ Find(s) \/ Enqueue(s) \/ Sync(s)
    \/ TryCallback(s) \/ TryDequeue(s) \/ FrameReady(s) \/ Leave(s)

Next ==
    \/ \E s \in Streams :
        \/ Arrive(s) \/ Find(s) \/ Enqueue(s) \/ Sync(s)
        \/ TryCallback(s) \/ TryDequeue(s) \/ FrameReady(s) \/ Leave(s)
    \/ Stop \/ StopMatcher

(***************************************************************************)
(* A thread that has a frame goes on with it; no frame is ever promised.   *)
(***************************************************************************)
Fairness == \A s \in Streams : WF_vars(Step(s))
Spec == Init /\ [][Next]_vars /\ Fairness

-----------------------------------------------------------------------------
Frames == [stream : Streams, ts : Nat]
TypeOK ==
    /\ source \in [Streams -> [sent : Nat, ts : Nat]]
    /\ thread \in [Streams -> Places]
    /\ mutex \in 0 .. NbStream /\ callbackMutex \in 0 .. NbStream
    /\ active \in BOOLEAN /\ stops \in 0 .. NbStream
    /\ known \subseteq Streams
    /\ queues \in [Streams -> [items : Seq(Frames), accepting : BOOLEAN]]
    /\ \A s \in Streams : Len(queues[s].items) <= QUEUE_MAX_SIZE
    /\ lively \in [Streams -> BOOLEAN]
    /\ expected \in [Streams -> Nat] /\ lastArrived \in Nat
    /\ ready \subseteq Frames
    /\ matches \in [items : Seq(SUBSET Frames), accepting : {TRUE}]
    /\ Len(matches.items) <= QUEUE_MAX_SIZE
    /\ shown \in [Streams -> Int]

Published == {ready} \cup {matches.items[i] : i \in DOMAIN matches.items}
AtRest == mutex = 0 /\ active

\* A set holds one frame of a stream at most, and its frames lie within half
\* a gap of one of them (are_equivalent).
SetsAreTight ==
    \A m \in Published :
        /\ \A f, g \in m : f.stream = g.stream => f = g
        /\ m # {} => \E f \in m : \A g \in m : g = f \/ Equivalent(f, g)

\* Frame g may stay behind when frame f goes: it is later, or in sync and slower.
MayPass(f, g) ==
    \/ f.ts < g.ts
    \/ Gap[f.stream] < Gap[g.stream] /\ Equivalent(f, g)

\* What is at the front of a queue and is left there when a set goes is later than
\* some frame of the set, or it is in sync with one and of a slower stream.  sync()
\* says "The synced frames should be the earliest possible!": between streams of
\* one rate that is so; a frame of a slower stream is dropped from the set with the
\* frame it came in sync with, and not compared with the one that takes its place.
PassesOnlySlower ==
    [][\A s, t \in Streams :
        s \in Arrived /\ Len(queues'[s].items) < Len(queues[s].items)
                      /\ queues'[s].accepting
        /\ t \in Arrived /\ queues'[t] = queues[t]
            => \E u \in Arrived : queues'[u] # queues[u] /\ MayPass(First(u), First(t))]_queues

\* When dispatch is over, a frame is held only for the sake of a stream that is
\* not given up, and that is late by less than the cutout.
HeldBriefly ==
    AtRest /\ Arrived # {} =>
        \E m \in Missing : \E s \in Arrived :
            lively[m] /\ lastArrived < expected[m] + Cutout * Gap[s]

\* A frame waits in at most one place, and not after it or a later one of its
\* stream was handed out.
OnceOnly ==
    /\ TypeOK
    /\ \A s \in Streams : \A i \in DOMAIN queues[s].items :
          /\ queues[s].items[i].ts > shown[s]
          /\ \A m \in Published : queues[s].items[i] \notin m
    /\ \A m \in Published : \A f \in m : f.ts > shown[f.stream]

\* Once no frames come, every thread returns from the one it brought: the loop
\* of sync() ends, and so does the one that hands out matches.
ThreadsReturn ==
    (\E s \in Streams : thread[s] # "idle") ~> (\A s \in Streams : thread[s] = "idle")
=============================================================================
