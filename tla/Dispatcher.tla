----------------------------- MODULE Dispatcher -----------------------------
(***************************************************************************)
(* librealsense's dispatcher: any thread queues actions, one worker thread *)
(* runs them one at a time.  Actions may be queued without waiting, by     *)
(* waiting for room, or with a wait until they have run                    *)
(* (invoke_and_wait).  One thread, the owner, starts, stops and finally    *)
(* destroys the dispatcher, as every user in src/ does under a lock of its *)
(* own.                                                                    *)
(*                                                                         *)
(* A condition variable that is waited on without a time limit is modelled *)
(* with its sleepers, so that a lost wake-up shows: a sleeper evaluates    *)
(* its condition again only when it is notified.  A wait with a time limit *)
(* is a guard, with a second action for the end of the time.               *)
(***************************************************************************)
EXTENDS ConsumerQueue, FiniteSets

CONSTANTS
    Callers,    \* the threads that queue actions
    May,        \* for each of them the ways in which it may queue actions
    Cap,        \* the capacity of the queue
    MaxCalls,   \* bound: the calls of each caller
    MaxStarts   \* bound: the times the owner starts the dispatcher

ASSUME DispatcherAssumption ==
    /\ "none" \notin Callers
    /\ May \in [Callers -> SUBSET {"invoke", "blocking", "waiting", "flush"}]
    /\ Cap \in Nat \ {0}
    /\ MaxCalls \in Nat
    /\ MaxStarts \in Nat

VARIABLES
    queue,      \* _queue
    stopped,    \* _was_stopped
    alive,      \* _is_alive
    worker,     \* where the worker thread is, and the action it has dequeued
    caller,     \* for each caller where it is, its call and whether it is done
    owner,      \* where the owner is and how often it started the dispatcher
    quit        \* the exit_condition given to invoke_and_wait

vars == <<queue, stopped, alive, worker, caller, owner, quit>>

-----------------------------------------------------------------------------
(***************************************************************************)
(* An action: whose call it is, and how it is queued.  An action that was  *)
(* queued by invoke_and_wait runs under _blocking_invoke_mutex; flush()    *)
(* queues one that only tells it that it ran.                              *)
(***************************************************************************)
Modes == {"invoke", "blocking", "waiting", "flush"}
Actions == [by : Callers, call : 1 .. MaxCalls, mode : Modes]
NoAction == [by |-> "none"]

Running == worker.at \in {"running", "sleeping"}
InvokeMutexFree == ~(Running /\ worker.item.mode = "waiting")

CallerPlaces ==
    {"idle", "entered", "room", "no_room", "waiting", "asleep", "flushing"}
WorkerPlaces ==
    {"loop", "wait_start", "wait_item", "taken", "running", "sleeping", "exit"}
OwnerPlaces ==
    {"idle", "starting", "to_stop", "stopping", "stop_flag", "joining", "gone"}

Pending == {queue.items[i] : i \in DOMAIN queue.items}
           \cup (IF worker.item = NoAction THEN {} ELSE {worker.item})

TypeOK ==
    /\ queue \in [items : Seq(Actions), accepting : BOOLEAN]
    /\ Len(queue.items) <= Cap
    /\ stopped \in BOOLEAN /\ alive \in BOOLEAN /\ quit \in BOOLEAN
    /\ worker \in [at : WorkerPlaces, item : Actions \cup {NoAction}]
    /\ caller \in [Callers -> [at : CallerPlaces, call : 0 .. MaxCalls,
                               mode : Modes, done : BOOLEAN]]
    /\ owner \in [at : OwnerPlaces, starts : 0 .. MaxStarts, dying : BOOLEAN]

Init ==
    /\ queue = OpenQueue
    /\ stopped = TRUE
    /\ alive = TRUE
    /\ worker = [at |-> "loop", item |-> NoAction]
    /\ caller = [t \in Callers |->
                    [at |-> "idle", call |-> 0, mode |-> "invoke", done |-> FALSE]]
    /\ owner = [at |-> "idle", starts |-> 0, dying |-> FALSE]
    /\ quit = FALSE

\* The threads that sleep on _enq_cv and on _blocking_invoke_cv.
RoomSleepers == {t \in Callers : caller[t].at = "no_room"}
DoneSleepers == {t \in Callers : caller[t].at = "asleep"}

\* The callers after the threads of woken were notified.
Notified(woken) ==
    [t \in Callers |->
        IF t \notin woken THEN caller[t]
        ELSE [caller[t] EXCEPT
                !.at = IF @ = "no_room" THEN "room" ELSE "waiting"]]

\* The sets notify_one may wake among some sleepers.
One(sleepers) ==
    IF sleepers = {} THEN {{}} ELSE {{t} : t \in sleepers}

-----------------------------------------------------------------------------
(***************************************************************************)
(* The callers.                                                            *)
(***************************************************************************)

\* Caller t goes on to a place.
GoesTo(t, place) ==
    caller' = [caller EXCEPT ![t] = [@ EXCEPT !.at = place]]

\* invoke, invoke_and_wait or flush begins: the flag is read without the
\* queue's mutex, and a dispatcher that is stopped takes no action.
Invoke(t) ==
    /\ caller[t].at = "idle"
    /\ caller[t].call < MaxCalls
    /\ ~owner.dying
    /\ \E m \in May[t] :
         caller' = [caller EXCEPT ![t] =
            [at |-> IF ~stopped THEN IF m \in {"blocking", "flush"} THEN "room" ELSE "entered"
                    ELSE IF m = "waiting" THEN "waiting" ELSE "idle",
             call |-> @.call + 1, mode |-> m, done |-> FALSE]]
    /\ UNCHANGED <<queue, stopped, alive, worker, owner, quit>>

ActionOf(t) == [by |-> t, call |-> caller[t].call, mode |-> caller[t].mode]

\* The queue's enqueue.
Enqueue(t) ==
    /\ caller[t].at = "entered"
    /\ queue' = Enqueued(queue, Cap, ActionOf(t))
    /\ GoesTo(t, IF caller[t].mode = "waiting" THEN "waiting" ELSE "idle")
    /\ UNCHANGED <<stopped, alive, worker, owner, quit>>

\* The queue's blocking_enqueue, which goes to sleep while the queue is full.
BlockingEnqueue(t) ==
    /\ caller[t].at = "room"
    /\ IF HasRoom(queue, Cap)
       THEN /\ queue' = Added(queue, ActionOf(t))
            /\ GoesTo(t, IF caller[t].mode = "flush" THEN "flushing" ELSE "idle")
       ELSE /\ GoesTo(t, "no_room")
            /\ UNCHANGED queue
    /\ UNCHANGED <<stopped, alive, worker, owner, quit>>

\* Mutant: a stopped dispatcher is taken for one that runs nothing.
WaitWhileStarted(t) ==
    /\ caller[t].at = "waiting"
    /\ InvokeMutexFree
    /\ GoesTo(t, IF caller[t].done \/ quit \/ stopped THEN "idle" ELSE "asleep")
    /\ UNCHANGED <<queue, stopped, alive, worker, owner, quit>>

\* invoke_and_wait returns when its action is done or its exit condition
\* holds; the mutex is held by the worker while it runs such an action.
Wait(t) ==
    /\ caller[t].at = "waiting"
    /\ InvokeMutexFree
    /\ GoesTo(t, IF caller[t].done \/ quit THEN "idle" ELSE "asleep")
    /\ UNCHANGED <<queue, stopped, alive, worker, owner, quit>>

\* flush returns: its action has run, the dispatcher was stopped, or its time
\* is over.
Flushed(t) ==
    /\ caller[t].at = "flushing"
    /\ GoesTo(t, "idle")
    /\ UNCHANGED <<queue, stopped, alive, worker, owner, quit>>

\* The exit condition comes true: what it looks at is gone.
Quit ==
    /\ ~quit
    /\ quit' = TRUE
    /\ UNCHANGED <<queue, stopped, alive, worker, caller, owner>>

-----------------------------------------------------------------------------
(***************************************************************************)
(* The worker thread.                                                      *)
(***************************************************************************)
Moved(from, to) ==
    /\ worker.at = from
    /\ worker' = [worker EXCEPT !.at = to]

\* Mutants: the thread ends with the first stop; it never does.
LoopWhileStarted ==
    /\ Moved("loop", IF alive /\ ~stopped THEN "wait_start" ELSE "exit")
    /\ UNCHANGED <<queue, stopped, alive, caller, owner, quit>>
LoopForever ==
    /\ Moved("loop", "wait_start")
    /\ UNCHANGED <<queue, stopped, alive, caller, owner, quit>>

Loop ==
    /\ Moved("loop", IF alive THEN "wait_start" ELSE "exit")
    /\ UNCHANGED <<queue, stopped, alive, caller, owner, quit>>

\* _wait_for_start
WaitForStart ==
    /\ ~stopped \/ ~alive
    /\ Moved("wait_start", IF alive THEN "wait_item" ELSE "loop")
    /\ UNCHANGED <<queue, stopped, alive, caller, owner, quit>>

\* The queue's dequeue, which lets one thread know that there is room.
Dequeue ==
    /\ worker.at = "wait_item"
    /\ ~queue.accepting \/ queue.items # <<>>
    /\ IF queue.items = <<>>
       THEN /\ worker' = [worker EXCEPT !.at = "loop"]
            /\ UNCHANGED <<queue, caller>>
       ELSE /\ worker' = [at |-> "taken", item |-> Head(queue.items)]
            /\ queue' = Dequeued(queue)
            /\ \E woken \in One(RoomSleepers) : caller' = Notified(woken)
    /\ UNCHANGED <<stopped, alive, owner, quit>>

\* The worker locks _dispatch_mutex, which stop() holds for no time.
Dispatch ==
    /\ Moved("taken", "running")
    /\ UNCHANGED <<queue, stopped, alive, caller, owner, quit>>

\* The action calls try_sleep, which returns at once when the dispatcher was
\* stopped.
TrySleep ==
    /\ ~stopped
    /\ Moved("running", "sleeping")
    /\ UNCHANGED <<queue, stopped, alive, caller, owner, quit>>

\* try_sleep returns: the dispatcher was stopped, or the time is over.
WakeUp ==
    /\ Moved("sleeping", "running")
    /\ UNCHANGED <<queue, stopped, alive, caller, owner, quit>>

\* Mutant: done is one flag for all calls of a thread.
ToldAnyCall(a, woken) ==
    LET done(t) == t = a.by /\ caller[t].at # "idle"
    IN  [t \in Callers |->
            [Notified(woken)[t] EXCEPT !.done = @ \/ done(t)]]

\* Mutant: no one is notified.
ToldSilently(a, woken) ==
    LET done(t) == t = a.by /\ caller[t].call = a.call /\ caller[t].at # "idle"
    IN  [t \in Callers |-> [caller[t] EXCEPT !.done = @ \/ done(t)]]

\* The callers after action a has told its caller, if that is still in the
\* call, that it is done, and the threads of woken were notified.  The action
\* of a caller that has left by its exit condition writes to what its references
\* pointed at; what that damages is left out.
Told(a, woken) ==
    LET done(t) == t = a.by /\ caller[t].call = a.call /\ caller[t].at # "idle"
    IN  [t \in Callers |->
            [Notified(woken)[t] EXCEPT !.done = @ \/ done(t)]]

\* The action ends.  One that invoke_and_wait queued sets its caller's done
\* and notifies one sleeper, whoever that is, unless it throws.
Finish ==
    /\ worker.at = "running"
    /\ worker' = [at |-> "loop", item |-> NoAction]
    /\ \/ /\ worker.item.mode = "waiting"
          /\ \E woken \in One(DoneSleepers) : caller' = Told(worker.item, woken)
       \/ /\ worker.item.mode = "flush"
          /\ caller' = Told(worker.item, {})
       \/ /\ worker.item.mode # "flush"
          /\ UNCHANGED caller
    /\ UNCHANGED <<queue, stopped, alive, owner, quit>>

\* A wait of the worker comes to the end of its time with nothing to do.
WorkerTimeout ==
    /\ \/ Moved("wait_start", "loop") /\ stopped /\ alive
       \/ Moved("wait_item", "loop") /\ queue.accepting /\ queue.items = <<>>
    /\ UNCHANGED <<queue, stopped, alive, caller, owner, quit>>

-----------------------------------------------------------------------------
(***************************************************************************)
(* The owner.                                                              *)
(***************************************************************************)

\* start(): first the flag, then the queue.
Start ==
    /\ owner.at = "idle" /\ ~owner.dying
    /\ owner.starts < MaxStarts
    /\ stopped' = FALSE
    /\ owner' = [owner EXCEPT !.at = "starting", !.starts = @ + 1]
    /\ UNCHANGED <<queue, alive, worker, caller, quit>>

StartQueue ==
    /\ owner.at = "starting"
    /\ queue' = Started(queue)
    /\ owner' = [owner EXCEPT !.at = "idle"]
    /\ UNCHANGED <<stopped, alive, worker, caller, quit>>

\* Mutant: those that wait for room are forgotten.
StopSilently ==
    /\ owner.at = (IF owner.dying THEN "to_stop" ELSE "idle")
    /\ queue' = Stopped(queue)
    /\ owner' = [owner EXCEPT !.at = "stopping"]
    /\ UNCHANGED <<stopped, alive, worker, caller, quit>>

\* stop(): the queue is stopped and cleared and every sleeper woken...
Stop ==
    /\ owner.at = (IF owner.dying THEN "to_stop" ELSE "idle")
    /\ queue' = Stopped(queue)
    /\ caller' = Notified(RoomSleepers)
    /\ owner' = [owner EXCEPT !.at = "stopping"]
    /\ UNCHANGED <<stopped, alive, worker, quit>>

\* ... the action that runs, if any, ends...
StopWait ==
    /\ owner.at = "stopping"
    /\ ~Running
    /\ owner' = [owner EXCEPT !.at = "stop_flag"]
    /\ UNCHANGED <<queue, stopped, alive, worker, caller, quit>>

\* ... and the flag is set.
StopFlag ==
    /\ owner.at = "stop_flag"
    /\ stopped' = TRUE
    /\ owner' = [owner EXCEPT !.at = IF owner.dying THEN "joining" ELSE "idle"]
    /\ UNCHANGED <<queue, alive, worker, caller, quit>>

\* ~dispatcher, with no caller in a call: no more dispatches, then stop()...
Destroy ==
    /\ owner.at = "idle" /\ ~owner.dying
    /\ \A t \in Callers : caller[t].at = "idle"
    /\ alive' = FALSE
    /\ owner' = [owner EXCEPT !.at = "to_stop", !.dying = TRUE]
    /\ UNCHANGED <<queue, stopped, worker, caller, quit>>

\* ... then the worker is joined.
Join ==
    /\ owner.at = "joining"
    /\ worker.at = "exit"
    /\ owner' = [owner EXCEPT !.at = "gone"]
    /\ UNCHANGED <<queue, stopped, alive, worker, caller, quit>>

-----------------------------------------------------------------------------
CallerStep(t) == Enqueue(t) \/ BlockingEnqueue(t) \/ Wait(t)
WorkerStep == Loop \/ WaitForStart \/ Dequeue \/ Dispatch
OwnerStep == StartQueue \/ (owner.dying /\ Stop) \/ StopWait \/ StopFlag \/ Join

Next ==
    \/ \E t \in Callers :
         Invoke(t) \/ Enqueue(t) \/ BlockingEnqueue(t) \/ Wait(t) \/ Flushed(t)
    \/ Quit
    \/ Loop \/ WaitForStart \/ Dequeue \/ Dispatch \/ TrySleep \/ WakeUp
    \/ Finish \/ WorkerTimeout
    \/ Start \/ StartQueue \/ Stop \/ StopWait \/ StopFlag \/ Destroy \/ Join

(***************************************************************************)
(* Threads that can run do run, actions end and sleeps are finite.  No     *)
(* call is ever promised, and neither is the end of the worker's time      *)
(* limits: whatever must happen happens by a notification.                 *)
(***************************************************************************)
Fairness ==
    /\ \A t \in Callers : WF_vars(CallerStep(t)) /\ WF_vars(Flushed(t))
    /\ WF_vars(WorkerStep) /\ WF_vars(WakeUp) /\ SF_vars(Finish)
    /\ WF_vars(OwnerStep)

Spec == Init /\ [][Next]_vars /\ Fairness

-----------------------------------------------------------------------------
\* What is accepted for dispatch is dispatched in the order in which its
\* caller queued it, whatever is lost on the way, and the queue keeps within
\* its capacity (invoke of concurrency.h).
InvokeOrder ==
    TypeOK /\ \A i \in DOMAIN queue.items :
        LET a == queue.items[i] IN
        /\ \A j \in 1 .. i - 1 :
              queue.items[j].by = a.by => queue.items[j].call < a.call
        /\ worker.item.by = a.by
              => worker.item.call < a.call

\* invoke_and_wait is a barrier: once its action is done, nothing that its
\* caller queued before is still to be run.
WaitIsBarrier ==
    \A t \in Callers : caller[t].done => ~\E a \in Pending : a.by = t

\* The action of invoke_and_wait holds references into its caller's frame: it
\* is there only while the caller waits, except after the exit condition has
\* come true, when the caller leaves it behind.
FrameOutlivesAction ==
    \A a \in Pending :
        a.mode = "waiting" /\ ~quit =>
            /\ caller[a.by].at \in {"waiting", "asleep"}
            /\ caller[a.by].call = a.call

\* invoke_and_wait is synchronous.
WaitIsSynchronous == WaitIsBarrier /\ FrameOutlivesAction

\* stop() leaves nothing to dispatch but the one action that the worker had
\* already taken from the queue (the assertion in dispatcher::stop).
StopClears ==
    /\ owner.at \in {"stopping", "stop_flag", "joining", "gone"} => queue.items = <<>>
    /\ stopped /\ owner.at = "idle" => Pending \subseteq {worker.item}

-----------------------------------------------------------------------------
\* A caller that waits for room gets it, or learns of the stop.
BlockedInvokeReturns ==
    \A t \in Callers : (caller[t].at = "no_room") ~> (caller[t].at # "no_room")

\* When only one thread uses invoke_and_wait, it is told when its action is
\* done.
WaitReturns ==
    \A t \in {u \in Callers : "waiting" \in May[u]} :
        (caller[t].at = "asleep" /\ caller[t].done) ~> (caller[t].at = "idle")

\* While there are actions to dispatch the worker comes back to run one,
\* unless all are dropped.
ActionsRun == (Pending # {}) ~> (worker.at = "running" \/ Pending = {})

\* stop() and the destructor return.
StopReturns == (owner.at = "stopping") ~> (owner.at \in {"idle", "gone"})

\* Nothing in the dispatcher waits for ever on what has happened already.
NothingHangs == BlockedInvokeReturns /\ WaitReturns /\ ActionsRun /\ StopReturns
=============================================================================
