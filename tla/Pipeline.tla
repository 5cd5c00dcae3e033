------------------------------ MODULE Pipeline ------------------------------
(***************************************************************************)
(* librealsense's pipeline (src/pipeline/pipeline.cpp) with its aggregator *)
(* and its configuration: what the programs of this repository start, wait *)
(* on and stop.                                                            *)
(*                                                                         *)
(* Every call of the API holds _mtx from its first line to its last, so    *)
(* one call at most is under way; next to it run the threads of the device *)
(* that deliver frames, the dispatcher that starts a file again at its end *)
(* (module Dispatcher), and the hand that pulls out the cable.  A stream   *)
(* stands for the sensor it comes from; the syncer (module FrameSync)      *)
(* stands here for any grouping of the frames it is given.                 *)
(***************************************************************************)
EXTENDS ConsumerQueue, FiniteSetsExt

CONSTANTS
    Streams,     \* numbers, in the order of the sensors
    Synced,      \* those of _synced_streams
    Confs,       \* the configurations the user may ask for
    Kinds,       \* the devices to use: a "camera", a "file" that is repeated at
                 \* its end, or one that is played "once"
    MaxStarts, MaxPlugs, MaxFrames, MaxFaults, MaxEnds
                 \* bounds: calls of start(), times the camera is plugged in,
                 \* frames of a stream, failures of a sensor, ends of the file

ASSUME PipelineAssumption ==
    /\ Synced \subseteq Streams /\ Streams \subseteq Nat \ {0}
    /\ IsFiniteSet(Streams) /\ Streams # {}
    /\ Confs \subseteq [want : SUBSET Streams, disabled : SUBSET Streams,
                        cached : {0}]
    /\ Kinds \subseteq {"camera", "file", "once"}
    /\ {MaxStarts, MaxFrames, MaxFaults, MaxEnds} \subseteq Nat /\ MaxPlugs \in Nat \ {0}

VARIABLES
    kind,        \* what the device is
    plugged,     \* the number of the camera that is plugged in, 0 if none is
    plugs,       \* how often it was plugged in
    dev,         \* the device objects: which camera each is, the streams its
                 \* profile has, those open and those on
    user_conf,   \* the configuration the user passes to start()
    active,      \* _active_profile: its device object, 0 if there is none
    prev_conf,   \* _prev_conf
    callback,    \* _streams_callback
    call,        \* the call that holds _mtx
    agg,         \* _aggregator: _accepting, the device object and the streams it
                 \* was made for, _last_set (last frames of theirs, and of which
                 \* other streams there is one), _queue
    subscribed,  \* the device object _playback_stopped_token listens to
    raising,     \* a thread of the file is about to invoke the dispatcher
    dispatcher,  \* the actions waiting, and whether more are taken
    item,        \* the action that runs
    crashed,     \* a null pointer was used
    starts, faults, ends,
    sent,        \* the last frame of each stream
    base, shown  \* history: sent at the last start, the frameset last returned

conf    == <<user_conf, prev_conf>>
device  == <<kind, plugged, plugs, dev>>
repeat  == <<subscribed, raising, dispatcher, item, crashed>>
bounds  == <<starts, faults, ends>>
history == <<base, shown>>
pipelineVars == <<device, conf, active, callback, call, agg, repeat, bounds,
                  sent, history>>

-----------------------------------------------------------------------------
NoCall == [op |-> "none", at |-> "none", dev |-> 0, lost |-> 0, todo |-> {},
           conf |-> [want |-> {}, disabled |-> {}, cached |-> 0]]
NoConf == [want |-> {0}, disabled |-> {}, cached |-> 0]
NoItem == [at |-> "none", dev |-> 0, todo |-> {}]
NoFrames == [s \in Streams |-> 0]

CallPlaces ==
    {"none", "resolve", "on_start", "open", "start", "set_active", "set_conf",
     "wait", "rewait", "halt", "stop", "close", "stop_dispatcher", "reset",
     "reset_conf"}

Framesets == [Streams -> 0 .. MaxFrames]
Objects == 1 .. MaxStarts + MaxPlugs
Configs == [want : SUBSET Streams, disabled : SUBSET Streams,
            cached : Objects \cup {0}]

PipelineTypeOK ==
    /\ kind \in Kinds /\ plugs \in 0 .. MaxPlugs /\ plugged \in {0, plugs}
    /\ dev \in Seq([inc : 0 .. MaxPlugs, streams : SUBSET Streams,
                    open : SUBSET Streams, on : SUBSET Streams])
    /\ Len(dev) <= MaxStarts + MaxPlugs
    /\ user_conf \in Configs /\ prev_conf \in Configs \cup {NoConf}
    /\ active \in 0 .. Len(dev) /\ subscribed \in 0 .. Len(dev)
    /\ callback \in BOOLEAN /\ raising \in BOOLEAN /\ crashed \in BOOLEAN
    /\ call \in [op : {"none", "start", "stop", "wait"}, at : CallPlaces,
                 dev : 0 .. Len(dev), lost : 0 .. Len(dev),
                 todo : SUBSET Streams, conf : Configs]
    /\ agg \in [accepting : BOOLEAN, dev : 0 .. Len(dev), streams : SUBSET Streams,
                last : Framesets, strays : SUBSET ((1 .. Len(dev)) \X Streams),
                queue : [items : Seq(Framesets), accepting : BOOLEAN]]
    /\ Len(agg.queue.items) <= 1
    /\ dispatcher \in [items : Seq({"repeat"}), accepting : BOOLEAN]
    /\ item \in [at : {"none", "taken", "conf", "open", "start"},
                 dev : 0 .. Len(dev), todo : SUBSET Streams]
    /\ starts \in 0 .. MaxStarts /\ faults \in 0 .. MaxFaults
    /\ ends \in 0 .. MaxEnds
    /\ sent \in Framesets /\ base \in Framesets /\ shown \in Framesets

PipelineInit ==
    /\ kind \in Kinds
    /\ plugged = 1 /\ plugs = 1
    /\ dev = <<>>
    /\ user_conf \in Confs
    /\ active = 0 /\ prev_conf = NoConf /\ callback = FALSE
    /\ call = NoCall
    /\ agg = [accepting |-> FALSE, dev |-> 0, streams |-> {}, last |-> NoFrames,
              strays |-> {}, queue |-> OpenQueue]
    /\ subscribed = 0 /\ raising = FALSE
    /\ dispatcher = Stopped(OpenQueue)
    /\ item = NoItem /\ crashed = FALSE
    /\ starts = 0 /\ faults = 0 /\ ends = 0
    /\ sent = NoFrames /\ base = NoFrames /\ shown = NoFrames

-----------------------------------------------------------------------------
(***************************************************************************)
(* The configuration.                                                      *)
(***************************************************************************)

\* The copy constructor of config, which leaves out _streams_to_disable.
Copied(c) == [c EXCEPT !.disabled = {}, !.cached = 0]

\* The streams a configuration asks for: those it lists or, if it lists none,
\* those of the device that are not disabled.
Resolved(c) == IF c.want = {} THEN Streams \ c.disabled ELSE c.want

-----------------------------------------------------------------------------
(***************************************************************************)
(* The sensors of a device object.                                         *)
(***************************************************************************)
IsFile == kind # "camera"

Gone(d) == kind = "camera" /\ dev[d].inc # plugged

\* A sensor of a camera throws when it is not in the state the call expects, and
\* at open() when the camera is gone; one of a file never does.
MayOpen(d, s) ==
    \/ IsFile
    \/ ~Gone(d) /\ \A e \in DOMAIN dev : dev[e].inc = dev[d].inc => s \notin dev[e].open
MayStart(d, s) == IsFile \/ s \in dev[d].open \ dev[d].on
MayStop(d, s) == IsFile \/ s \in dev[d].on
MayClose(d, s) == IsFile \/ s \in dev[d].open \ dev[d].on
MustStop(d, s) == MayStop(d, s) /\ ~Gone(d)

Opened(d, s) == [dev EXCEPT ![d].open = @ \cup {s}]
On(d, s) == [dev EXCEPT ![d].on = @ \cup {s}]
Off(d, s) == [dev EXCEPT ![d].on = @ \ {s}]
Closed(d, s) == [dev EXCEPT ![d].open = @ \ {s}]

\* The call is done with sensor s and goes on with the next, or to a place.
Done(s, place, todo) ==
    call' = IF call.todo = {s} THEN [call EXCEPT !.at = place, !.todo = todo]
            ELSE [call EXCEPT !.todo = @ \ {s}]

-----------------------------------------------------------------------------
(***************************************************************************)
(* start() and the second half of a reconnection: unsafe_start.            *)
(***************************************************************************)

\* The user changes the configuration, which forgets the resolved profile, for
\* another start().
Configure ==
    /\ call = NoCall /\ starts < MaxStarts
    /\ \E c \in Confs : user_conf' = c
    /\ UNCHANGED <<device, prev_conf, active, callback, call, agg, repeat,
                   bounds, sent, history>>

StartCall ==
    /\ call = NoCall /\ active = 0
    /\ starts < MaxStarts
    /\ starts' = starts + 1
    /\ \E cb \in BOOLEAN : callback' = cb
    /\ call' = [NoCall EXCEPT !.op = "start", !.at = "resolve", !.conf = user_conf]
    /\ UNCHANGED <<device, conf, active, agg, repeat, faults, ends, sent, history>>

\* The profile that was resolved before, or a new one for the device that is
\* there or comes in time.
Resolve ==
    /\ call.at = "resolve"
    /\ IF call.conf.cached # 0
       THEN /\ call' = [call EXCEPT !.at = "on_start", !.dev = call.conf.cached]
            /\ UNCHANGED <<dev, user_conf>>
       ELSE /\ IsFile \/ plugged # 0
            /\ dev' = Append(dev, [inc |-> plugged, streams |-> Resolved(call.conf),
                                   open |-> {}, on |-> {}])
            /\ user_conf' = IF call.op # "start" THEN user_conf
                            ELSE [user_conf EXCEPT !.cached = Len(dev')]
            /\ call' = [call EXCEPT !.at = "on_start", !.dev = Len(dev'),
                                    !.conf = [@ EXCEPT !.cached = Len(dev')]]
    /\ UNCHANGED <<kind, plugged, plugs, prev_conf, active, callback, agg,
                   repeat, bounds, sent, history>>

\* No device came in three times the time, or there is no stream to start.
ResolveFails ==
    /\ \/ call.at = "resolve" /\ call.conf.cached = 0
          /\ kind = "camera" /\ plugged = 0
       \/ call.at = "on_start" /\ dev[call.dev].streams = {}
    /\ call' = NoCall
    /\ UNCHANGED <<device, conf, active, callback, agg, repeat, bounds, sent,
                   history>>

\* Mutant: the frames of the previous start stay in the aggregator.
OnStartKept ==
    /\ call.at = "on_start" /\ dev[call.dev].streams # {}
    /\ agg' = [accepting |-> TRUE, dev |-> call.dev, streams |-> dev[call.dev].streams,
               last |-> agg.last, strays |-> {}, queue |-> OpenQueue]
    /\ base' = sent
    /\ subscribed' = IF IsFile THEN call.dev ELSE subscribed
    /\ dispatcher' = Started(dispatcher)
    /\ call' = [call EXCEPT !.at = "open", !.todo = dev[call.dev].streams]
    /\ UNCHANGED <<device, conf, active, callback, raising, item, crashed,
                   bounds, sent, shown>>

\* on_start: a new syncer and a new aggregator; then the subscription to the
\* end of a file and the start of the dispatcher.
OnStart ==
    /\ call.at = "on_start" /\ dev[call.dev].streams # {}
    /\ agg' = [accepting |-> TRUE, dev |-> call.dev, streams |-> dev[call.dev].streams,
               last |-> NoFrames, strays |-> {}, queue |-> OpenQueue]
    /\ base' = sent
    /\ subscribed' = IF IsFile THEN call.dev ELSE subscribed
    /\ dispatcher' = Started(dispatcher)
    /\ call' = [call EXCEPT !.at = "open", !.todo = dev[call.dev].streams]
    /\ UNCHANGED <<device, conf, active, callback, raising, item, crashed,
                   bounds, sent, shown>>

\* _multistream.open(), from the last sensor to the first, then start().
OpenSensor ==
    /\ call.at = "open"
    /\ LET s == Max(call.todo) IN
         /\ MayOpen(call.dev, s)
         /\ dev' = Opened(call.dev, s)
         /\ Done(s, "start", dev[call.dev].streams)
    /\ UNCHANGED <<kind, plugged, plugs, conf, active, callback, agg, repeat,
                   bounds, sent, history>>

StartSensor ==
    /\ call.at = "start"
    /\ LET s == Min(call.todo) IN
         /\ MayStart(call.dev, s)
         /\ dev' = On(call.dev, s)
         /\ Done(s, "set_active", {})
    /\ UNCHANGED <<kind, plugged, plugs, conf, active, callback, agg, repeat,
                   bounds, sent, history>>

\* Mutant: the error of a sensor is swallowed.
SensorThrowsSwallowed ==
    /\ \/ call.at = "open" /\ ~MayOpen(call.dev, Max(call.todo))
       \/ call.at = "start" /\ ~MayStart(call.dev, Min(call.todo))
    /\ call' = [call EXCEPT !.at = "set_active"]
    /\ UNCHANGED <<device, conf, active, callback, agg, repeat, bounds, sent,
                   history>>

\* A sensor throws, or fails, and so does the call.  What was opened and
\* started stays so.
SensorThrows ==
    /\ \/ call.at = "open" /\ ~MayOpen(call.dev, Max(call.todo))
          /\ UNCHANGED faults
       \/ call.at = "start" /\ ~MayStart(call.dev, Min(call.todo))
          /\ UNCHANGED faults
       \/ call.at \in {"open", "start"} /\ kind = "camera"
          /\ faults < MaxFaults /\ faults' = faults + 1
    /\ call' = NoCall
    /\ UNCHANGED <<device, conf, active, callback, agg, repeat, starts, ends,
                   sent, history>>

SetActive ==
    /\ call.at = "set_active"
    /\ active' = call.dev
    /\ call' = [call EXCEPT !.at = "set_conf"]
    /\ UNCHANGED <<device, conf, callback, agg, repeat, bounds, sent, history>>

SetConf ==
    /\ call.at = "set_conf"
    /\ prev_conf' = Copied(call.conf)
    /\ call' = IF call.op = "start" THEN NoCall ELSE [call EXCEPT !.at = "rewait"]
    /\ UNCHANGED <<device, user_conf, active, callback, agg, repeat, bounds,
                   sent, history>>

-----------------------------------------------------------------------------
(***************************************************************************)
(* stop() and the first half of a reconnection: unsafe_stop.               *)
(***************************************************************************)
StopCall ==
    /\ call = NoCall /\ active # 0
    /\ call' = [NoCall EXCEPT !.op = "stop", !.at = "halt"]
    /\ UNCHANGED <<device, conf, active, callback, agg, repeat, bounds, sent,
                   history>>

\* Mutant: the sensors are closed without being stopped.
HaltCloses ==
    /\ call.at = "halt"
    /\ agg' = [agg EXCEPT !.accepting = FALSE, !.queue = Stopped(@)]
    /\ subscribed' = 0
    /\ call' = [call EXCEPT !.at = "close", !.dev = active, !.todo = dev[active].streams]
    /\ UNCHANGED <<device, conf, active, callback, raising, dispatcher, item,
                   crashed, bounds, sent, history>>

\* The syncer, the aggregator and the subscription.
Halt ==
    /\ call.at = "halt"
    /\ agg' = [agg EXCEPT !.accepting = FALSE, !.queue = Stopped(@)]
    /\ subscribed' = 0
    /\ call' = [call EXCEPT !.at = "stop", !.dev = active, !.todo = dev[active].streams]
    /\ UNCHANGED <<device, conf, active, callback, raising, dispatcher, item,
                   crashed, bounds, sent, history>>

StopSensor ==
    /\ call.at = "stop"
    /\ LET s == Min(call.todo) IN
         /\ MayStop(call.dev, s)
         /\ dev' = Off(call.dev, s)
         /\ Done(s, "close", dev[call.dev].streams)
    /\ UNCHANGED <<kind, plugged, plugs, conf, active, callback, agg, repeat,
                   bounds, sent, history>>

CloseSensor ==
    /\ call.at = "close"
    /\ LET s == Min(call.todo) IN
         /\ MayClose(call.dev, s)
         /\ dev' = Closed(call.dev, s)
         /\ Done(s, "stop_dispatcher", {})
    /\ UNCHANGED <<kind, plugged, plugs, conf, active, callback, agg, repeat,
                   bounds, sent, history>>

\* A sensor throws: the rest is not stopped, and the error is swallowed.
StopThrows ==
    /\ \/ call.at = "stop" /\ ~MustStop(call.dev, Min(call.todo))
       \/ call.at = "close" /\ ~MayClose(call.dev, Min(call.todo))
    /\ kind = "camera"
    /\ call' = [call EXCEPT !.at = "reset"]
    /\ UNCHANGED <<device, conf, active, callback, agg, repeat, bounds, sent,
                   history>>

\* _dispatcher.stop() waits for the action that runs, but not for one that was
\* taken from the queue and does not run yet.
StopDispatcher ==
    /\ call.at = "stop_dispatcher"
    /\ item.at \in {"none", "taken"}
    /\ dispatcher' = Stopped(dispatcher)
    /\ call' = [call EXCEPT !.at = "reset"]
    /\ UNCHANGED <<device, conf, active, callback, agg, subscribed, raising,
                   item, crashed, bounds, sent, history>>

\* Mutant: the configuration is dropped and the profile is not.
ResetConfOnly ==
    /\ call.at = "reset"
    /\ prev_conf' = NoConf
    /\ call' = [call EXCEPT !.at = "reset_conf"]
    /\ UNCHANGED <<device, user_conf, active, callback, agg, repeat, bounds, sent,
                   history>>

Reset ==
    /\ call.at = "reset"
    /\ active' = 0
    /\ call' = [call EXCEPT !.at = "reset_conf"]
    /\ UNCHANGED <<device, conf, callback, agg, repeat, bounds, sent, history>>

ResetConf ==
    /\ call.at = "reset_conf"
    /\ prev_conf' = NoConf
    /\ callback' = FALSE
    /\ call' = IF call.op = "stop" THEN NoCall ELSE [call EXCEPT !.at = "resolve"]
    /\ UNCHANGED <<device, user_conf, active, agg, repeat, bounds, sent, history>>

-----------------------------------------------------------------------------
(***************************************************************************)
(* wait_for_frames, try_wait_for_frames and poll_for_frames.               *)
(***************************************************************************)
MayAsk == call = NoCall /\ active # 0 /\ ~callback

WaitCall ==
    /\ MayAsk
    /\ call' = [NoCall EXCEPT !.op = "wait", !.at = "wait"]
    /\ UNCHANGED <<device, conf, active, callback, agg, repeat, bounds, sent,
                   history>>

\* A frameset is there, for a call that waits or one that only looks.
Dequeue ==
    /\ call.at \in {"wait", "rewait"} \/ MayAsk
    /\ agg.queue.items # <<>>
    /\ shown' = Head(agg.queue.items)
    /\ agg' = [agg EXCEPT !.queue = Dequeued(@)]
    /\ call' = NoCall
    /\ UNCHANGED <<device, conf, active, callback, repeat, bounds, sent, base>>

\* Mutant: the call waits again while the camera is there.
WaitsAgain ==
    /\ call.at \in {"wait", "rewait"}
    /\ agg.queue.items = <<>>
    /\ call' = IF call.at = "wait" /\ Gone(active)
               THEN [call EXCEPT !.at = "halt", !.lost = active, !.conf = prev_conf]
               ELSE [call EXCEPT !.at = "wait"]
    /\ UNCHANGED <<device, conf, active, callback, agg, repeat, bounds, sent,
                   history>>

\* Mutant: the pipeline is started again with the user's configuration.
WaitTimesOutUserConf ==
    /\ call.at \in {"wait", "rewait"}
    /\ agg.queue.items = <<>>
    /\ call' = IF call.at = "wait" /\ Gone(active)
               THEN [call EXCEPT !.at = "halt", !.lost = active,
                                 !.conf = [user_conf EXCEPT !.cached = 0]]
               ELSE NoCall
    /\ UNCHANGED <<device, conf, active, callback, agg, repeat, bounds, sent,
                   history>>

\* The time is over: the call fails or, when the camera is gone, stops the
\* pipeline and starts it again as it was.
WaitTimesOut ==
    /\ call.at \in {"wait", "rewait"}
    /\ agg.queue.items = <<>>
    /\ call' = IF call.at = "wait" /\ Gone(active)
               THEN [call EXCEPT !.at = "halt", !.lost = active, !.conf = prev_conf]
               ELSE NoCall
    /\ UNCHANGED <<device, conf, active, callback, agg, repeat, bounds, sent,
                   history>>

-----------------------------------------------------------------------------
(***************************************************************************)
(* The threads of the device.                                              *)
(***************************************************************************)

\* Mutant: the frameset goes out as soon as one stream has a frame.
AggregatedAny(d, new, synced) ==
    LET last == [s \in Streams |-> IF d = agg.dev /\ s \in DOMAIN new THEN new[s]
                                   ELSE agg.last[s]]
    IN  [agg EXCEPT !.last = last,
            !.queue = IF synced THEN Enqueued(@, 1, last) ELSE @]

\* The aggregator is given frames of a device object, by the syncer or of a
\* stream that is not synchronized (handle_frame).  All streams must be there,
\* which without synchronized streams means that _last_set has as many
\* entries; the streams of another object have identifiers and entries of
\* their own.  Frames that are not synchronized wait for the next set of those
\* that are.
Aggregated(d, new, synced) ==
    LET last == [s \in Streams |-> IF d = agg.dev /\ s \in DOMAIN new THEN new[s]
                                   ELSE agg.last[s]]
        strays == agg.strays \cup (IF d = agg.dev THEN {} ELSE {d} \X (DOMAIN new))
        whole == IF synced THEN \A s \in agg.streams : last[s] # 0
                 ELSE /\ agg.streams \cap Synced = {}
                      /\ Cardinality({s \in Streams : last[s] # 0})
                            + Cardinality(strays) = Cardinality(agg.streams)
    IN  [agg EXCEPT !.last = last, !.strays = strays,
            !.queue = IF whole THEN Enqueued(@, 1, last) ELSE @]

\* Device object d delivers a frame of each stream of set; the callback uses
\* the syncer and the aggregator of the moment.
Deliver(d, set) ==
    /\ ~crashed
    /\ ~Gone(d) /\ set \subseteq dev[d].on
    /\ set \subseteq Synced \/ Cardinality(set) = 1
    /\ \A s \in set : sent[s] < MaxFrames
    /\ sent' = [s \in Streams |-> IF s \in set THEN sent[s] + 1 ELSE sent[s]]
    /\ agg' = IF agg.accepting
              THEN Aggregated(d, [s \in set |-> sent'[s]], set \subseteq Synced)
              ELSE agg
    /\ UNCHANGED <<device, conf, active, callback, call, repeat, bounds, history>>

\* A device object that the library does not refer to is destroyed as soon as
\* the user drops it too; its sensors stop and close.
Destroyed(d) ==
    /\ d \notin {active, call.dev, call.conf.cached, user_conf.cached, item.dev}
    /\ dev[d].open # {}
    /\ dev' = [dev EXCEPT ![d] = [@ EXCEPT !.open = {}, !.on = {}]]
    /\ UNCHANGED <<kind, plugged, plugs, conf, active, callback, call, agg, repeat,
                   bounds, sent, history>>

Unplug ==
    /\ kind = "camera" /\ plugged # 0 /\ plugs < MaxPlugs
    /\ plugged' = 0
    /\ UNCHANGED <<kind, plugs, dev, conf, active, callback, call, agg, repeat,
                   bounds, sent, history>>

PlugIn ==
    /\ kind = "camera" /\ plugged = 0
    /\ plugs' = plugs + 1 /\ plugged' = plugs + 1
    /\ UNCHANGED <<kind, dev, conf, active, callback, call, agg, repeat, bounds,
                   sent, history>>

\* The file of object d ends: its sensors stop and the status is raised to
\* who listens at this moment...
EndOfFile(d) ==
    /\ IsFile /\ ~crashed
    /\ dev[d].on # {} /\ ends < MaxEnds /\ ~raising
    /\ ends' = ends + 1
    /\ dev' = [dev EXCEPT ![d] = [@ EXCEPT !.on = {}]]
    /\ raising' = (subscribed = d)
    /\ UNCHANGED <<kind, plugged, plugs, conf, active, callback, call, agg,
                   subscribed, dispatcher, item, crashed, starts, faults, sent,
                   history>>

\* ... who invokes the dispatcher.
InvokeRepeat ==
    /\ raising
    /\ raising' = FALSE
    /\ dispatcher' = Enqueued(dispatcher, 10, "repeat")
    /\ UNCHANGED <<device, conf, active, callback, call, agg, subscribed, item,
                   crashed, bounds, sent, history>>

-----------------------------------------------------------------------------
(***************************************************************************)
(* The dispatcher: the file is started again.                              *)
(***************************************************************************)
ItemStep(from, next, ok) ==
    /\ item.at = from /\ ~crashed
    /\ item' = IF ok THEN next ELSE NoItem
    /\ crashed' = ~ok

TakeItem ==
    /\ item = NoItem /\ ~crashed /\ dispatcher.items # <<>>
    /\ item' = [item EXCEPT !.at = "taken"]
    /\ dispatcher' = Dequeued(dispatcher)
    /\ UNCHANGED <<device, conf, active, callback, call, agg, subscribed, raising,
                   crashed, bounds, sent, history>>

\* _active_profile is read ...
ReadActive ==
    /\ ItemStep("taken", IF active = 0 THEN NoItem ELSE [item EXCEPT !.at = "conf"], TRUE)
    /\ UNCHANGED <<device, conf, active, callback, call, agg, subscribed, raising,
                   dispatcher, bounds, sent, history>>

\* ... then _prev_conf, and _active_profile again for open() and for start().
ReadConf ==
    /\ ItemStep("conf",
                IF kind = "once" THEN NoItem
                ELSE [at |-> "open", dev |-> active, todo |-> dev[active].streams],
                prev_conf # NoConf /\ (kind = "once" \/ active # 0))
    /\ UNCHANGED <<device, conf, active, callback, call, agg, subscribed, raising,
                   dispatcher, bounds, sent, history>>

ReopenSensor ==
    LET s == Max(item.todo)
        more == item.todo # {s}
    IN  /\ ItemStep("open",
                    IF more THEN [item EXCEPT !.todo = @ \ {s}]
                    ELSE [at |-> "start", dev |-> active, todo |-> dev[active].streams],
                    more \/ active # 0)
        /\ dev' = Opened(item.dev, s)
        /\ UNCHANGED <<kind, plugged, plugs, conf, active, callback, call, agg,
                       subscribed, raising, dispatcher, bounds, sent, history>>

RestartSensor ==
    LET s == Min(item.todo)
    IN  /\ ItemStep("start",
                    IF item.todo # {s} THEN [item EXCEPT !.todo = @ \ {s}] ELSE NoItem,
                    TRUE)
        /\ dev' = On(item.dev, s)
        /\ UNCHANGED <<kind, plugged, plugs, conf, active, callback, call, agg,
                       subscribed, raising, dispatcher, bounds, sent, history>>

-----------------------------------------------------------------------------
CallStep ==
    /\ ~crashed
    /\ \/ Resolve \/ ResolveFails \/ OnStart \/ OpenSensor \/ StartSensor
       \/ SensorThrows \/ SetActive \/ SetConf
       \/ Halt \/ StopSensor \/ CloseSensor \/ StopThrows \/ StopDispatcher
       \/ Reset \/ ResetConf
       \/ WaitTimesOut \/ (call # NoCall /\ Dequeue)

ItemRuns == ReadActive \/ ReadConf \/ ReopenSensor \/ RestartSensor

PipelineNext ==
    \/ CallStep
    \/ ~crashed /\ (Configure \/ StartCall \/ StopCall \/ WaitCall \/ Dequeue)
    \/ \E d \in DOMAIN dev :
         \/ Destroyed(d) \/ EndOfFile(d)
         \/ \E set \in (SUBSET dev[d].on) \ {{}} : Deliver(d, set)
    \/ Unplug \/ PlugIn \/ InvokeRepeat
    \/ TakeItem \/ ItemRuns

\* A call that has begun goes on, waits end, and so do the dispatcher and the
\* threads of a file.  Nobody has to call, to deliver or to plug anything in.
Fairness ==
    /\ WF_pipelineVars(CallStep) /\ WF_pipelineVars(InvokeRepeat)
    /\ WF_pipelineVars(TakeItem) /\ WF_pipelineVars(ItemRuns)

PipelineSpec == PipelineInit /\ [][PipelineNext]_pipelineVars /\ Fairness

-----------------------------------------------------------------------------
\* A frameset that a program waits for is whole, and nothing in it was
\* delivered before the start() it belongs to.
FramesetsWhole ==
    \A i \in DOMAIN agg.queue.items : \A s \in agg.streams :
        agg.queue.items[i][s] > base[s]

\* The entries of _last_set are counted right: a device object that an earlier
\* start left on has delivered nothing since this start, or nothing counts.
CountedRight == agg.strays = {} \/ agg.streams \cap Synced # {}

\* What the three ways to ask for frames return, over every stop and start:
\* what waits in the aggregator's queue is whole and no stream ever goes back
\* in time from one frameset to the next, also next to a device object that is
\* still on when streams are synchronized; and each frameset shows something
\* new unless there is such an object.
FramesetsSound ==
    [][/\ CountedRight' => FramesetsWhole'
       /\ Dequeue /\ CountedRight => \A s \in agg.streams : shown'[s] >= shown[s]
       /\ Dequeue /\ agg.strays = {} =>
             \E s \in agg.streams : shown'[s] > shown[s]]_<<agg, base, shown>>

\* stop() stops the camera: without a call and without an active profile no
\* stream of the camera that is there is on, unless a start() failed halfway.
SilentWhenStopped ==
    kind = "camera" /\ call = NoCall /\ active = 0 /\ faults = 0 =>
        \A d \in DOMAIN dev : Gone(d) \/ dev[d].on = {}

\* While a profile is active every stream of its camera is on.
StreamsWhileActive ==
    kind = "camera" /\ call = NoCall /\ active # 0 => dev[active].on = dev[active].streams

\* Between two calls the streams of a camera are on that the active profile
\* asks for.
StreamsAsActive == PipelineTypeOK /\ SilentWhenStopped /\ StreamsWhileActive

\* A reconnection asks the new camera for the streams of the one that was
\* lost, as long as the configuration lists them; when it only disables some,
\* they come back (the copy constructor of config).
ReconnectsAsItWas ==
    [][call.op = "wait" /\ Len(dev') > Len(dev) =>
          LET was == dev[call.lost].streams
              now == dev'[Len(dev')].streams
          IN  was = now \/ (call.conf.want = {} /\ was \subseteq now)]_dev

\* The repeat of a file meets a null pointer only next to a call that starts
\* or after one that stops the pipeline, never while it is up.
CrashNeedsOverlap ==
    [][crashed' /\ ~crashed => call.at = "set_conf" \/ active = 0]_crashed

\* Every call returns, also when the camera is pulled out under it.
CallsReturn == (call # NoCall) ~> (call = NoCall \/ crashed)
=============================================================================
