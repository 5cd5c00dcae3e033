# Formal models of the dataset collection and of MC-Calib

This directory holds TLA+ models of the program in this repository, the TLC
runs that check them on small instances, and proofs checked by TLAPS.  Paths
below are relative to the repository.

## 1. Inventory

The repository collects images of ChArUco boards from several RealSense
cameras and computes where the cameras are relative to each other.

| Part | Where | State it keeps | Operations | Modelled |
|---|---|---|---|---|
| Board detection | `MC-Calib/McCalib/src/McCalib.cpp:143-377, 606-654` | `board_observations_`, `frames_`, `cams_obs_`, the views of them in `Camera`, `Board`, `Frame` | `detectBoards`, `detectBoardsWithCamera`, the pool task, `insertNewBoard` | `BoardExtraction` |
| Covisibility graph | `McCalib/src/Graph.cpp` | vertices, weighted edges | add, clear, components, shortest path | `CovisGraph`, `ShortestPath` |
| Calibration workflow | `McCalib.cpp:740-2153`, `apps/calibrate/src/calibrate.cpp:14-90` | objects, camera groups, their observations, pose pairs, four graphs | the functions of `runCalibrationWorkflow` | `Calibration` (abstract: `Grouping`) |
| Dataset capture | `capture_calibration.py` | the two image folders, `img_count` | capture, quit, restart | `DatasetCapture` |
| Keypoint cache | `McCalib.cpp:178-219, 505-560` | `detected_keypoints_data.yml` and what runs leave in it | detect, load, erode, save | `KeypointsCache` |
| Capture sessions | `claude/capture_realsense.py`, `claude/calibrate_from_captures.py` | `pose_NNN/`, `scene_NNN/`, intrinsics, extrinsics | capture keys, offline calibration, point clouds | `CaptureSession` |
| SDK: dispatcher | `librealsense/third-party/rsutils/.../concurrency.h`, `dispatcher.cpp` | a bounded queue, two flags, a worker thread | invoke in four ways, start, stop, destroy | `ConsumerQueue`, `Dispatcher` |
| SDK: frame synchronization | `librealsense/src/sync.cpp`, `src/proc/syncer-processing-block.cpp` | a queue of frames per stream, expected times, a queue of matches | dispatch, sync, hand out, stop | `FrameSync` |
| SDK: pipeline | `librealsense/src/pipeline/*`, `src/uvc-sensor.cpp`, `src/media/playback/playback_sensor.cpp` | active profile, configuration, aggregator, sensors | start, stop, wait, reconnect, repeat a file | `Pipeline` |
| Pose estimation, refinement | `BoardObs.cpp`, `CameraGroup.cpp`, `Object3DObs.cpp`, `geometrytools.cpp` | floating point poses | RANSAC, hand-eye, Ceres | only its effect on control: which boards keep a point, which pairs of groups have enough poses |
| Live calibration | `calibration.py` | a list of poses, one file at the end | capture, quit twice, view | no |
| SDK: the rest | `librealsense/` | vendored | backends, devices, processing blocks, recording, tools | no |
| Viewers, generators, plots | `liveCharucoDetection.py`, `chackCharuco.py`, `charucoGenerater.py`, `MC-Calib/python_utils`, ... | none that outlives an iteration | | no |

How they interact: every capture program starts a pipeline of the SDK per
camera and waits on it for framesets.  The device's threads feed the syncer,
which feeds the aggregator, from whose queue of one the program takes them; a
dispatcher starts a recorded file again at its end.  A capture script writes
one image folder per camera; MC-Calib lists each folder, detects boards with a
thread pool (the only concurrency of its own), keeps the detections in a file
that the next run may start from, and then runs sequentially on shared
containers that refer to each other by index and by weak pointer.  The
interaction is through queues inside the SDK, through those containers inside
MC-Calib, and through files between programs.

What is hard in it:

* **Concurrency**: all tasks of a camera enter `insertNewBoard`, which updates six
  containers with look-ups and writes; one mutex keeps them together.  In the SDK
  frames of each stream come on a thread of their own, `stop()` comes from
  another, and the repeat of a file reads what `start()` and `stop()` write under a
  mutex that it does not take.
* **Order**: the workflow builds and merges objects and groups five times, renumbers
  them each time, and reads what earlier stages left under the old numbers.
* **Boundaries**: weights below one in an `int` distance map; a pair of groups with
  three or four common poses; ties; a board without a point left; a `std::map`
  that creates what it is asked for.
* **Waiting**: callers sleep for room in a queue, for their own action, for the
  action that runs, for frames of a camera that is gone.
* **Time**: a stream that is late is waited for or given up by the expected time of
  its next frame, and may come back.
* **Partial failure and restart**: an image written to one folder only; a file
  closed after the first group; a start that fails with half the sensors open; a kill
  in the middle of any file, and a later run that reads what is there.

## 2. Modules

| Module | What it is |
|---|---|
| `BoardExtraction` | Detection with the thread pool, `insertNewBoard` in six steps. |
| `BoardExtractionProofs` | TLAPS proofs about it. |
| `CovisGraph` | The graph as operators: build, components, what paths a search can return. |
| `ShortestPath` | Dijkstra's search and `getPath` as a state machine, shown to return a member of `CovisGraph!Paths`. |
| `Calibration` | The workflow, one action per function, over `CovisGraph`. |
| `Grouping` | Abstract specification of clustering: parts are formed once, then only united, and what was measured is not lost. |
| `DatasetCapture` | The capture loop over its folders, with crashes, failing writes and restarts, and how MC-Calib pairs the images. |
| `ShortestPathProofs`, `CalibrationProofs`, `DispatcherProofs`, `FrameSyncProofs`, `CaptureSessionProofs`, `KeypointsCacheProofs` | TLAPS proofs about the module of that name. |
| `ConsumerQueue` | `single_consumer_queue` as operators on its state, used by the next three. |
| `Dispatcher` | The dispatcher: callers, worker, owner, sleepers on its condition variables. |
| `FrameSync` | The syncer over the timestamp matcher of one device, a thread per stream. |
| `Pipeline` | The pipeline with its configuration, aggregator and sensors, a camera that is unplugged or a file that ends. |
| `CaptureSession` | Capture sessions, the user who tidies up, and the offline calibration, over one directory. |
| `KeypointsCache` | Runs of MC-Calib over one file of keypoints. |
| `CaptureProofs` | TLAPS proofs about `DatasetCapture` and `Pipeline`. |
| `MC...` | Instances for TLC (`MCFilms` the films of the calibration, `MCCalibration` the scenes enumerated over them); `DatasetCapture`, `CaptureSession` and `KeypointsCache` are run as they are. |

### BoardExtraction

The main thread opens a folder, posts a task per image, joins the pool and goes
on to the next camera.  A thread takes tasks first in, first out; a task's
board loop is `SkipBoard`, `EndTask` or `Acquire`; inside the lock the code's
look-ups and the writes that use them are separate steps: `ReadSize` and
`Record` (`board_observations_[size()] = ...`), `FindFrame` and
`InsertInFrame`, `FindCamObs` and `InsertInCamObs`.  A mistake in the locking
would therefore show as an interleaving, and the mutant without the
lock does break `RecordedExact` and `NumbersStable`.  The detector is an input: an image is
unreadable or reports for each board its corners and whether they are
collinear; the acceptance test of lines 332-366 is in `Accepted`.
`Asserts` chooses a build with or without `assert`.

### CovisGraph and ShortestPath

All edges of the program have the weight `1 / n` for `n` measured poses, so an
edge carries `n`.  Vertex order is creation order, which decides the numbering of
components, as in Boost.  A component is given by what it is, the vertices that
lie in every set which no edge leaves (`Closed`), and a distance is the least sum of a walk
(`Walks`), not by an algorithm: that is what the proofs need.  `shortestPathBetween` hands Dijkstra an `int`
distance map: `1 / n` is added as 1 if `n` is 1 and as 0 otherwise.
`CovisGraph!Paths` gives every path the search may return; `ShortestPath`
models the search itself, with any nearest vertex expanded next, and
`PathIsExpected` shows that the operator describes its results, so `Calibration` uses
the operator and considers every such path.

### Calibration

The state is the program's containers; the order of calls is the sequence
`Workflow`, and each call is an action.  Poses are abstracted to the pair of
coordinate frames they map between, with composition defined only for
frames that fit: enough to tell a product in the wrong order, and nothing
about numbers.  `seen` are the board observations, `kept` those with a point
left after `estimatePose`.  Three ends of the program before its last
call are actions of their own: `NullObjectRead`, `NullGroupRead` (a null
pointer out of `operator[]`) and `EmptyPoseUsed` (the exception OpenCV throws
on a product with an empty matrix).  Which shortest path is taken at a tie
is a free choice for each vertex.

`object_observations` is a set with `copies` for how often each is stored,
because `mergeAllObjectObs` stores each observation once per object.
Containers that hold the same observations indexed differently (in
`Frame`, `Camera`, `CameraObs`, `Object3D`) are one variable here; that they agree
after detection is `BoardExtraction!ViewsAgree`.

### DatasetCapture

A shot is a number that counts up for ever; a file is its folder, its number and the shot
it holds.  Pressing space writes the file of the first camera, then that of the
second, then counts.  The process may be killed at any point and is started again, which sets `img_count` to 1;
a write may fail without notice, because the result of `imwrite` is not looked at.
A session may find the cameras in another order than the one before.
`Pairs` is what MC-Calib makes of the folders: `detectBoards` lists each one
in name order and numbers the images by position.

### ConsumerQueue and Dispatcher

Every operation of the queue holds its mutex throughout, so it is an operator
that a single step applies; its two waits are guards.  Waits without a
time limit are modelled with their sleepers (`no_room`, `asleep`): a sleeper
looks at its condition again only when it is notified, so a forgotten
`notify` or one that reaches the wrong thread shows as a failure of
`NothingHangs`.  Waits with a time limit are guards, with `WorkerTimeout` and
`Flushed` for the end of the time; no fairness is assumed of the former, so that
nothing depends on a timeout.  `invoke` reads `_was_stopped` in one step
(`Invoke`) and queues in another, as the code does without a lock; the worker's
`dequeue` and its lock of `_dispatch_mutex` are two steps (`Dequeue`,
`Dispatch`), and `stop()` is three.  One owner thread starts, stops and
destroys, as every user in the SDK does under a lock of its own.

What the model shows about the code beyond its properties: an action that the
worker has dequeued when `stop()` is called runs after `stop()` returned
(`StopClears` allows for one); with two threads in `invoke_and_wait`,
`notify_one` may wake the one whose action is not done, which is why the run
lets one thread wait; an action that throws leaves its caller to the exit condition; and an
action whose caller has left by the exit condition writes through dangling references
(`concurrency.h:352-358`).  `Told` leaves out what that write damages.

### FrameSync

A frame is its stream and a timestamp; `Scan`, `WaitsFor` and `PastCutout` are
the loop over first frames, and `skip_missing_stream`.  One turn of the loop
of `sync()` is a step, since `stop()` takes only the mutex it holds for a
turn.  A stream that is given up leaves `_frames_queue` and comes back with
its next frame (`Find`).  `TryCallback` fails when another thread hands out
matches; that thread may already have found the queue empty, so a match can be
left behind until the next frame, although the comment at
`syncer-processing-block.cpp:69` says the other thread will "dequeue all the
frames".  No property claims otherwise.

How close two timestamps must be to match depends on the rates of the two streams, so
matching is not transitive.  When an earlier frame takes the place of the one the
set goes by, what was in sync with the old one leaves the set unless it is in sync
with the new one too, and is not looked at again: with first
frames at 16, 12 and 13, the one at 12 of a stream at a third of the rate, the
set that goes is the frame at 13 alone.  `PassesOnlySlower` states which frames may stay
behind; `sync.cpp:386` says that there are none.  Left out: the conversion of timestamp domains
(`sync.cpp:547-553`) and the failure to allocate a composite frame (`sync.cpp:467-472`).

### Pipeline

All calls of the API hold `_mtx`, so one record, `call`, says which is under
way and where it is; sensors are opened, started, stopped and closed one step
each, in the order of `resolver.h`.  `active` and `prev_conf` are set in
two steps because the repeat of a file reads them without the mutex, in two steps as well
(`ReadActive`, `ReadConf`): between `pipeline.cpp:147` and 148, and once
`stop()` has reset them, it dereferences a null pointer (`crashed`).
`CrashNeedsOverlap` says that this is the only way.  A sensor of a camera throws when it
is not in the state a call expects, and at `open()` when the camera is gone; starting one that is open may
succeed or fail then (`uvc-sensor.cpp:382-394`).  One of a file does not throw.
`Resolve` takes the device object the configuration cached, also when its
camera is gone, and `Copied` leaves out the disabled streams, as `config.h:36`
does: after a reconnection a disabled stream is on.  The syncer is abstracted to any grouping
of frames that come together; `FrameSync` is the syncer.

The aggregator is made for one device object (`agg.dev`).  Streams are numbered anew
for each device object (`stream.cpp:15`), so the frames of an object that an earlier
start left on, which reach the aggregator of the moment through the callback, get entries
of their own in `_last_set` (`strays`) and replace none.  For streams
that are synchronized every stream must be there; without any, `aggregator.cpp:83` only compares the
numbers of entries, and strays count.  TLC shows what that does when the
premises of `FramesetsSound` are dropped.  Without `CountedRight`, and with `Synced = {2}`
in the run's configuration, a frame of the object that a failed `start()` left on
stands in for a stream of the present one, and a frameset goes out that is not whole.  Without `strays = {}`,
a set of the earlier object, for instance of a file that was started again by its repeat, finds
all streams there and makes the frameset that was returned last go out once more.  Both premises hold of
every behaviour in which no earlier object is left on.  Entries
without a frame that a synchronized set leaves in `_last_set` are not modelled.

Also seen, and left out of the properties: a sensor that fails during
`start()` leaves others streaming until the device object is destroyed
(`Destroyed`); an exception in `unsafe_stop` leaves the rest on; a file whose
end falls into the beginning of `start()`'s last steps may not be repeated.

### CaptureSession

A folder is its prefix and number, an image the capture it was taken in and
whether the board is seen; names sort as strings (`Key`), with base 3 and width 1
in place of 10 and 3: past the scenes 0, 1 and 2 of an earlier session the next capture is number 3,
whose name, "10", sorts before "2".  From there on `next_index` returns 3 for every capture, and
all go into one folder (`mixed`).  `SharedAtLimit`, a part of `CloudsPair`, states that this is so and that, as long as
no one tidies up, no other folder is shared; with a deleted or renamed folder other
numbers may be used twice.  Writing is one file a step; a write
may fail or leave a damaged file without notice, and both programs may be killed
anywhere.  The offline calibration may be run at any time, also while a session
writes.  `SamplesExact` says that its samples are single captures
seen by all cameras with intrinsics and that it skips none, except in mixed folders.

### KeypointsCache

A run is configured with its own number of cameras and boards, given or not
given camera parameters, built with or without assertions, and detects or
loads.  `EstimatePose` drops outliers and leaves the observation; the file is
then written from what is left.  So each run that loads starts from fewer
points than the one before, until an observation holds fewer than the four that `ransacP3P` reads
without asking (`wild`); `DetectionSuffices` says that this needs a loaded file.
`pruned` keeps of which boards outliers were dropped, by the present run or by those
the file comes from.  `LoadedAsSaved` says that a run that loads starts from what
the writer ended with, and that this is what was detected for all boards but those.  So two runs
with a file are not done "with the same detected keypoints" (`McCalib.cpp:500-502`).  Which object a
board belongs to is not known here: `Calibrate` chooses it, and `PointsIn` adds the points of the boards of one object.
A camera without detections is saved as empty lists, which a build with
assertions cannot load (`McCalib.cpp:208`); `EmptyNeedsParams` says that
it reaches the file only when camera parameters were given (perspective model; for
fisheye OpenCV's other function decides).  A kill while saving leaves a part of the
file, which the next run takes for the whole; the properties speak of whole files.

## 3. Runs

| Run | Instance | Shows |
|---|---|---|
| `board_extraction` | 2 cameras, 2 boards, 2 threads, folders of 0 to 2 images of four kinds | `RecordedExact`, `ViewsAgree`, `FramesOfFirst`, `NumbersStable`, `JoinedIsFinal`, `ExtractionEnds` in every interleaving |
| `shortest_path` | every graph over 4 vertices, edges measured 0, 1 or 2 times, every pair of ends | the predecessor map is a tree, the walk back ends, the path is one of `Paths` |
| `calibration` | 3 cameras and 3 frames with one of 2 boards or none per image; 4 cameras with a board each; 2 cameras and 2 frames with any of 3 boards per image and no, one or all detections outliers | `ObjectsExact`, `GroupsExact`, `FirstMergeExact`: parts are exactly what chains of common views justify; `BoardPosesSound`, `ObservationsCurrent`; `Gathers`: objects and groups implement `Grouping` |
| `dataset_capture` | 2 cameras in either order, 4 shots, 3 sessions, crashes and failed writes anywhere | as long as no write has failed: `SessionWhole`, `FoldersDense`, `DamageBounded`: what a session announced is there as taken, no number is skipped, and each crash costs at most one frame |
| `dispatcher` | 2 callers of 2 calls each in every mode, one of them waiting, queue of 2, 2 starts | `InvokeOrder`, `WaitIsSynchronous`, `StopClears`, and `NothingHangs`: blocked callers return, actions run, `stop()` and the destructor end |
| `frame_sync` | 3 streams, one of them at a third of the rate, frames skipped or missing, queues that overflow, `stop()` anywhere | `SetsAreTight`, `PassesOnlySlower`, `HeldBriefly`, `OnceOnly`, `ThreadsReturn` |
| `pipeline` | 2 sensors, 2 starts, a camera plugged in twice with one failure, a file repeated or played once, 2 configurations | `StreamsAsActive`, `FramesetsSound`, `ReconnectsAsItWas`, `CrashNeedsOverlap`, `CallsReturn` |
| `capture_session` | 2 cameras, 2 captures past 0 or 3 earlier scenes, 2 faults, 2 tidying steps | `SamplesExact`, `CloudsPair` |
| `keypoints_cache` | 2 cameras, frames and boards, 3 runs, poses of 2 points, 3 corners | `LoadedAsSaved`, `FileSound`, `DetectionSuffices` |

The type invariants of the last five, and that of `ShortestPath`, are conjuncts
of the first invariant named (`InvokeOrder`, `OnceOnly`, `StreamsAsActive`, `CloudsPair`,
`FileSound`, `TreeOfPredecessors`).  And runs in which TLC finds a statement of the source violated:

| Run | Statement | What happens |
|---|---|---|
| `camera_poses_sound` | "Compute the transformation wrt. the reference camera" (`McCalib.cpp:1131`) | from two hops on, the product is in the wrong order |
| `groups_co_viewed` | "Merge connected camera groups" (`McCalib.cpp:1538`) | the second merge uses the poses of the first one's numbering |
| `dataset_capture_failed` | "Capture synchronized frames" (`capture_calibration.py:44`) | one failed write shifts a folder, and all later frames pair different shots |

Four statements of the source are not true of the code in cases that the passing runs reach.  A
property of those runs says what is true instead:

| Statement | Property | What the code does |
|---|---|---|
| "Frames containing boards for this cameras" (`Camera.hpp:37`) | `FramesOfFirst` | a frame is in `frames_` of the camera whose observation came first, and of no other (`McCalib.cpp:631`) |
| "The synced frames should be the earliest possible!" (`sync.cpp:386`) | `PassesOnlySlower` | between streams of different rates an earlier frame may stay behind |
| "several calibration experiments ... with the same detected keypoints" (`McCalib.cpp:500-502`) | `LoadedAsSaved` | what `estimatePose` took for outliers is missing in the file (`BoardObs.cpp:153-161`) |
| `next_index`: the next number for the prefix (`capture_realsense.py:124`) | `SharedAtLimit` in `CloudsPair` | once `pose_1000` is there, 1000 is returned for every capture |

Other divergences were seen while modelling, without a run of their own:

* truncated weights: the path returned need not be the shortest (`Graph.cpp:118` against line 97);
* one order of a pair of groups may be posed and the other not (`McCalib.cpp:1467`
  against 1494), ties being broken separately for each order (line 1326);
* the file of camera parameters is closed after the first group (`McCalib.cpp:415` against 380);
* `mergeAllObjectObs` stores every observation once per object (line 1864 against 955);
* `initInterCamerasGraph` makes a vertex of a camera that observed no object (line 1085 against 1083);
* `findPairObjectForNonOverlap` counts pairs of observations, not frames (line 1315 against 1234);
* the second `initInterCamGroupGraph` can make vertices of groups that are gone (line 1527 against 1519);
* `McCalib.cpp:57` reads the key `quaternion_averaging:`, colon included, so a setting
  without the colon is not found.

And hazards that are real and reach no property: all detection threads write the same value to
`adaptiveThreshConstant` (`McCalib.cpp:304`); `hardware_concurrency()` may be 0 (line 244); the
bootstrapped hand-eye calibration may relate a group to itself (`geometrytools.cpp:730`);
`std::unique` without a sort (`CameraGroupObs.cpp:51`); an uncleared map of counts that is not read
again (`McCalib.cpp:1497`); the view of `calibration.py:435` keeps the first cloud.

### Bounds

* Two threads suffice for every conflict between two critical sections, and a
  third would only add a second waiter; two images per camera keep both busy
  and leave frames shared between cameras; two boards make the second one of
  a frame find what the first left; four kinds of image cover each branch of the acceptance test.
* Four vertices are the least with two disjoint paths of two hops and a path of three;
  counts 1 and 2 are the two classes the truncation tells apart.
* `MinCommonPoses` is 4 in the code (`McCalib.cpp:1467`).  The passing runs of
  `Calibration` use 2, so that hand-eye poses exist within three frames; nothing else
  depends on it.  The runs that refute a statement use 4.  `MCCalibration` unites three families of
  films in one run: the constants are those of the largest, each film uses what it needs.
* Frames are taken in ascending order of their content: no property tells two frames apart.
* Three cameras, boards or groups in a chain are the least for a path of two hops,
  and four groups the least for a null group at the second merge.
* A queue of two actions is full while the worker has taken a third; two calls of two callers
  fill it and overflow it; two starts let an action of before a stop meet the time after it.
* Gaps of 4, 12 and 4 ticks and first frames at 12 or 16, at 12 and at 13 make frames of different
  rates equivalent and those of one rate not, so which frame a set goes by matters; steps of one gap
  and of three make a stream late past the cutout (1 gap here, 7 in the code).  Three frames of one stream and
  one of each other let a stream be given up and come back; the three overflow its queue of two.
* Two starts and two plugs let every call meet the device object of the one before; one
  failure, one end of the file and two frames per stream suffice for every pair of a
  failure and a call.  One stream is synchronized and one is not, which is what the aggregator tells apart.
* Past three earlier scenes the first capture takes the first number past the width (base 3, width 1), and
  the second takes it again; two faults damage two
  files of a capture, two tidying steps delete and rename.
* `MinPose` is 4 in the code and 2 in the run, with 3 corners: enough for a board to be accepted,
  to lose a point, and to fall below the minimum.  Three runs are write, erode, read.

### Fairness

`BoardExtraction` assumes weak fairness of the main thread and of each pool
thread: the operating system runs a thread that can run.  The lock needs none of
its own, since work is finite.  `ShortestPath` is a function that runs to its end.
`Dispatcher`: weak fairness of each thread that can run, strong fairness of the end of an action,
since it alternates with `try_sleep` (actions are finite, sleeps have a limit); none of the calls
and none of the worker's time limits.  `FrameSync`: a thread that has a frame goes on with it.
`Pipeline`: a call under way goes on, waits with a limit end, and the dispatcher and the file's thread run;
nobody has to call, deliver frames or plug a camera in.
`Calibration`, `DatasetCapture`, `CaptureSession` and `KeypointsCache` state safety only and assume no fairness.

## 4. Proofs

`BoardExtractionProofs` proves, for any number of cameras, boards, threads and
images, under the assumptions on the constants in `BoardExtraction`:

* `TypeCorrect`: `Spec => []TypeOK`;
* `DetectionsExact`: `Spec => []RecordedExact`;
* `NumbersAreStable`: `Spec => NumbersStable`;
* `ViewsAlwaysAgree`: `Spec => []ViewsAgree`;
* `FramesGoToFirst`: `Spec => []FramesOfFirst`.

None of these is inductive.  `Inv1` adds to the types that a thread inside
`insertNewBoard` holds the lock (so there is one), that threads have different tasks,
that tasks were handed out and belong to the current camera.  `Inv2` adds
what the thread in the critical section has read and that it is still true:
`key` is the length of `board_observations_` until it is written, `found` tells
whether the frame or the camera observation is there.  For `ViewsAgree`,
the containers are described at every program counter: equal to the views of
`Recorded`, or of `Recorded` without the observation being inserted, according to
how far the thread has come (`Behind`).  `FirstInv` does the same for `FramesOfFirst`.  Each step then has a lemma for the
container it writes, and a lemma for all steps that write none.

`JoinedStaysFinal`, `Spec => JoinedIsFinal`, follows from `Inv1` alone: the only
step that writes `cam_boards` is `Record`, and `TaskInv` says that its task is of the
current camera.

`CaptureProofs` proves of `DatasetCapture`, for any number of cameras, shots (below 1000)
and sessions, `TypeCorrect`, `AnnouncedShotsStay` (`SessionWhole`),
`NumbersAreDense` (`FoldersDense`) and `CrashDamageBounded` (`DamageBounded`).
`TypeOK` needs that a session has taken a shot for each number it used, or
`img_count` might run past the last number (`Counted`).  `Announced` adds what has been
written of the shot being saved, `NumbersInv` that every number below
`img_count` is in both folders.  `DamageBounded` is about positions in a
listing: the proof counts instead the numbers under which the folders differ,
without the one the second write is about to settle (`Settled`): no step but
a crash adds one, and a crash adds at most one.  In a folder without gaps
the position of a file tells its number (`NumberIsPosition`), which carries the
bound over to what MC-Calib pairs.

`DispatcherProofs`, for any callers, ways of calling, capacity and number of starts:
`DispatchInOrder` (`InvokeOrder`), `InvokeAndWaitIsSynchronous` (`WaitIsSynchronous`) and
`StopLeavesNothing` (`StopClears`).  `DispatcherInv` says that the queue and the action of the worker
before it hold each caller's actions in the order of its calls (`QueueOrder`), that a caller between its look at
`_was_stopped` and the queue has nothing later than its present call in it (`CallsMade`), and where the
owner and the worker stand when the flags are set (`Stopping`).  Dropping the oldest action of a full
queue keeps an order, which is why a capacity of one is as good as any.

`ShortestPathProofs`, for any graphs whose number of vertices fits into an `int`:
`PredecessorsFormTree` (`TreeOfPredecessors`) and `SearchFindsExpectedPath` (`PathIsExpected`).  `SearchInv` is
that of Dijkstra's search with weights truncated to 0 and 1: expanded vertices have their final distance
and those still gray differ by at most one hop; since a hop may cost nothing,
distances alone do not rule out a cycle, and `NoCycle` bounds it by the order of expansion;
`SourceFirst` is why a neighbour at distance 0 hangs directly below the source.
This is the theorem that lets `Calibration` use `CovisGraph!Paths`.

`CalibrationProofs`, for any numbers of cameras, frames and boards (at least one board), any images and any
`MinCommonPoses`, states every property of the run `calibration`:

* `WellFormed` (`TypeOK`) and `ReadsAreCurrent` (`ObservationsCurrent`) follow from `ShapeInvariant`.
  `Shape` is indexed by the position in `Workflow`: which observations are those of the present objects and
  groups and between which calls they are not (`Fresh`), which graph is that of which observations
  (`PairGraphs`, `GroupGraph`), and that objects and groups are numbered without gap, disjoint, and hold everything
  measured (`Objects`, `Groups`).  `PairsExist` is needed because `initNonOverlapPair` creates what it looks up:
  at most object 0 is created null, so the numbering keeps no gap, and
  the program ends at the next `initInterObjectsGraph`.
* `BoardsArePlaced` (`BoardPosesSound`): along any route `Along` maps the frame of the vertex to that of the start
  (`AlongPath`), for the hops of `init3DObjects` and, by induction over the merge, those of `mergeObjects`.
* `ObjectsAreJustified` (`ObjectsExact`) and `GroupsAreJustified` (`GroupsExact`) split the finest partition in two.
  Nothing is linked across two parts (`Apart`) only until groups are merged, for a merged group links more boards.
  No part falls into unlinked halves (`Whole`) always, since `GroupLinks` only grow (`GroupLinksGrow`)
  and a merged object is as whole as the objects in it and the common frames that joined them (`MergedObjectsJust`).
  Both rest on `ComponentsFinest`: the components of a graph are the finest partition its edges allow.
* `FirstMergeUnites` (`FirstMergeExact`): at the first `mergeCameraGroup` the hand-eye poses are of present groups
  (`GroupGraph`).  At the second they need not be, and the property is then false (`groups_co_viewed`).
* `OnlyGathers` (`Gathers`): the refinement of `Grouping`, for objects and for groups.  `init3DObjects` and
  `initCameraGroup` are steps `Form`, `mergeObjects` and `mergeCameraGroup` steps `Unite`, all others stutter:
  the null objects of `initNonOverlapPair` have no board and are no part.

`FrameSyncProofs`, for any streams, rates, timestamps, capacity and cutout: `ReleasedSetsAreTight`
(`SetsAreTight`), `FramesAreHeldBriefly` (`HeldBriefly`), `FramesGoOutOnce` (`OnceOnly`).  `FrameSyncInv` says
that one thread holds the syncer's mutex, that what waits in a queue, among the matches and in a thread's hands is in
the order of its stream, and that the frame being dispatched is the newest of its stream (`NewestLast`).
`OnlySlowerArePassed` (`PassesOnlySlower`), for any mixture of rates, is an induction along the scan: a
frame that was dropped from the set or passed over is later than one that is in it, or in sync with that one
and of a slower stream.

`CaptureSessionProofs`, for any cameras, captures, faults, tidying, base and width of the names: `CloudsAlwaysPair`
(`CloudsPair`) and `SamplesAreExact` (`SamplesExact`).  The invariant says of every folder that was not
saved into twice that its images are of one capture (`FoldersSound`), of the capture under way which files it has written
(`SavingSound`), and that up to the last number of the width names sort as numbers do, so `next_index`
returns a free one (`Numbered`), and that without tidying the numbers of a prefix have no gap and end at
`Limit`, the first past the width (`Dense`).  Then the last name in the order of strings is that of `Limit - 1`, and
`next_index` returns `Limit` whether it is there or not.

`KeypointsCacheProofs`, for any number of cameras, boards, frames and runs: `LoadsWhatWasSaved` (`LoadedAsSaved`),
`FileStaysSound` (`FileSound`) and `DetectionSufficesForPose` (`DetectionSuffices`).  `CacheInv` says that the
file is what its writer has saved so far (`SavedInv`), that observations and file hold a board of a camera in all
frames it was detected in or in none (`AllOrNone`), and that a camera is empty in the file only if parameters were given.
`PrunedInv` follows the dropped points from `EstimatePose` through the file into later runs.

Of `Pipeline`, `CaptureProofs` proves every property but liveness, for any streams, configurations,
device kinds and bounds:

* `StreamsOn` (`StreamsAsActive`).  `ShapeInv`, on which all four rest, says where a call
  can be and what it then has (`CallInv`), what a device object is (`DevInv`), that a repeat has
  sensors left (`ItemInv`), which configuration belongs to which object (`ConfInv`), and, for the type of
  `dev`, that there is at most one object for each `start()` and each camera plugged in (`CountInv`): a reconnection
  makes one only for a camera that came after the last.  `SensorInv` adds how far a call has come with
  the sensors, in the order of `resolver.h`.  `QuietInv` says of a behaviour without faults that what is on
  is the active profile's or the one being started, and that the sensors to be opened or
  started are then in the state that their calls expect: this is why `start()` fails halfway only when
  the camera has left.
* `FramesSound` (`FramesetsSound`).  `FramesInv` says that what the aggregator holds is of its own streams and came
  since the start, and that the frameset in the queue is between what was returned and
  `_last_set`.  Without synchronized streams as many entries as streams and no stray mean every
  stream (`AllThere`).
* `ReconnectsSame` (`ReconnectsAsItWas`) and `RepeatCrash` (`CrashNeedsOverlap`) follow from `ConfInv`: while a profile is
  active and no call is at `set_conf`, `_prev_conf` is there and lists its streams or
  none, and a reconnection carries it past `unsafe_stop`, which resets it.

What all of them assume of the constants is the assumption of the module, which the runs evaluate.  `CaptureAssumption`
says that `Base ^ Width` is a number of at least 3, which the provers do not know because they know nothing of `^`
(with fewer, the last name in the order of strings is not that of `Limit - 1`; in the code it is 1000).
`SizesAssumption` asks for a board, without which `mergeAllObjectObs` would still count one copy of no observation.

Three techniques recur.  Induction is not available, so its place is taken by a set
of counterexamples and its least number (`LeastNumber`).  A recursive function is unfolded by showing
that a function with its equation exists (`StepsExist`, `PrefixesExist`, `LooksExist`), which a `CHOOSE` then
has to be.  And each action keeps the invariant by a lemma of its own, or, in `Calibration`,
each variable by a lemma: `Changes` lists the calls that change it, `CallPlaces` where they are.

Model-checked only: liveness (`ExtractionEnds`, `PathReturned`, `NothingHangs`, `ThreadsReturn`, `CallsReturn`), which is beyond
the prover.  Every other property of a passing run is a theorem.

## 5. Not modelled

* Numbers: pose estimation, averaging, refinement and reprojection errors; pixel arithmetic of the SDK's
  processing blocks.  The models keep what control depends on.
* Output: drawing, logging and the other exported files (`save3DObj`, `save3DObjPose`,
  `saveReprojectionErrorToFile`), which read the final state and change none; board generators, plots.
* `calibration.py`: one sequential loop that keeps a list and writes one file at its end; nothing
  runs next to it and nothing but that file survives it.
* Of the SDK: the kernel and USB backends and the firmware interface, whose behaviour is not in this
  repository; the tables of devices and options; the viewer, tools, wrappers and tests; recording and
  the ROS bag format, which no program here uses.  Of the syncer, the matcher by frame number and
  composites of several devices; of the pipeline, recording and the choice among
  several devices.  These are most of the lines of the repository, and the share of
  lines that is modelled is small for that reason.

## 6. Plan

1. `BoardExtraction` and `DatasetCapture` with their proofs, `CovisGraph`,
   `ShortestPath`, `Calibration`, `Grouping`: done.
2. `KeypointsCache`, `CaptureSession`, `ConsumerQueue`, `Dispatcher`, `FrameSync`, `Pipeline`: done.
3. Proofs of `ShortestPath`, `Calibration` with its refinement of `Grouping`, `Dispatcher`, `FrameSync`,
   `CaptureSession`, `KeypointsCache` and `Pipeline`: done.
4. Left: what no proof reaches, the liveness properties.
