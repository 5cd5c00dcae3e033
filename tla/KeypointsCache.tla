---------------------------- MODULE KeypointsCache ----------------------------
(***************************************************************************)
(* Runs of MC-Calib that keep their detections in a file and start from    *)
(* it: boardExtraction, loadDetectedKeypoints and saveDetectedKeypoints,   *)
(* with what happens to the observations in between.  The file is          *)
(* detected_keypoints_data.yml in save_path; several configurations under  *)
(* configs/ name it as their keypoints_path, so that a run reads what the  *)
(* run before wrote and writes it again.                                   *)
(*                                                                         *)
(* An observation is the camera, the frame and the board, and how many     *)
(* corners it has.  One process at a time; it may be killed anywhere.      *)
(***************************************************************************)
EXTENDS FiniteSetsExt, SequencesExt

CONSTANTS
    NbCamera, NbFrame, NbBoard,
    MinPose,        \* the points a pose needs, 4 in the code
    NbBoardEst,     \* the observations that initializeCalibration takes
    MaxPoints,      \* bound: the corners detected of a board
    MaxObs,         \* bound: the images of boards
    MaxRuns         \* bound: runs

ASSUME CacheAssumption ==
    /\ {NbCamera, NbFrame, NbBoard, NbBoardEst, MinPose} \subseteq Nat \ {0}
    /\ {MaxPoints, MaxObs, MaxRuns} \subseteq Nat

VARIABLES
    images,     \* the corners to be found: <<camera, frame, board>> -> number
    file,       \* the file: its cameras, whether it goes on with a part of one,
                \* and whether it was written to its end
    run,        \* the program: its configuration and where it is
    obs,        \* board_observations_
    wild,       \* where an element past the end of a vector was first used
    runs,
    given,      \* history: whether a run was given camera parameters
    last,       \* history: the observations the whole file was written from
    pruned      \* history: the boards whose outliers were dropped, among the
                \* observations of the run and among those in the file

vars == <<images, file, run, obs, wild, runs, given, last, pruned>>

-----------------------------------------------------------------------------
Cameras == 0 .. NbCamera - 1
Keys == Cameras \X (0 .. NbFrame - 1) \X (0 .. NbBoard - 1)
KeyOf(o) == <<o.cam, o.frame, o.board>>
Observations ==
    [cam : Cameras, frame : 0 .. NbFrame - 1, board : 0 .. NbBoard - 1,
     pts : 0 .. MaxPoints]

NoFile == [is |-> "none", cams |-> <<>>, torn |-> FALSE]
NoRun == [at |-> "off", cams |-> 0, boards |-> 0, params |-> FALSE,
          asserts |-> FALSE, from |-> "images"]

TypeOK ==
    /\ DOMAIN images \subseteq Keys
    /\ file \in [is : {"none", "cut", "whole"}, cams : Seq(Seq(Observations)), torn : BOOLEAN]
    /\ Len(file.cams) <= NbCamera
    /\ \A i \in DOMAIN file.cams :
          Range(file.cams[i]) \subseteq {o \in Observations : o.cam = i - 1}
    /\ run \in [at : {"off", "start", "extracted", "initialized", "posed", "saving"},
                cams : 0 .. NbCamera, boards : 0 .. NbBoard, params : BOOLEAN,
                asserts : BOOLEAN, from : {"images", "file"}]
    /\ obs \in Seq({o \in Observations : o.cam < run.cams /\ o.board < run.boards})
    /\ \A i, j \in DOMAIN obs : KeyOf(obs[i]) = KeyOf(obs[j]) => i = j
    /\ wild \in {"nowhere", "pose", "object"}
    /\ runs \in 0 .. MaxRuns /\ given \in BOOLEAN
    /\ last \subseteq Observations
    /\ pruned \in [run : SUBSET Keys, file : SUBSET Keys]

Init ==
    /\ \E seen \in UNION {kSubset(n, Keys) : n \in 0 .. MaxObs} :
         images \in [seen -> 1 .. MaxPoints]
    /\ file = NoFile /\ run = NoRun /\ obs = <<>>
    /\ wild = "nowhere" /\ runs = 0 /\ given = FALSE /\ last = {}
    /\ pruned = [run |-> {}, file |-> {}]

\* The run goes on, or ends.
GoesTo(place) == run' = [run EXCEPT !.at = place]
Ends == run' = NoRun /\ obs' = <<>> /\ pruned' = [pruned EXCEPT !.run = {}]

-----------------------------------------------------------------------------
(***************************************************************************)
(* boardExtraction                                                         *)
(***************************************************************************)

\* A run is configured: how many cameras and boards, whether it is given the
\* camera parameters, whether the build keeps its assertions, and whether
\* keypoints_path names the file.
StartRun ==
    /\ run = NoRun /\ runs < MaxRuns
    /\ runs' = runs + 1
    /\ \E cams \in 1 .. NbCamera, boards \in 1 .. NbBoard,
          params, asserts, reuse \in BOOLEAN :
         /\ run' = [at |-> "start", cams |-> cams, boards |-> boards,
                    params |-> params, asserts |-> asserts,
                    from |-> IF reuse /\ file.is # "none" THEN "file" ELSE "images"]
         /\ given' = (given \/ params)
    /\ UNCHANGED <<images, file, obs, wild, last, pruned>>

\* Mutant: any board with a corner is taken.
AcceptedAny(n) == n > 0

\* A board is taken with more than four corners; the detector's own threshold
\* is not lower.
Accepted(n) == n > MinPose

Detected ==
    {[cam |-> k[1], frame |-> k[2], board |-> k[3], pts |-> images[k]] :
        k \in {m \in DOMAIN images :
                 m[1] < run.cams /\ m[3] < run.boards /\ Accepted(images[m])}}

\* detectBoards: camera after camera; the images of a camera in any order, the
\* boards of an image in theirs (module BoardExtraction).
DetectBoards ==
    /\ run.at = "start" /\ run.from = "images"
    /\ obs' \in {q \in SetToSeqs(Detected) :
                   \A i, j \in DOMAIN q : i < j =>
                      /\ q[i].cam <= q[j].cam
                      /\ q[i].cam = q[j].cam /\ q[i].frame = q[j].frame
                            => q[i].board < q[j].board}
    /\ GoesTo("extracted")
    /\ UNCHANGED <<images, file, wild, runs, given, last, pruned>>

\* The lists of a camera: one that is not in the file has none.
Entry(c) == IF c < Len(file.cams) THEN file.cams[c + 1] ELSE <<>>

Loaded == FlattenSeq([i \in 1 .. run.cams |-> Entry(i - 1)])

\* A part of a camera is refused by the parser or, being uneven lists, by the
\* assertion or by the memory; a board the run does not have is a null pointer.
Unloadable ==
    \/ \E c \in 0 .. run.cams - 1 : Entry(c) = <<>> /\ run.asserts
    \/ \E i \in DOMAIN Loaded : Loaded[i].board >= run.boards

LoadDetectedKeypoints ==
    /\ run.at = "start" /\ run.from = "file"
    /\ ~Unloadable
    /\ obs' = Loaded
    /\ pruned' = [pruned EXCEPT !.run = pruned.file]
    /\ GoesTo("extracted")
    /\ UNCHANGED <<images, file, wild, runs, given, last>>

LoadFails ==
    /\ run.at = "start" /\ run.from = "file"
    /\ Unloadable \/ (file.torn /\ run.cams > Len(file.cams))
    /\ Ends
    /\ UNCHANGED <<images, file, wild, runs, given, last>>

-----------------------------------------------------------------------------
(***************************************************************************)
(* The calibration, as far as it bears on the observations.                *)
(***************************************************************************)
Of(c) == {i \in DOMAIN obs : obs[i].cam = c}

\* The observations the intrinsics of camera c may be initialized from.
Chosen(c) == kSubset(Min({NbBoardEst, Cardinality(Of(c))}), Of(c))

\* calibrateCamera, which the perspective model uses, throws without a view or
\* for one with too few points.
Calibrates(views) == views # {} /\ \A i \in views : obs[i].pts >= MinPose

\* Mutant: a camera without a view is passed over.
InitializeCalibrationSkips ==
    /\ run.at = "extracted"
    /\ \/ /\ run.params \/ \A c \in 0 .. run.cams - 1 :
                              \E views \in Chosen(c) : Calibrates(views) \/ views = {}
          /\ GoesTo("initialized") /\ UNCHANGED <<obs, pruned>>
       \/ /\ ~run.params
          /\ \E c \in 0 .. run.cams - 1 :
               \E views \in Chosen(c) : ~Calibrates(views)
          /\ Ends
    /\ UNCHANGED <<images, file, wild, runs, given, last>>

\* initializeCalibrationAllCam: the parameters are given, or computed from a
\* random choice of observations.
InitializeCalibration ==
    /\ run.at = "extracted"
    /\ \/ /\ run.params \/ \A c \in 0 .. run.cams - 1 :
                              \E views \in Chosen(c) : Calibrates(views)
          /\ GoesTo("initialized") /\ UNCHANGED <<obs, pruned>>
       \/ /\ ~run.params
          /\ \E c \in 0 .. run.cams - 1 :
               \E views \in Chosen(c) : ~Calibrates(views)
          /\ Ends
    /\ UNCHANGED <<images, file, wild, runs, given, last>>

\* The first four points are used whether they are there or not.
Wild(set, place) ==
    wild' = IF wild = "nowhere" /\ \E n \in set : n < MinPose THEN place ELSE wild

\* estimatePoseAllBoards: outliers are dropped from every observation, and the
\* observation stays.  One with too few points reads past the end, which the
\* program may survive.
EstimatePose ==
    /\ run.at = "initialized"
    /\ Wild({obs[i].pts : i \in DOMAIN obs}, "pose")
    /\ \/ /\ \E kept \in [DOMAIN obs -> 0 .. MaxPoints] :
               /\ \A i \in DOMAIN obs : kept[i] <= obs[i].pts
               /\ obs' = [i \in DOMAIN obs |-> [obs[i] EXCEPT !.pts = kept[i]]]
               /\ pruned' = [pruned EXCEPT !.run = @ \cup
                     {KeyOf(obs[i]) : i \in {j \in DOMAIN obs : kept[j] < obs[j].pts}}]
          /\ GoesTo("posed")
       \/ /\ \E i \in DOMAIN obs : obs[i].pts < MinPose
          /\ Ends
    /\ UNCHANGED <<images, file, runs, given, last>>

\* The points of the object that board i is part of, in the image of i; an
\* object without points is not observed.
PointsIn(object, i) ==
    MapThenSumSet(LAMBDA j : obs[j].pts,
        {j \in Of(obs[i].cam) : /\ obs[j].frame = obs[i].frame
                               /\ object[obs[j].board] = object[obs[i].board]})
ObjectPoints(object) == {PointsIn(object, i) : i \in DOMAIN obs} \ {0}

\* The rest of the workflow, which makes objects of the boards, poses them and
\* may end in an error (module Calibration); then the file is opened, which
\* empties it.
Calibrate ==
    /\ run.at = "posed"
    /\ \E object \in [0 .. NbBoard - 1 -> 0 .. NbBoard - 1] : Wild(ObjectPoints(object), "object")
    /\ \/ /\ GoesTo("saving")
          /\ file' = [is |-> "cut", cams |-> <<>>, torn |-> FALSE]
          /\ pruned' = [pruned EXCEPT !.file = pruned.run]
          /\ last' = {} /\ UNCHANGED obs
       \/ Ends /\ UNCHANGED <<file, last>>
    /\ UNCHANGED <<images, runs, given>>

-----------------------------------------------------------------------------
(***************************************************************************)
(* saveDetectedKeypoints                                                   *)
(***************************************************************************)
Before(o, p) == o.frame < p.frame \/ (o.frame = p.frame /\ o.board < p.board)

\* The observations of camera c, as the std::maps are walked.
Sorted(c) ==
    CHOOSE q \in SetToSeqs({obs[i] : i \in Of(c)}) :
        \A i, j \in DOMAIN q : i < j => Before(q[i], q[j])

\* Mutants: the frames are those the camera was the first to see; only
\* observations with enough points are written.
SaveOwnFrames ==
    LET c == Len(file.cams)
        first(f) == \A i \in DOMAIN obs : obs[i].frame = f => obs[i].cam >= c
        own == SelectSeq(Sorted(c), LAMBDA o : first(o.frame))
    IN  /\ run.at = "saving" /\ c < run.cams
        /\ file' = [file EXCEPT !.cams = Append(@, own)]
        /\ UNCHANGED <<images, run, obs, wild, runs, given, last, pruned>>
SaveValid ==
    LET c == Len(file.cams)
        valid == SelectSeq(Sorted(c), LAMBDA o : o.pts >= MinPose)
    IN  /\ run.at = "saving" /\ c < run.cams
        /\ file' = [file EXCEPT !.cams = Append(@, valid)]
        /\ UNCHANGED <<images, run, obs, wild, runs, given, last, pruned>>

\* The next camera: its observations by frame and board.
SaveCamera ==
    /\ run.at = "saving" /\ Len(file.cams) < run.cams
    /\ file' = [file EXCEPT !.cams = Append(@, Sorted(Len(file.cams)))]
    /\ UNCHANGED <<images, run, obs, wild, runs, given, last, pruned>>

Release ==
    /\ run.at = "saving" /\ Len(file.cams) = run.cams
    /\ file' = [file EXCEPT !.is = "whole"]
    /\ last' = Range(obs)
    /\ Ends
    /\ UNCHANGED <<images, wild, runs, given>>

\* The program is killed; of what it was writing, some may be on the disk.
Kill ==
    /\ run.at # "off"
    /\ IF run.at # "saving" THEN UNCHANGED file
       ELSE \E n \in 0 .. Len(file.cams), torn \in BOOLEAN :
              /\ n < run.cams \/ ~torn
              /\ file' = [file EXCEPT !.cams = SubSeq(@, 1, n), !.torn = torn]
    /\ Ends
    /\ UNCHANGED <<images, wild, runs, given, last>>

-----------------------------------------------------------------------------
Next ==
    \/ StartRun \/ DetectBoards \/ LoadDetectedKeypoints \/ LoadFails
    \/ InitializeCalibration \/ EstimatePose \/ Calibrate
    \/ SaveCamera \/ Release \/ Kill

Spec == Init /\ [][Next]_vars

-----------------------------------------------------------------------------
\* Observations as they were detected, but for the outliers of some boards.
AsDetected(O, boards) ==
    \A o \in O :
        /\ KeyOf(o) \in DOMAIN images
        /\ IF KeyOf(o) \in boards THEN o.pts < images[KeyOf(o)] ELSE o.pts = images[KeyOf(o)]

\* A run that loads a file that was written to its end has the observations its
\* writer ended with, as far as it has the cameras, numbered by camera, frame
\* and board (saveDetectedKeypoints, loadDetectedKeypoints).  The comment says
\* that the saved keypoints serve for "several calibration experiments ... with
\* different parameters with the same detected keypoints", and that is not so:
\* the points are those detected only for the boards of which no run before
\* dropped outliers (estimatePose); of the others points are missing.
LoadedAsSaved ==
    run.at = "extracted" /\ run.from = "file" /\ file.is = "whole" =>
        /\ Range(obs) = {o \in last : o.cam < run.cams}
        /\ \A i, j \in DOMAIN obs : i < j =>
              obs[i].cam < obs[j].cam \/ (obs[i].cam = obs[j].cam /\ Before(obs[i], obs[j]))
        /\ AsDetected(Range(obs), pruned.file)

\* Over any sequence of runs, detected, loaded, failed or killed, the file
\* holds a board of a camera in all the frames it was detected in or in none.
AllFramesOrNone ==
    file.is = "whole" =>
        \A i \in DOMAIN file.cams : \A b \in 0 .. NbBoard - 1 :
            LET held == {o.frame : o \in {p \in Range(file.cams[i]) : p.board = b}}
            IN  held = {} \/ held = {f \in 0 .. NbFrame - 1 :
                                       <<i - 1, f, b>> \in DOMAIN images
                                       /\ images[<<i - 1, f, b>>] > MinPose}

\* A camera without observations reaches the file only if a run was given the
\* camera parameters.
EmptyNeedsParams ==
    file.is = "whole" /\ ~given => \A i \in DOMAIN file.cams : file.cams[i] # <<>>

\* What the file says of detections, over any sequence of runs.
FileSound == TypeOK /\ AllFramesOrNone /\ EmptyNeedsParams

\* A run that detects its boards itself has the points for the pose of each
\* board (ransacP3P takes four without asking); only one that loads them may
\* not.
DetectionSuffices == [][run.from = "images" => wild' # "pose" \/ wild = "pose"]_wild
=============================================================================
