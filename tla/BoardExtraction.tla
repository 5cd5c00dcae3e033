--------------------------- MODULE BoardExtraction ---------------------------
(***************************************************************************)
(* Board detection of MC-Calib (McCalib/src/McCalib.cpp): detectBoards     *)
(* walks the cameras one after the other; for each one                     *)
(* detectBoardsWithCamera posts one task per image to a thread pool and    *)
(* joins it; a task looks for every board in its image and records each    *)
(* accepted one with insertNewBoard, under insert_new_board_lock_.         *)
(*                                                                         *)
(* insertNewBoard updates six containers that the rest of the calibration  *)
(* reads as views of one set of observations.  Its look-ups (size(), find) *)
(* and the writes that use them are separate steps here, so that only the  *)
(* lock keeps them together.                                               *)
(*                                                                         *)
(* Indices are the code's: cameras, frames and boards count from 0, and    *)
(* image f of a folder is element f + 1 of the sequence.                   *)
(***************************************************************************)
EXTENDS Integers, Sequences, FiniteSets

CONSTANTS
    NbCamera,   \* nb_camera_
    NbBoard,    \* nb_board_
    Thread,     \* the threads of the pool, hardware_concurrency() many
    NoThread,   \* the lock is free
    MinPts,     \* MinPts[b] = round(min_perc_pts_ * nb_pts_ of board b)
    Unreadable, \* an image imread cannot decode
    Folders,    \* the image folders to consider, one sequence per camera
    Asserts     \* TRUE in a build that keeps assert (Debug), FALSE in Release

Camera == 0 .. NbCamera - 1
Board  == 0 .. NbBoard - 1

\* What detectMarkers and the corner interpolation report for one board.
View    == [corners : Nat, collinear : BOOLEAN]
Content == [Board -> View] \cup {Unreadable}

ASSUME SizeAssumption   == NbCamera \in Nat \ {0} /\ NbBoard \in Nat \ {0}
ASSUME ThreadAssumption == NoThread \notin Thread
ASSUME ImageAssumption  == /\ MinPts \in [Board -> Nat]
                           /\ Unreadable \notin [Board -> View]
                           /\ Folders \subseteq [Camera -> Seq(Content)]
                           /\ Asserts \in BOOLEAN

\* A board observation, by what identifies it: camera, frame and board.
Obs == [cam : Camera, frame : Nat, board : Board]

\* A Frame: its board observations and the cameras with a CameraObs in it.
FrameRec == [boards : SUBSET Obs, cams : SUBSET Camera]

VARIABLES
    folder,       \* the images on disk, never written
    phase,        \* main thread: "open", "post", "join", "done", "aborted"
    cam,          \* main thread: camera under extraction
    posted,       \* frames 0 .. posted-1 of cam were posted to the pool
    taken,        \* frames 0 .. taken-1 were handed to a thread, in order
    pc,           \* per thread: where it is
    task,         \* per thread: the cam_idx and frame_idx its task is bound to
    board,        \* per thread: i, the board it looks for
    key,          \* per thread: size() read by board_observations_[size()]
    found,        \* per thread: outcome of its last find()
    lock,         \* insert_new_board_lock_
    board_observations, \* Calibration::board_observations_
    cam_boards,   \* Camera::board_observations_, per camera
    board_boards, \* Board::board_observations_, per board
    cam_frames,   \* Camera::frames_, per camera
    board_frames, \* Board::frames_, per board
    frames,       \* Calibration::frames_
    cams_obs      \* Calibration::cams_obs_

mainVars   == <<phase, cam, posted>>
threadVars == <<pc, task, board, key, found>>
viewVars   == <<cam_boards, board_boards, cam_frames, board_frames,
                frames, cams_obs>>
vars == <<folder, mainVars, taken, threadVars, lock, board_observations,
          viewVars>>

-----------------------------------------------------------------------------
NbImages(c) == Len(folder[c])

\* detectBoardsInImageWithCamera keeps a board only with strictly more
\* corners than both thresholds and when the corners are not on one line.
Accepted(c, f, b) ==
    LET image == folder[c][f + 1]
    IN  /\ image # Unreadable
        /\ image[b].corners > MinPts[b]
        /\ ~image[b].collinear
        /\ image[b].corners > 4

\* Mutant: boards numbered from 1.
CurrentFromOne(t) ==
    [cam |-> task[t].cam, frame |-> task[t].frame, board |-> board[t] + 1]

Current(t) ==
    [cam |-> task[t].cam, frame |-> task[t].frame, board |-> board[t]]

Recorded == {board_observations[i] : i \in 1 .. Len(board_observations)}

Init ==
    /\ folder \in Folders
    /\ phase = "open" /\ cam = 0 /\ posted = 0 /\ taken = 0
    /\ pc    = [t \in Thread |-> "idle"]
    /\ task  = [t \in Thread |-> [cam |-> 0, frame |-> 0]]
    /\ board = [t \in Thread |-> 0]
    /\ key   = [t \in Thread |-> 0]
    /\ found = [t \in Thread |-> FALSE]
    /\ lock  = NoThread
    /\ board_observations = << >>
    /\ cam_boards   = [c \in Camera |-> {}]
    /\ board_boards = [b \in Board |-> {}]
    /\ cam_frames   = [c \in Camera |-> {}]
    /\ board_frames = [b \in Board |-> {}]
    /\ frames   = [f \in {} |-> {}]
    /\ cams_obs = [cf \in {} |-> {}]

-----------------------------------------------------------------------------
(* The main thread: detectBoards and detectBoardsWithCamera.               *)

\* imread of the first image; a build with assertions stops on a bad one.
OpenFolder ==
    /\ phase = "open"
    /\ phase' = IF Asserts /\ NbImages(cam) > 0 /\ folder[cam][1] = Unreadable
                THEN "aborted" ELSE "post"
    /\ UNCHANGED <<folder, cam, posted, taken, threadVars, lock,
                   board_observations, viewVars>>

PostTask ==
    /\ phase = "post" /\ posted < NbImages(cam)
    /\ posted' = posted + 1
    /\ UNCHANGED <<folder, phase, cam, taken, threadVars, lock,
                   board_observations, viewVars>>

StartJoin ==
    /\ phase = "post" /\ posted = NbImages(cam)
    /\ phase' = "join"
    /\ UNCHANGED <<folder, cam, posted, taken, threadVars, lock,
                   board_observations, viewVars>>

\* Mutant: the queue is empty, but a task may still run.
JoinReadyQueueOnly == taken = posted

\* pool.join() returns once the queue is empty and every task has returned.
JoinReady == taken = posted /\ \A t \in Thread : pc[t] = "idle"

Join ==
    /\ phase = "join" /\ JoinReady
    /\ cam' = cam + 1
    /\ phase' = IF cam + 1 = NbCamera THEN "done" ELSE "open"
    /\ posted' = 0 /\ taken' = 0
    /\ UNCHANGED <<folder, threadVars, lock, board_observations, viewVars>>

-----------------------------------------------------------------------------
(* A thread of the pool: detectBoardsInImageWithCamera.                    *)

\* The pool's queue is first in, first out.
TakeTask(t) ==
    /\ pc[t] = "idle" /\ taken < posted
    /\ pc' = [pc EXCEPT ![t] = "scan"]
    /\ task' = [task EXCEPT ![t] = [cam |-> cam, frame |-> taken]]
    /\ board' = [board EXCEPT ![t] = 0]
    /\ taken' = taken + 1
    /\ UNCHANGED <<folder, mainVars, key, found, lock, board_observations,
                   viewVars>>

\* Mutant: a rejected board is looked for again.
SkipBoardRetry(t) ==
    /\ pc[t] = "scan" /\ board[t] < NbBoard
    /\ ~Accepted(task[t].cam, task[t].frame, board[t])
    /\ UNCHANGED vars

\* The board is absent or rejected: next iteration of the board loop.
SkipBoard(t) ==
    /\ pc[t] = "scan" /\ board[t] < NbBoard
    /\ ~Accepted(task[t].cam, task[t].frame, board[t])
    /\ board' = [board EXCEPT ![t] = @ + 1]
    /\ UNCHANGED <<folder, mainVars, taken, pc, task, key, found, lock,
                   board_observations, viewVars>>

EndTask(t) ==
    /\ pc[t] = "scan" /\ board[t] = NbBoard
    /\ pc' = [pc EXCEPT ![t] = "idle"]
    /\ UNCHANGED <<folder, mainVars, taken, task, board, key, found, lock,
                   board_observations, viewVars>>

\* Mutant: insertNewBoard without the lock.
LockFreeNever == TRUE

\* The board is accepted: take the lock and enter insertNewBoard.
LockFree == lock = NoThread

Acquire(t) ==
    /\ pc[t] = "scan" /\ board[t] < NbBoard
    /\ Accepted(task[t].cam, task[t].frame, board[t])
    /\ LockFree
    /\ lock' = t
    /\ pc' = [pc EXCEPT ![t] = "size"]
    /\ UNCHANGED <<folder, mainVars, taken, task, board, key, found,
                   board_observations, viewVars>>

-----------------------------------------------------------------------------
(* insertNewBoard.                                                         *)

ReadSize(t) ==
    /\ pc[t] = "size"
    /\ key' = [key EXCEPT ![t] = Len(board_observations)]
    /\ pc' = [pc EXCEPT ![t] = "record"]
    /\ UNCHANGED <<folder, mainVars, taken, task, board, found, lock,
                   board_observations, viewVars>>

\* m[k] = o on a map whose keys are 0 .. size-1: a new key or an overwrite.
Assign(m, k, o) == IF k < Len(m) THEN [m EXCEPT ![k + 1] = o]
                                 ELSE Append(m, o)

Record(t) ==
    /\ pc[t] = "record"
    /\ board_observations' = Assign(board_observations, key[t], Current(t))
    /\ cam_boards' = [cam_boards EXCEPT ![task[t].cam] = @ \cup {Current(t)}]
    /\ board_boards' = [board_boards EXCEPT ![board[t]] = @ \cup {Current(t)}]
    /\ pc' = [pc EXCEPT ![t] = "find_frame"]
    /\ UNCHANGED <<folder, mainVars, taken, task, board, key, found, lock,
                   cam_frames, board_frames, frames, cams_obs>>

\* Mutant: the frame is looked up among those of the camera.
FindFrameOfCamera(t) ==
    /\ pc[t] = "find_frame"
    /\ found' = [found EXCEPT ![t] = task[t].frame \in cam_frames[task[t].cam]]
    /\ pc' = [pc EXCEPT ![t] = "frame"]
    /\ UNCHANGED <<folder, mainVars, taken, task, board, key, lock,
                   board_observations, viewVars>>

FindFrame(t) ==
    /\ pc[t] = "find_frame"
    /\ found' = [found EXCEPT ![t] = task[t].frame \in DOMAIN frames]
    /\ pc' = [pc EXCEPT ![t] = "frame"]
    /\ UNCHANGED <<folder, mainVars, taken, task, board, key, lock,
                   board_observations, viewVars>>

\* m[k] = v on a map that may not have the key yet.
Put(m, k, v) == [x \in DOMAIN m \cup {k} |-> IF x = k THEN v ELSE m[x]]

\* Mutant: the Frame is not told of the camera.
AddCamObsLost(fr, c) == fr

\* Frame::insertNewBoard and Frame::insertNewCamObs.
AddBoard(fr, o)  == [boards |-> fr.boards \cup {o}, cams |-> fr.cams]
AddCamObs(fr, c) == [boards |-> fr.boards, cams |-> fr.cams \cup {c}]

\* A new Frame is also given to this camera and to this board; a Frame that
\* exists is not, though Camera.hpp calls Camera::frames_ the "Frames containing
\* boards for this cameras".
InsertInFrame(t) ==
    LET c == task[t].cam
        f == task[t].frame IN
    /\ pc[t] = "frame"
    /\ \/ /\ found[t]
          /\ frames' = [frames EXCEPT ![f] = AddBoard(@, Current(t))]
          /\ UNCHANGED <<cam_frames, board_frames>>
       \/ /\ ~found[t]
          /\ frames' = Put(frames, f, [boards |-> {Current(t)}, cams |-> {}])
          /\ cam_frames' = [cam_frames EXCEPT ![c] = @ \cup {f}]
          /\ board_frames' = [board_frames EXCEPT ![board[t]] = @ \cup {f}]
    /\ pc' = [pc EXCEPT ![t] = "find_camobs"]
    /\ UNCHANGED <<folder, mainVars, taken, task, board, key, found, lock,
                   board_observations, cam_boards, board_boards, cams_obs>>

FindCamObs(t) ==
    /\ pc[t] = "find_camobs"
    /\ found' = [found EXCEPT ![t] = <<task[t].cam, task[t].frame>> \in DOMAIN cams_obs]
    /\ pc' = [pc EXCEPT ![t] = "camobs"]
    /\ UNCHANGED <<folder, mainVars, taken, task, board, key, lock,
                   board_observations, viewVars>>

\* The end of insertNewBoard: the lock is released and the board loop goes on.
InsertInCamObs(t) ==
    LET c  == task[t].cam
        f  == task[t].frame
        cf == <<c, f>> IN
    /\ pc[t] = "camobs"
    /\ \/ /\ found[t]
          /\ cams_obs' = [cams_obs EXCEPT ![cf] = @ \cup {Current(t)}]
          /\ UNCHANGED frames
       \/ /\ ~found[t]
          /\ cams_obs' = Put(cams_obs, cf, {Current(t)})
          /\ frames' = [frames EXCEPT ![f] = AddCamObs(@, c)]
    /\ lock' = NoThread
    /\ board' = [board EXCEPT ![t] = @ + 1]
    /\ pc' = [pc EXCEPT ![t] = "scan"]
    /\ UNCHANGED <<folder, mainVars, taken, task, key, found,
                   board_observations, cam_boards, board_boards, cam_frames,
                   board_frames>>

-----------------------------------------------------------------------------
Main == OpenFolder \/ PostTask \/ StartJoin \/ Join

Work(t) ==
    \/ TakeTask(t) \/ SkipBoard(t) \/ EndTask(t) \/ Acquire(t)
    \/ ReadSize(t) \/ Record(t) \/ FindFrame(t) \/ InsertInFrame(t)
    \/ FindCamObs(t) \/ InsertInCamObs(t)

Finished == phase \in {"done", "aborted"} /\ UNCHANGED vars

Next == Main \/ (\E t \in Thread : Work(t)) \/ Finished

\* The main thread runs until it waits in join; the pool keeps running a
\* thread that has something to do.  The lock needs no fairness of its own:
\* the work is finite, so in the end it stays free.
Fairness == WF_vars(Main) /\ \A t \in Thread : WF_vars(Work(t))

Spec == Init /\ [][Next]_vars /\ Fairness

-----------------------------------------------------------------------------
(* Properties.                                                             *)

PC == {"idle", "scan", "size", "record", "find_frame", "frame",
       "find_camobs", "camobs"}

\* Types of all variables: the containers hold observations under the keys
\* the C++ maps declare.
TypeOK ==
    /\ folder \in Folders
    /\ phase \in {"open", "post", "join", "done", "aborted"}
    /\ cam \in 0 .. NbCamera /\ posted \in Nat /\ taken \in Nat
    /\ pc \in [Thread -> PC]
    /\ task \in [Thread -> [cam : Camera, frame : Nat]]
    /\ board \in [Thread -> 0 .. NbBoard]
    /\ key \in [Thread -> Nat]
    /\ found \in [Thread -> BOOLEAN]
    /\ lock \in Thread \cup {NoThread}
    /\ board_observations \in Seq(Obs)
    /\ cam_boards \in [Camera -> SUBSET Obs]
    /\ board_boards \in [Board -> SUBSET Obs]
    /\ cam_frames \in [Camera -> SUBSET Nat]
    /\ board_frames \in [Board -> SUBSET Nat]
    /\ DOMAIN frames \subseteq Nat
    /\ frames \in [DOMAIN frames -> FrameRec]
    /\ DOMAIN cams_obs \subseteq Camera \X Nat
    /\ cams_obs \in [DOMAIN cams_obs -> SUBSET Obs]

\* Thread t holds the task of frame f of the current camera.
Busy(t, f) == pc[t] # "idle" /\ task[t].frame = f

\* Thread t has passed the board loop's iteration b, or has already written
\* its observation.
Passed(t, b) ==
    \/ board[t] > b
    \/ board[t] = b /\ pc[t] \in {"find_frame", "frame", "find_camobs",
                                  "camobs"}

\* The boards that must be recorded by now: all accepted ones of the cameras
\* already joined, and those of the current camera whose task got past them.
Due(c, f, b) ==
    /\ f < NbImages(c) /\ Accepted(c, f, b)
    /\ \/ c < cam
       \/ /\ c = cam /\ f < taken
          /\ \A t \in Thread : Busy(t, f) => Passed(t, b)

\* No detection is lost, none is invented and none comes from a camera that
\* is not yet due, whatever the interleaving of the pool's threads:
\* board_observations_ holds exactly the boards due, each one once.
RecordedExact ==
    /\ \A o \in Recorded : Due(o.cam, o.frame, o.board)
    /\ \A c \in Camera, b \in Board : \A f \in 0 .. NbImages(c) - 1 :
          Due(c, f, b) => [cam |-> c, frame |-> f, board |-> b] \in Recorded
    /\ \A i, j \in 1 .. Len(board_observations) :
          board_observations[i] = board_observations[j] => i = j

\* When no thread is inside insertNewBoard, the containers are views of the
\* same observations: per camera, per board, per frame and per camera/frame
\* pair; and a Frame lists the cameras that have a CameraObs in it.
ViewsAgree ==
    lock = NoThread =>
    /\ \A c \in Camera : cam_boards[c] = {o \in Recorded : o.cam = c}
    /\ \A b \in Board : board_boards[b] = {o \in Recorded : o.board = b}
    /\ DOMAIN frames = {o.frame : o \in Recorded}
    /\ \A f \in DOMAIN frames :
          /\ frames[f].boards = {o \in Recorded : o.frame = f}
          /\ frames[f].cams = {c \in Camera : <<c, f>> \in DOMAIN cams_obs}
    /\ DOMAIN cams_obs = {<<o.cam, o.frame>> : o \in Recorded}
    /\ \A cf \in DOMAIN cams_obs :
          cams_obs[cf] = {o \in Recorded : <<o.cam, o.frame>> = cf}

\* The numbers of the observations that were the first of their frame.
FirstOfFrame ==
    {i \in 1 .. Len(board_observations) :
        \A j \in 1 .. i - 1 : board_observations[j].frame # board_observations[i].frame}

\* Camera::frames_ and Board::frames_ hold the frames in which the observation
\* that came first is of that camera and of that board, whoever comes later: a
\* camera that sees the frame after another misses it.  By its declaration
\* Camera::frames_ has the "Frames containing boards for this cameras", which
\* insertNewBoard does not keep; only a line of the log reads either map.
FramesOfFirst ==
    lock = NoThread =>
    /\ \A c \in Camera : cam_frames[c] =
          {board_observations[i].frame :
              i \in {k \in FirstOfFrame : board_observations[k].cam = c}}
    /\ \A b \in Board : board_frames[b] =
          {board_observations[i].frame :
              i \in {k \in FirstOfFrame : board_observations[k].board = b}}

\* An observation keeps its number: the later stages and every BoardObs map
\* refer to it by index, so a step may only append.
NumbersStable ==
    [][/\ Len(board_observations) <= Len(board_observations')
       /\ \A i \in 1 .. Len(board_observations) :
             board_observations'[i] = board_observations[i]]_vars

\* The results of a camera are final once the pool was joined for it: no task
\* of an earlier camera writes while a later one is extracted.
JoinedIsFinal ==
    [][\A c \in Camera : c < cam => cam_boards'[c] = cam_boards[c]]_vars

\* Every task posted is run and joined: the extraction ends.
ExtractionEnds == <>(phase \in {"done", "aborted"})
=============================================================================
