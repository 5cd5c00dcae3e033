------------------------ MODULE BoardExtractionProofs ------------------------
(***************************************************************************)
(* Proofs about BoardExtraction for any number of cameras, boards, threads *)
(* and images.                                                             *)
(***************************************************************************)
EXTENDS BoardExtraction, TLAPS

\* Inside insertNewBoard.
Inserting == {"size", "record", "find_frame", "frame", "find_camobs",
              "camobs"}

\* The main thread's counters: there is a camera to extract until the end,
\* the pool never runs ahead of what was posted, and it is empty whenever the
\* main thread is between two cameras.
MainInv ==
    /\ phase = "done" <=> cam = NbCamera
    /\ phase \in {"open", "done", "aborted"} => posted = 0
    /\ phase = "join" => posted = NbImages(cam)
    /\ phase # "done" => posted <= NbImages(cam)
    /\ taken <= posted

\* A busy thread works on a frame of the current camera that was handed out,
\* and on one of its own.
TaskInv ==
    /\ \A t \in Thread : pc[t] # "idle" =>
          task[t].cam = cam /\ task[t].frame < taken
    /\ \A t, u \in Thread :
          pc[t] # "idle" /\ pc[u] # "idle" /\ t # u =>
              task[t].frame # task[u].frame

\* Mutual exclusion: a thread is inside insertNewBoard only while it owns the
\* lock, and it is there for an accepted board.
LockInv ==
    /\ \A t \in Thread : pc[t] \in Inserting =>
          /\ lock = t
          /\ board[t] < NbBoard
          /\ Accepted(task[t].cam, task[t].frame, board[t])
    /\ lock # NoThread => pc[lock] \in Inserting

Inv1 == TypeOK /\ MainInv /\ TaskInv /\ LockInv

\* What a thread read with size() or find() still holds when it uses it.
LookupInv ==
    \A t \in Thread :
       /\ pc[t] = "record" => key[t] = Len(board_observations)
       /\ pc[t] = "frame" => found[t] = (task[t].frame \in DOMAIN frames)
       /\ pc[t] = "camobs" =>
             found[t] = (<<task[t].cam, task[t].frame>> \in DOMAIN cams_obs)

\* The observations recorded but not yet in frames_, and not yet in cams_obs_.
FrameBehind  == {Current(t) : t \in {u \in Thread :
                     pc[u] \in {"find_frame", "frame"}}}
CamObsBehind == {Current(t) : t \in {u \in Thread :
                     pc[u] \in {"find_frame", "frame", "find_camobs", "camobs"}}}
InFrames  == Recorded \ FrameBehind
InCamsObs == Recorded \ CamObsBehind

\* ViewsAgree, extended to the middle of insertNewBoard.
ViewInv ==
    /\ CamObsBehind \subseteq Recorded
    /\ \A c \in Camera : cam_boards[c] = {o \in Recorded : o.cam = c}
    /\ \A b \in Board : board_boards[b] = {o \in Recorded : o.board = b}
    /\ DOMAIN frames = {o.frame : o \in InFrames}
    /\ \A f \in DOMAIN frames :
          /\ frames[f].boards = {o \in InFrames : o.frame = f}
          /\ frames[f].cams = {c \in Camera : <<c, f>> \in DOMAIN cams_obs}
    /\ DOMAIN cams_obs = {<<o.cam, o.frame>> : o \in InCamsObs}
    /\ \A cf \in DOMAIN cams_obs :
          cams_obs[cf] = {o \in InCamsObs : <<o.cam, o.frame>> = cf}

-----------------------------------------------------------------------------
(* Maps and sequences.                                                     *)

\* An assignment at a key within the map or at its end keeps a sequence.
LEMMA AssignType ==
    ASSUME NEW S, NEW m \in Seq(S), NEW k \in Nat, NEW o \in S
    PROVE  Assign(m, k, o) \in Seq(S)
BY DEF Assign

\* Assigning at the size of the map appends: what was there keeps its number.
LEMMA AssignAtEnd ==
    ASSUME NEW S, NEW m \in Seq(S), NEW o \in S
    PROVE  /\ Len(Assign(m, Len(m), o)) = Len(m) + 1
           /\ \A i \in 1 .. Len(m) : Assign(m, Len(m), o)[i] = m[i]
           /\ Assign(m, Len(m), o)[Len(m) + 1] = o
BY DEF Assign

\* A thread inside insertNewBoard has a well-formed observation in hand.
LEMMA CurrentType ==
    ASSUME TypeOK, LockInv, NEW t \in Thread, pc[t] \in Inserting
    PROVE  /\ Current(t) \in Obs
           /\ board[t] \in Board
           /\ task[t].cam \in Camera /\ task[t].frame \in Nat
<1>1. board[t] \in Board
  BY SizeAssumption DEF TypeOK, LockInv, Board
<1>2. task[t] \in [cam : Camera, frame : Nat]
  BY DEF TypeOK
<1> QED
  BY <1>1, <1>2 DEF Current, Obs

-----------------------------------------------------------------------------
(* Types, counters, tasks and the lock.                                    *)

\* Before the first folder no thread has a task.
LEMMA InitInv1 == Init => Inv1
<1> SUFFICES ASSUME Init PROVE Inv1
  OBVIOUS
<1>1. TypeOK
  BY SizeAssumption DEF Init, TypeOK, PC, Camera, Board, Obs, FrameRec
<1>2. MainInv
  BY <1>1, SizeAssumption, ImageAssumption
  DEF Init, TypeOK, MainInv, NbImages, Camera
<1>3. TaskInv /\ LockInv
  BY DEF Init, TaskInv, LockInv, Inserting
<1> QED
  BY <1>1, <1>2, <1>3 DEF Inv1

\* The main thread keeps Inv1.
LEMMA MainInv1 == Inv1 /\ Main => Inv1'
<1> SUFFICES ASSUME Inv1, Main PROVE Inv1'
  OBVIOUS
<1> USE DEF Inv1
<1>0. folder \in [Camera -> Seq(Content)]
  BY ImageAssumption DEF TypeOK
<1>len. \A c \in Camera : NbImages(c) \in Nat
  BY <1>0 DEF NbImages
<1>1. CASE OpenFolder
  <2>1. TypeOK'
    BY <1>1 DEF OpenFolder, TypeOK, threadVars, viewVars
  <2>2. MainInv'
    BY <1>1, <1>len, SizeAssumption
    DEF OpenFolder, TypeOK, MainInv, NbImages, Camera
  <2>3. TaskInv' /\ LockInv'
    BY <1>1 DEF OpenFolder, TaskInv, LockInv, Accepted, threadVars
  <2> QED
    BY <2>1, <2>2, <2>3
<1>2. CASE PostTask
  <2>1. TypeOK'
    BY <1>2 DEF PostTask, TypeOK, threadVars, viewVars
  <2>2. MainInv'
    BY <1>2, <1>len, SizeAssumption
    DEF PostTask, TypeOK, MainInv, NbImages, Camera
  <2>3. TaskInv' /\ LockInv'
    BY <1>2 DEF PostTask, TaskInv, LockInv, Accepted, threadVars
  <2> QED
    BY <2>1, <2>2, <2>3
<1>3. CASE StartJoin
  <2>1. TypeOK'
    BY <1>3 DEF StartJoin, TypeOK, threadVars, viewVars
  <2>2. MainInv'
    BY <1>3, <1>len, SizeAssumption
    DEF StartJoin, TypeOK, MainInv, NbImages, Camera
  <2>3. TaskInv' /\ LockInv'
    BY <1>3 DEF StartJoin, TaskInv, LockInv, Accepted, threadVars
  <2> QED
    BY <2>1, <2>2, <2>3
<1>4. CASE Join
  <2>0. cam \in Camera
    BY <1>4, SizeAssumption DEF Join, TypeOK, MainInv, Camera
  <2>1. TypeOK'
    <3>1. /\ phase' \in {"open", "post", "join", "done", "aborted"}
          /\ cam' \in 0 .. NbCamera /\ posted' \in Nat /\ taken' \in Nat
      BY <1>4, <2>0, SizeAssumption DEF Join, Camera
    <3>2. UNCHANGED <<folder, threadVars, lock, board_observations, viewVars>>
      BY <1>4 DEF Join
    <3> QED
      BY <3>1, <3>2 DEF TypeOK, threadVars, viewVars
  <2>2. MainInv'
    BY <1>4, <1>len, <2>0, SizeAssumption
    DEF Join, TypeOK, MainInv, NbImages, Camera
  <2>3. TaskInv' /\ LockInv'
    BY <1>4 DEF Join, JoinReady, TaskInv, LockInv, Accepted, threadVars
  <2> QED
    BY <2>1, <2>2, <2>3
<1> QED
  BY <1>1, <1>2, <1>3, <1>4 DEF Main

\* A thread of the pool keeps Inv1, step by step through insertNewBoard.
LEMMA WorkInv1 == ASSUME Inv1, NEW t \in Thread, Work(t) PROVE Inv1'
<1> USE DEF Inv1
<1> HIDE DEF PC
<1>pc. {"idle", "scan", "size", "record", "find_frame", "frame",
        "find_camobs", "camobs"} \subseteq PC
  BY DEF PC
<1>t. t # NoThread
  BY ThreadAssumption
<1>1. CASE TakeTask(t)
  <2>1. cam \in Camera
    BY <1>1, SizeAssumption DEF TakeTask, TypeOK, MainInv, Camera
  <2>2. TypeOK'
    <3>1. /\ pc' \in [Thread -> PC]
          /\ task' \in [Thread -> [cam : Camera, frame : Nat]]
          /\ taken' \in Nat
      BY <1>1, <1>pc, <2>1 DEF TakeTask, TypeOK
    <3>2. board' \in [Thread -> 0 .. NbBoard]
      BY <1>1, SizeAssumption DEF TakeTask, TypeOK
    <3>3. UNCHANGED <<folder, mainVars, key, found, lock, board_observations,
                      viewVars>>
      BY <1>1 DEF TakeTask
    <3> QED
      BY <3>1, <3>2, <3>3 DEF TypeOK, mainVars, viewVars
  <2>3. MainInv'
    BY <1>1 DEF TakeTask, TypeOK, MainInv, NbImages, mainVars
  <2>4. TaskInv'
    <3>1. task'[t].cam = cam /\ task'[t].frame = taken
      BY <1>1 DEF TakeTask, TypeOK
    <3>2. \A u \in Thread \ {t} : task'[u] = task[u] /\ pc'[u] = pc[u]
      BY <1>1 DEF TakeTask, TypeOK
    <3>3. taken' = taken + 1 /\ cam' = cam /\ taken \in Nat
      BY <1>1 DEF TakeTask, TypeOK, mainVars
    <3>4. \A u \in Thread : task[u].frame \in Nat
      BY DEF TypeOK
    <3>5. \A u \in Thread \ {t} : pc'[u] # "idle" =>
             task'[u].cam = cam /\ task'[u].frame < taken
      BY <3>2 DEF TaskInv
    <3> QED
      BY <3>1, <3>2, <3>3, <3>4, <3>5 DEF TaskInv
  <2>5. LockInv'
    BY <1>1 DEF TakeTask, TypeOK, LockInv, Accepted, Inserting
  <2> QED
    BY <2>2, <2>3, <2>4, <2>5
<1>2. CASE SkipBoard(t)
  <2>1. TypeOK'
    <3>1. board' \in [Thread -> 0 .. NbBoard]
      <4>1. board \in [Thread -> 0 .. NbBoard]
        BY DEF TypeOK
      <4>2. board' = [board EXCEPT ![t] = @ + 1] /\ board[t] < NbBoard
        BY <1>2 DEF SkipBoard
      <4> QED
        BY <4>1, <4>2, SizeAssumption
    <3>2. UNCHANGED <<folder, mainVars, taken, pc, task, key, found, lock,
                      board_observations, viewVars>>
      BY <1>2 DEF SkipBoard
    <3> QED
      BY <3>1, <3>2 DEF TypeOK, mainVars, viewVars
  <2>2. MainInv' /\ TaskInv'
    BY <1>2 DEF SkipBoard, MainInv, TaskInv, NbImages, mainVars
  <2>3. LockInv'
    BY <1>2 DEF SkipBoard, TypeOK, LockInv, Accepted, Inserting
  <2> QED
    BY <2>1, <2>2, <2>3
<1>3. CASE EndTask(t)
  <2>1. TypeOK'
    BY <1>3, <1>pc DEF EndTask, TypeOK, mainVars, viewVars
  <2>2. MainInv' /\ TaskInv'
    BY <1>3 DEF EndTask, TypeOK, MainInv, TaskInv, NbImages, mainVars
  <2>3. LockInv'
    BY <1>3 DEF EndTask, TypeOK, LockInv, Accepted, Inserting
  <2> QED
    BY <2>1, <2>2, <2>3
<1>4. CASE Acquire(t)
  <2>1. TypeOK'
    BY <1>4, <1>pc DEF Acquire, TypeOK, mainVars, viewVars
  <2>2. MainInv' /\ TaskInv'
    BY <1>4 DEF Acquire, TypeOK, MainInv, TaskInv, NbImages, mainVars
  <2>3. LockInv'
    <3>1. \A u \in Thread : pc[u] \notin Inserting
      BY <1>4, ThreadAssumption DEF Acquire, LockFree, LockInv
    <3>2. \A u \in Thread \ {t} : pc'[u] = pc[u]
      BY <1>4 DEF Acquire, TypeOK
    <3>3. /\ lock' = t /\ pc'[t] = "size"
          /\ UNCHANGED <<task, board, folder>>
          /\ board[t] < NbBoard
          /\ Accepted(task[t].cam, task[t].frame, board[t])
      BY <1>4 DEF Acquire, TypeOK
    <3> QED
      BY <3>1, <3>2, <3>3 DEF LockInv, Accepted, Inserting
  <2> QED
    BY <2>1, <2>2, <2>3
<1>5. CASE ReadSize(t)
  <2>1. TypeOK'
    <3>1. pc' \in [Thread -> PC] /\ key' \in [Thread -> Nat]
      BY <1>5, <1>pc DEF ReadSize, TypeOK
    <3>2. UNCHANGED <<folder, mainVars, taken, task, board, found, lock,
                      board_observations, viewVars>>
      BY <1>5 DEF ReadSize
    <3> QED
      BY <3>1, <3>2 DEF TypeOK, mainVars, viewVars
  <2>2. MainInv' /\ TaskInv'
    BY <1>5 DEF ReadSize, TypeOK, MainInv, TaskInv, NbImages, mainVars
  <2>3. LockInv'
    BY <1>5 DEF ReadSize, TypeOK, LockInv, Accepted, Inserting
  <2> QED
    BY <2>1, <2>2, <2>3
<1>6. CASE Record(t)
  <2>1. Current(t) \in Obs /\ board[t] \in Board /\ task[t].cam \in Camera
    BY <1>6, CurrentType DEF Record, Inserting
  <2>2. board_observations' \in Seq(Obs)
    <3>1. board_observations \in Seq(Obs) /\ key[t] \in Nat
      BY DEF TypeOK
    <3> QED
      BY <1>6, <2>1, <3>1, AssignType DEF Record
  <2>3. TypeOK'
    BY <1>6, <1>pc, <2>1, <2>2 DEF Record, TypeOK, mainVars
  <2>4. MainInv' /\ TaskInv'
    BY <1>6 DEF Record, TypeOK, MainInv, TaskInv, NbImages, mainVars
  <2>5. LockInv'
    BY <1>6 DEF Record, TypeOK, LockInv, Accepted, Inserting
  <2> QED
    BY <2>3, <2>4, <2>5
<1>7. CASE FindFrame(t)
  <2>1. TypeOK'
    BY <1>7, <1>pc DEF FindFrame, TypeOK, mainVars, viewVars
  <2>2. MainInv' /\ TaskInv'
    BY <1>7 DEF FindFrame, TypeOK, MainInv, TaskInv, NbImages, mainVars
  <2>3. LockInv'
    BY <1>7 DEF FindFrame, TypeOK, LockInv, Accepted, Inserting
  <2> QED
    BY <2>1, <2>2, <2>3
<1>8. CASE InsertInFrame(t)
  <2> DEFINE f == task[t].frame
  <2>1. /\ Current(t) \in Obs /\ board[t] \in Board
        /\ task[t].cam \in Camera /\ f \in Nat
    BY <1>8, CurrentType DEF InsertInFrame, Inserting
  <2>2. /\ DOMAIN frames' \subseteq Nat
        /\ frames' \in [DOMAIN frames' -> FrameRec]
    <3>1. DOMAIN frames \subseteq Nat /\ frames \in [DOMAIN frames -> FrameRec]
      BY DEF TypeOK
    <3>2. CASE found[t]
      <4>1. frames' = [frames EXCEPT ![f] = AddBoard(@, Current(t))]
        BY <1>8, <3>2 DEF InsertInFrame
      <4> QED
        BY <2>1, <3>1, <4>1 DEF FrameRec, AddBoard
    <3>3. CASE ~found[t]
      <4>1. frames' = Put(frames, f, [boards |-> {Current(t)}, cams |-> {}])
        BY <1>8, <3>3 DEF InsertInFrame
      <4>2. [boards |-> {Current(t)}, cams |-> {}] \in FrameRec
        BY <2>1 DEF FrameRec
      <4> QED
        BY <2>1, <3>1, <4>1, <4>2 DEF Put
    <3> QED
      BY <3>2, <3>3
  <2>3. /\ cam_frames' \in [Camera -> SUBSET Nat]
        /\ board_frames' \in [Board -> SUBSET Nat]
    <3>1. /\ cam_frames \in [Camera -> SUBSET Nat]
          /\ board_frames \in [Board -> SUBSET Nat]
      BY DEF TypeOK
    <3>2. \/ UNCHANGED <<cam_frames, board_frames>>
          \/ /\ cam_frames' = [cam_frames EXCEPT ![task[t].cam] = @ \cup {f}]
             /\ board_frames' = [board_frames EXCEPT ![board[t]] = @ \cup {f}]
      BY <1>8 DEF InsertInFrame
    <3> QED
      BY <2>1, <3>1, <3>2
  <2>4. TypeOK'
    BY <1>8, <1>pc, <2>2, <2>3 DEF InsertInFrame, TypeOK, mainVars
  <2>5. MainInv' /\ TaskInv'
    BY <1>8 DEF InsertInFrame, TypeOK, MainInv, TaskInv, NbImages, mainVars
  <2>6. LockInv'
    BY <1>8 DEF InsertInFrame, TypeOK, LockInv, Accepted, Inserting
  <2> QED
    BY <2>4, <2>5, <2>6
<1>9. CASE FindCamObs(t)
  <2>1. TypeOK'
    <3>1. pc' \in [Thread -> PC] /\ found' \in [Thread -> BOOLEAN]
      BY <1>9, <1>pc DEF FindCamObs, TypeOK
    <3>2. UNCHANGED <<folder, mainVars, taken, task, board, key, lock,
                      board_observations, viewVars>>
      BY <1>9 DEF FindCamObs
    <3> QED
      BY <3>1, <3>2 DEF TypeOK, mainVars, viewVars
  <2>2. MainInv' /\ TaskInv'
    BY <1>9 DEF FindCamObs, TypeOK, MainInv, TaskInv, NbImages, mainVars
  <2>3. LockInv'
    BY <1>9 DEF FindCamObs, TypeOK, LockInv, Accepted, Inserting
  <2> QED
    BY <2>1, <2>2, <2>3
<1>10. CASE InsertInCamObs(t)
  <2> DEFINE f  == task[t].frame
             cf == <<task[t].cam, task[t].frame>>
  <2>1. /\ Current(t) \in Obs /\ board[t] \in Board
        /\ task[t].cam \in Camera /\ f \in Nat
    BY <1>10, CurrentType DEF InsertInCamObs, Inserting
  <2>2. /\ DOMAIN frames' \subseteq Nat
        /\ frames' \in [DOMAIN frames' -> FrameRec]
    <3>1. DOMAIN frames \subseteq Nat /\ frames \in [DOMAIN frames -> FrameRec]
      BY DEF TypeOK
    <3>2. CASE frames' = frames
      BY <3>1, <3>2
    <3>3. CASE frames' = [frames EXCEPT ![f] = AddCamObs(@, task[t].cam)]
      BY <2>1, <3>1, <3>3 DEF FrameRec, AddCamObs
    <3> QED
      BY <1>10, <3>2, <3>3 DEF InsertInCamObs
  <2>3. /\ DOMAIN cams_obs' \subseteq Camera \X Nat
        /\ cams_obs' \in [DOMAIN cams_obs' -> SUBSET Obs]
    <3>1. /\ DOMAIN cams_obs \subseteq Camera \X Nat
          /\ cams_obs \in [DOMAIN cams_obs -> SUBSET Obs]
      BY DEF TypeOK
    <3>2. CASE cams_obs' = [cams_obs EXCEPT ![cf] = @ \cup {Current(t)}]
      BY <2>1, <3>1, <3>2
    <3>3. CASE cams_obs' = Put(cams_obs, cf, {Current(t)})
      BY <2>1, <3>1, <3>3 DEF Put
    <3> QED
      BY <1>10, <3>2, <3>3 DEF InsertInCamObs
  <2>4. board[t] + 1 \in 0 .. NbBoard
    BY <2>1, SizeAssumption DEF Board
  <2>5. TypeOK'
    BY <1>10, <1>pc, <2>2, <2>3, <2>4 DEF InsertInCamObs, TypeOK, mainVars
  <2>6. MainInv' /\ TaskInv'
    BY <1>10 DEF InsertInCamObs, TypeOK, MainInv, TaskInv, NbImages, mainVars
  <2>7. LockInv'
    BY <1>10 DEF InsertInCamObs, TypeOK, LockInv, Accepted, Inserting
  <2> QED
    BY <2>5, <2>6, <2>7
<1> QED
  BY <1>1, <1>2, <1>3, <1>4, <1>5, <1>6, <1>7, <1>8, <1>9, <1>10 DEF Work

\* So does a step that changes nothing.
LEMMA StutterInv1 == Inv1 /\ UNCHANGED vars => Inv1'
BY DEF Inv1, TypeOK, MainInv, TaskInv, LockInv, vars, mainVars, threadVars,
       viewVars, NbImages, Accepted

\* Every step keeps Inv1.
LEMMA NextInv1 == Inv1 /\ [Next]_vars => Inv1'
BY MainInv1, WorkInv1, StutterInv1 DEF Next, Finished

\* Types, lock and tasks, for any number of threads and images.
THEOREM Invariant1 == Spec => []Inv1
BY InitInv1, NextInv1, PTL DEF Spec

\* Every variable keeps its type in every reachable state.
THEOREM TypeCorrect == Spec => []TypeOK
<1>1. Inv1 => TypeOK
  BY DEF Inv1
<1> QED
  BY <1>1, Invariant1, PTL

-----------------------------------------------------------------------------
(* Look-ups under the lock, and the observations recorded.                 *)

\* Two threads are never inside insertNewBoard together.
LEMMA MutualExclusion ==
    ASSUME LockInv, NEW t \in Thread, pc[t] \in Inserting,
           NEW u \in Thread, u # t
    PROVE  pc[u] \notin Inserting
BY DEF LockInv

\* Nothing is looked up at first.
LEMMA InitLookup == Init => LookupInv
BY DEF Init, LookupInv

\* The main thread does not disturb a look-up.
LEMMA MainLookup == Inv1 /\ LookupInv /\ Main => LookupInv'
BY DEF LookupInv, Main, OpenFolder, PostTask, StartJoin, Join, threadVars,
       viewVars

\* What the thread in insertNewBoard has looked up is still true when it writes.
LEMMA WorkLookup ==
    ASSUME Inv1, LookupInv, NEW t \in Thread, Work(t)
    PROVE  LookupInv'
<1> USE DEF Inv1
<1> DEFINE Same(u) == /\ pc'[u] = pc[u] /\ key'[u] = key[u]
                      /\ found'[u] = found[u] /\ task'[u] = task[u]
<1>1. \A u \in Thread \ {t} : Same(u)
  BY DEF Work, TakeTask, SkipBoard, EndTask, Acquire, ReadSize, Record,
         FindFrame, InsertInFrame, FindCamObs, InsertInCamObs, TypeOK
<1>2. CASE pc[t] \in {"idle", "scan"}
  <2>1. UNCHANGED <<board_observations, frames, cams_obs>>
    BY <1>2 DEF Work, TakeTask, SkipBoard, EndTask, Acquire, ReadSize,
                Record, FindFrame, InsertInFrame, FindCamObs, InsertInCamObs,
                viewVars
  <2>2. pc'[t] \in {"idle", "scan", "size"}
    BY <1>2 DEF Work, TakeTask, SkipBoard, EndTask, Acquire, ReadSize,
                Record, FindFrame, InsertInFrame, FindCamObs, InsertInCamObs,
                TypeOK
  <2> QED
    BY <1>1, <2>1, <2>2 DEF LookupInv
<1>3. CASE pc[t] \in Inserting
  <2>1. \A u \in Thread \ {t} : pc'[u] \notin {"record", "frame", "camobs"}
    BY <1>1, <1>3, MutualExclusion DEF Inserting
  <2>2. CASE ReadSize(t)
    BY <2>1, <2>2 DEF ReadSize, LookupInv, TypeOK
  <2>3. CASE FindFrame(t)
    BY <2>1, <2>3 DEF FindFrame, LookupInv, TypeOK, viewVars
  <2>4. CASE FindCamObs(t)
    BY <2>1, <2>4 DEF FindCamObs, LookupInv, TypeOK, viewVars
  <2>5. CASE Record(t) \/ InsertInFrame(t) \/ InsertInCamObs(t)
    <3>1. pc'[t] \in {"find_frame", "find_camobs", "scan"}
      BY <2>5 DEF Record, InsertInFrame, InsertInCamObs, TypeOK
    <3> QED
      BY <2>1, <3>1 DEF LookupInv
  <2> QED
    BY <1>3, <2>2, <2>3, <2>4, <2>5
    DEF Work, TakeTask, SkipBoard, EndTask, Acquire, Inserting
<1> QED
  BY <1>2, <1>3 DEF TypeOK, PC, Inserting

\* Record appends one observation and keeps the numbers of the others.
LEMMA RecordAppends ==
    ASSUME Inv1, LookupInv, NEW t \in Thread, Record(t)
    PROVE  /\ Len(board_observations') = Len(board_observations) + 1
           /\ \A i \in 1 .. Len(board_observations) :
                 board_observations'[i] = board_observations[i]
           /\ board_observations'[Len(board_observations) + 1] = Current(t)
           /\ Recorded' = Recorded \cup {Current(t)}
           /\ Len(board_observations) \in Nat
<1>1. /\ board_observations \in Seq(Obs)
      /\ Current(t) \in Obs
  BY CurrentType DEF Inv1, TypeOK, Record, Inserting
<1>2. board_observations' =
         Assign(board_observations, Len(board_observations), Current(t))
  BY DEF Record, LookupInv
<1> DEFINE n == Len(board_observations)
<1>3. /\ n \in Nat
      /\ Len(board_observations') = n + 1
      /\ \A i \in 1 .. n : board_observations'[i] = board_observations[i]
      /\ board_observations'[n + 1] = Current(t)
  BY <1>1, <1>2, AssignAtEnd
<1> HIDE DEF n
<1>4. Recorded' = Recorded \cup {Current(t)}
  <2>1. Recorded = {board_observations[i] : i \in 1 .. n}
    BY DEF Recorded, n
  <2>2. Recorded' = {board_observations'[i] : i \in 1 .. n + 1}
    BY <1>3 DEF Recorded
  <2>3. 1 .. n + 1 = (1 .. n) \cup {n + 1}
    BY <1>3
  <2> QED
    BY <1>3, <2>1, <2>2, <2>3
<1> QED
  BY <1>3, <1>4 DEF n

\* Every other step of a thread leaves the observations alone.
LEMMA OthersKeepRecorded ==
    ASSUME NEW t \in Thread, Work(t), ~Record(t)
    PROVE  board_observations' = board_observations /\ Recorded' = Recorded
BY DEF Work, TakeTask, SkipBoard, EndTask, Acquire, ReadSize, FindFrame,
       InsertInFrame, FindCamObs, InsertInCamObs, Recorded

\* The steps of the main thread do not change what is due: the join finds all
\* the work of its camera done.
LEMMA MainKeepsDue ==
    ASSUME Inv1, Main,
           NEW c \in Camera, NEW f \in Nat, NEW b \in Board
    PROVE  Due(c, f, b)' <=> Due(c, f, b)
<1> USE DEF Inv1
<1>1. CASE OpenFolder \/ PostTask \/ StartJoin
  BY <1>1 DEF OpenFolder, PostTask, StartJoin, Due, Accepted, NbImages, Busy,
              Passed, threadVars
<1>2. CASE Join
  <2>1. /\ UNCHANGED <<folder, pc, task, board>>
        /\ cam' = cam + 1 /\ taken' = 0
        /\ taken = NbImages(cam)
        /\ \A t \in Thread : pc[t] = "idle"
    BY <1>2 DEF Join, JoinReady, MainInv, threadVars
  <2>2. Due(c, f, b) <=> /\ f < NbImages(c) /\ Accepted(c, f, b)
                         /\ c < cam \/ c = cam
    BY <2>1 DEF Due, Busy
  <2>3. Due(c, f, b)' <=> /\ f < NbImages(c) /\ Accepted(c, f, b)
                          /\ c < cam + 1
    BY <2>1 DEF Due, NbImages, Accepted
  <2> QED
    BY <2>2, <2>3 DEF TypeOK, Camera
<1> QED
  BY <1>1, <1>2 DEF Main

\* A step of a thread that does not record leaves what is due unchanged: a
\* board is passed without recording only when it was not accepted.
LEMMA WorkKeepsDue ==
    ASSUME Inv1, NEW t \in Thread, Work(t), ~Record(t),
           NEW c \in Camera, NEW f \in Nat, NEW b \in Board
    PROVE  Due(c, f, b)' <=> Due(c, f, b)
<1> USE DEF Inv1
<1>0. b \in Nat /\ b < NbBoard
  BY SizeAssumption DEF Board
<1>1. /\ UNCHANGED <<folder, cam>>
      /\ \A u \in Thread \ {t} :
            pc'[u] = pc[u] /\ task'[u] = task[u] /\ board'[u] = board[u]
  BY DEF Work, TakeTask, SkipBoard, EndTask, Acquire, ReadSize, Record,
         FindFrame, InsertInFrame, FindCamObs, InsertInCamObs, TypeOK, mainVars
<1>2. /\ NbImages(c)' = NbImages(c) /\ Accepted(c, f, b)' = Accepted(c, f, b)
      /\ \A u \in Thread \ {t} : /\ Busy(u, f)' = Busy(u, f)
                                 /\ Passed(u, b)' = Passed(u, b)
  BY <1>1 DEF NbImages, Accepted, Busy, Passed
<1> SUFFICES ASSUME Accepted(c, f, b), f < NbImages(c), c = cam
             PROVE  Due(c, f, b)' <=> Due(c, f, b)
  BY <1>1, <1>2 DEF Due
<1> DEFINE Held == \A u \in Thread \ {t} : Busy(u, f) => Passed(u, b)
<1>3. /\ Due(c, f, b) <=> f < taken /\ Held /\ (Busy(t, f) => Passed(t, b))
      /\ Due(c, f, b)' <=>
            f < taken' /\ Held /\ (Busy(t, f)' => Passed(t, b)')
  <2>1. ~(c < cam) /\ cam' = cam
    BY <1>1 DEF TypeOK, Camera
  <2>2. Due(c, f, b) <=>
           f < taken /\ \A u \in Thread : Busy(u, f) => Passed(u, b)
    BY <2>1 DEF Due
  <2>3. Due(c, f, b)' <=>
           f < taken' /\ \A u \in Thread : (Busy(u, f) => Passed(u, b))'
    BY <1>1, <1>2, <2>1 DEF Due, Busy, Passed
  <2>4. (\A u \in Thread : (Busy(u, f) => Passed(u, b))') <=>
           Held /\ (Busy(t, f)' => Passed(t, b)')
    BY <1>1 DEF Busy, Passed
  <2> QED
    BY <2>2, <2>3, <2>4
<1> HIDE DEF Held
<1>4. CASE TakeTask(t)
  <2>1. /\ taken' = taken + 1 /\ pc'[t] = "scan" /\ board'[t] = 0
        /\ task'[t].frame = taken /\ pc[t] = "idle"
    BY <1>4 DEF TakeTask, TypeOK
  <2>2. CASE f = taken
    <3>1. Busy(t, f)' /\ ~Passed(t, b)'
      BY <1>0, <2>1, <2>2 DEF Busy, Passed
    <3> QED
      BY <1>3, <2>2, <3>1 DEF TypeOK
  <2>3. CASE f # taken
    <3>1. ~Busy(t, f)' /\ ~Busy(t, f)
      BY <2>1, <2>3 DEF Busy
    <3>2. f < taken' <=> f < taken
      BY <2>1, <2>3 DEF TypeOK
    <3> QED
      BY <1>3, <3>1, <3>2
  <2> QED
    BY <2>2, <2>3
<1>5. CASE ~TakeTask(t)
  <2>1. taken' = taken /\ task'[t] = task[t]
    BY <1>5 DEF Work, SkipBoard, EndTask, Acquire, ReadSize, Record,
                FindFrame, InsertInFrame, FindCamObs, InsertInCamObs
  <2>2. board[t] \in Nat
    BY SizeAssumption DEF TypeOK
  <2> SUFFICES (Busy(t, f)' => Passed(t, b)') <=> (Busy(t, f) => Passed(t, b))
    BY <1>3, <2>1
  <2>3. CASE SkipBoard(t)
    <3>1. /\ pc'[t] = "scan" /\ pc[t] = "scan" /\ board'[t] = board[t] + 1
          /\ ~Accepted(task[t].cam, task[t].frame, board[t])
          /\ task[t].cam = cam
      BY <2>3 DEF SkipBoard, TypeOK, TaskInv
    <3>2. Busy(t, f) => board[t] # b
      BY <3>1 DEF Busy
    <3> QED
      BY <1>0, <2>1, <2>2, <3>1, <3>2 DEF Busy, Passed
  <2>4. CASE EndTask(t)
    BY <1>0, <2>1, <2>4 DEF EndTask, Busy, Passed, TypeOK
  <2>5. CASE Acquire(t) \/ ReadSize(t)
    BY <2>1, <2>5 DEF Acquire, ReadSize, Busy, Passed, TypeOK
  <2>6. CASE FindFrame(t) \/ InsertInFrame(t) \/ FindCamObs(t)
    BY <2>1, <2>6 DEF FindFrame, InsertInFrame, FindCamObs, Busy, Passed,
                      TypeOK
  <2>7. CASE InsertInCamObs(t)
    BY <1>0, <2>1, <2>2, <2>7 DEF InsertInCamObs, Busy, Passed, TypeOK
  <2> QED
    BY <1>5, <2>3, <2>4, <2>5, <2>6, <2>7 DEF Work
<1> QED
  BY <1>4, <1>5

\* Record makes exactly the board in hand due, and it was not due before.
LEMMA RecordMakesDue ==
    ASSUME Inv1, NEW t \in Thread, Record(t),
           NEW c \in Camera, NEW f \in Nat, NEW b \in Board
    PROVE  /\ Due(c, f, b)' <=>
                 Due(c, f, b) \/ Current(t) = [cam |-> c, frame |-> f, board |-> b]
           /\ Current(t) = [cam |-> c, frame |-> f, board |-> b]
                 => ~Due(c, f, b)
<1> USE DEF Inv1
<1>0. b \in Nat /\ board[t] \in Nat /\ cam \in Int
  BY SizeAssumption DEF Board, TypeOK
<1>1. /\ UNCHANGED <<folder, cam, taken, task, board>>
      /\ pc[t] = "record" /\ pc' = [pc EXCEPT ![t] = "find_frame"]
      /\ task[t].cam = cam /\ task[t].frame < taken
      /\ Accepted(cam, task[t].frame, board[t])
  BY DEF Record, TypeOK, TaskInv, LockInv, Inserting, mainVars
<1>2. task[t].frame < NbImages(cam)
  <2>1. phase # "done"
    BY <1>1 DEF MainInv, TypeOK
  <2>2. NbImages(cam) \in Nat
    <3>1. cam \in Camera
      BY <2>1, SizeAssumption DEF MainInv, TypeOK, Camera
    <3>2. folder \in [Camera -> Seq(Content)]
      BY ImageAssumption DEF TypeOK
    <3> QED
      BY <3>1, <3>2 DEF NbImages
  <2> QED
    BY <1>1, <2>1, <2>2 DEF MainInv, TypeOK
<1>3. \A u \in Thread : /\ Busy(u, f)' = Busy(u, f)
                        /\ u # t => Passed(u, b)' = Passed(u, b)
  BY <1>1 DEF Busy, Passed, TypeOK
<1>4. /\ Passed(t, b) <=> board[t] > b
      /\ Passed(t, b)' <=> board[t] > b \/ board[t] = b
  BY <1>1 DEF Passed, TypeOK
<1>5. NbImages(c)' = NbImages(c) /\ Accepted(c, f, b)' = Accepted(c, f, b)
  BY <1>1 DEF NbImages, Accepted
<1>6. CASE Current(t) = [cam |-> c, frame |-> f, board |-> b]
  <2>1. c = cam /\ f = task[t].frame /\ b = board[t]
    BY <1>1, <1>6 DEF Current
  <2>2. Busy(t, f) /\ ~Passed(t, b)
    BY <1>0, <1>1, <1>4, <2>1 DEF Busy
  <2>3. ~Due(c, f, b)
    BY <1>0, <2>1, <2>2 DEF Due
  <2>4. \A u \in Thread : Busy(u, f)' => u = t
    BY <1>1, <1>3, <2>1 DEF Busy, TaskInv
  <2>5. Due(c, f, b)'
    BY <1>0, <1>1, <1>2, <1>4, <1>5, <2>1, <2>4 DEF Due
  <2> QED
    BY <1>6, <2>3, <2>5
<1>7. CASE Current(t) # [cam |-> c, frame |-> f, board |-> b]
  <2>1. c = cam /\ Busy(t, f) => b # board[t]
    BY <1>1, <1>7 DEF Current, Busy
  <2>2. c = cam => (Busy(t, f)' => Passed(t, b)') =
                   (Busy(t, f) => Passed(t, b))
    BY <1>3, <1>4, <2>1
  <2> QED
    BY <1>1, <1>3, <1>5, <1>7, <2>2 DEF Due
<1> QED
  BY <1>6, <1>7

Inv2 == Inv1 /\ LookupInv /\ RecordedExact

\* What is recorded are observations.
LEMMA RecordedType == TypeOK => Recorded \subseteq Obs
BY DEF TypeOK, Recorded

\* Nothing is recorded and nothing is due at first.
LEMMA InitExact == Init => RecordedExact
<1> SUFFICES ASSUME Init PROVE RecordedExact
  OBVIOUS
<1>1. Recorded = {} /\ Len(board_observations) = 0
  BY DEF Init, Recorded
<1>2. \A c \in Camera, f \in Nat, b \in Board : ~Due(c, f, b)
  BY DEF Init, Due, Camera
<1>3. \A c \in Camera : 0 .. NbImages(c) - 1 \subseteq Nat
  OBVIOUS
<1> QED
  BY <1>1, <1>2, <1>3 DEF RecordedExact

\* A step that changes neither the observations nor what is due.
LEMMA SameExact ==
    ASSUME Inv1, RecordedExact, Recorded' = Recorded,
           board_observations' = board_observations, folder' = folder,
           \A c \in Camera, f \in Nat, b \in Board :
              Due(c, f, b)' <=> Due(c, f, b)
    PROVE  RecordedExact'
<1>1. Recorded \subseteq Obs
  BY RecordedType DEF Inv1
<1>2. \A o \in Recorded' : Due(o.cam, o.frame, o.board)'
  BY <1>1 DEF RecordedExact, Obs
<1>3. \A c \in Camera, b \in Board : \A f \in 0 .. NbImages(c)' - 1 :
         Due(c, f, b)' => [cam |-> c, frame |-> f, board |-> b] \in Recorded'
  <2> SUFFICES ASSUME NEW c \in Camera, NEW b \in Board,
                      NEW f \in 0 .. NbImages(c) - 1, Due(c, f, b)
               PROVE  [cam |-> c, frame |-> f, board |-> b] \in Recorded
    BY DEF NbImages
  <2> QED
    BY DEF RecordedExact
<1> QED
  BY <1>2, <1>3 DEF RecordedExact

\* Record adds one detection that was due, and adds it once.
LEMMA RecordExact ==
    ASSUME Inv2, NEW t \in Thread, Record(t)
    PROVE  RecordedExact'
<1> USE DEF Inv2
<1> DEFINE n == Len(board_observations)
           new == Current(t)
<1>0. /\ n \in Nat
      /\ Len(board_observations') = n + 1
      /\ \A i \in 1 .. n : board_observations'[i] = board_observations[i]
      /\ board_observations'[n + 1] = new
      /\ Recorded' = Recorded \cup {new}
  BY RecordAppends
<1>1. new \in Obs /\ Recorded \subseteq Obs
  BY RecordedType, CurrentType DEF Inv1, Record, Inserting
<1>2. \A o \in Obs : /\ Due(o.cam, o.frame, o.board)' <=>
                           Due(o.cam, o.frame, o.board) \/ new = o
                     /\ new = o => ~Due(o.cam, o.frame, o.board)
  <2> TAKE o \in Obs
  <2>1. /\ o.cam \in Camera /\ o.frame \in Nat /\ o.board \in Board
        /\ o = [cam |-> o.cam, frame |-> o.frame, board |-> o.board]
    BY DEF Obs
  <2> QED
    BY <2>1, RecordMakesDue
<1>3. new \notin Recorded
  BY <1>1, <1>2 DEF RecordedExact
<1>4. \A o \in Recorded' : Due(o.cam, o.frame, o.board)'
  BY <1>0, <1>1, <1>2 DEF RecordedExact
<1>5. \A c \in Camera, b \in Board : \A f \in 0 .. NbImages(c)' - 1 :
         Due(c, f, b)' => [cam |-> c, frame |-> f, board |-> b] \in Recorded'
  <2> SUFFICES ASSUME NEW c \in Camera, NEW b \in Board,
                      NEW f \in 0 .. NbImages(c) - 1, Due(c, f, b)'
               PROVE  [cam |-> c, frame |-> f, board |-> b] \in Recorded'
    BY DEF NbImages, Record
  <2>1. f \in Nat
    OBVIOUS
  <2>2. Due(c, f, b) \/ new = [cam |-> c, frame |-> f, board |-> b]
    BY <2>1, RecordMakesDue
  <2> QED
    BY <1>0, <2>2 DEF RecordedExact
<1>6. \A i, j \in 1 .. n + 1 :
         board_observations'[i] = board_observations'[j] => i = j
  <2>1. \A i \in 1 .. n : board_observations[i] \in Recorded
    BY DEF Recorded
  <2>2. \A i \in 1 .. n : board_observations'[i] # new
    BY <1>0, <1>3, <2>1
  <2> HIDE DEF n, new
  <2> TAKE i, j \in 1 .. n + 1
  <2>3. CASE i \in 1 .. n /\ j \in 1 .. n
    BY <1>0, <2>3 DEF RecordedExact, n
  <2>4. CASE i = n + 1 \/ j = n + 1
    <3>1. i # j => i \in 1 .. n \/ j \in 1 .. n
      BY <1>0
    <3> QED
      BY <1>0, <2>2, <2>4, <3>1
  <2> QED
    BY <1>0, <2>3, <2>4
<1> QED
  BY <1>0, <1>4, <1>5, <1>6 DEF RecordedExact

\* Every step keeps Inv2.
LEMMA NextInv2 == Inv2 /\ [Next]_vars => Inv2'
<1> SUFFICES ASSUME Inv2, [Next]_vars PROVE Inv2'
  OBVIOUS
<1> USE DEF Inv2
<1>1. Inv1'
  BY NextInv1
<1>2. CASE Main
  <2>1. /\ board_observations' = board_observations /\ folder' = folder
        /\ Recorded' = Recorded
    BY <1>2 DEF Main, OpenFolder, PostTask, StartJoin, Join, Recorded
  <2> QED
    BY <1>1, <1>2, <2>1, MainLookup, MainKeepsDue, SameExact
<1>3. CASE \E t \in Thread : Work(t)
  <2>1. PICK t \in Thread : Work(t)
    BY <1>3
  <2>2. LookupInv'
    BY <2>1, WorkLookup
  <2>3. CASE Record(t)
    BY <1>1, <2>2, <2>3, RecordExact
  <2>4. CASE ~Record(t)
    <3>1. folder' = folder
      BY <2>1 DEF Work, TakeTask, SkipBoard, EndTask, Acquire, ReadSize,
                  Record, FindFrame, InsertInFrame, FindCamObs, InsertInCamObs
    <3> QED
      BY <1>1, <2>1, <2>2, <2>4, <3>1, OthersKeepRecorded, WorkKeepsDue,
         SameExact
  <2> QED
    BY <2>3, <2>4
<1>4. CASE UNCHANGED vars
  <2>1. LookupInv'
    BY <1>4 DEF LookupInv, vars, threadVars, viewVars
  <2>2. \A c \in Camera, f \in Nat, b \in Board :
           Due(c, f, b)' <=> Due(c, f, b)
    BY <1>4 DEF Due, Accepted, NbImages, Busy, Passed, vars, mainVars,
                threadVars
  <2>3. Recorded' = Recorded /\ folder' = folder
        /\ board_observations' = board_observations
    BY <1>4 DEF Recorded, vars
  <2> QED
    BY <1>1, <2>1, <2>2, <2>3, SameExact
<1> QED
  BY <1>2, <1>3, <1>4 DEF Next, Finished

\* What a thread has read under the lock is still true, and every detection is recorded once.
THEOREM Invariant2 == Spec => []Inv2
<1>1. Init => Inv2
  BY InitInv1, InitLookup, InitExact DEF Inv2
<1> QED
  BY <1>1, NextInv2, PTL DEF Spec

\* In every interleaving of the pool's threads, board_observations_ holds each
\* accepted board that is due exactly once, and nothing else.
THEOREM DetectionsExact == Spec => []RecordedExact
<1>1. Inv2 => RecordedExact
  BY DEF Inv2
<1> QED
  BY <1>1, Invariant2, PTL

\* A step of the extraction only appends to board_observations_.
THEOREM NumbersAreStable == Spec => NumbersStable
<1> DEFINE Stable ==
      /\ Len(board_observations) <= Len(board_observations')
      /\ \A i \in 1 .. Len(board_observations) :
            board_observations'[i] = board_observations[i]
<1>1. ASSUME Inv2, [Next]_vars PROVE Stable
  <2>1. Len(board_observations) \in Nat
    BY <1>1 DEF Inv2, Inv1, TypeOK
  <2>2. CASE board_observations' = board_observations
    BY <2>1, <2>2
  <2>3. CASE \E t \in Thread : Record(t)
    <3>1. PICK t \in Thread : Record(t)
      BY <2>3
    <3> QED
      BY <1>1, <2>1, <3>1, RecordAppends DEF Inv2
  <2>4. ASSUME \A t \in Thread : ~Record(t)
        PROVE  board_observations' = board_observations
    BY <1>1, <2>4, OthersKeepRecorded
    DEF Next, Main, OpenFolder, PostTask, StartJoin, Join, Finished, vars
  <2> QED
    BY <2>2, <2>3, <2>4
<1>2. Inv2 /\ [Next]_vars => [Stable]_vars
  BY <1>1
<1> QED
  BY <1>2, Invariant2, PTL DEF Spec, NumbersStable

-----------------------------------------------------------------------------
(* The views: cameras, boards, frames and camera observations.             *)

\* Only the thread inside insertNewBoard can be behind with an observation.
LEMMA Behind ==
    Inv1 =>
    /\ FrameBehind \subseteq CamObsBehind
    /\ lock = NoThread => CamObsBehind = {}
    /\ \A t \in Thread : pc[t] \in Inserting =>
          /\ FrameBehind = IF pc[t] \in {"find_frame", "frame"}
                           THEN {Current(t)} ELSE {}
          /\ CamObsBehind = IF pc[t] \in {"find_frame", "frame",
                                          "find_camobs", "camobs"}
                            THEN {Current(t)} ELSE {}
<1> SUFFICES ASSUME Inv1 PROVE Behind!2
  OBVIOUS
<1> USE DEF Inv1
<1>1. FrameBehind \subseteq CamObsBehind
  BY DEF FrameBehind, CamObsBehind
<1>2. lock = NoThread => CamObsBehind = {}
  BY ThreadAssumption DEF CamObsBehind, LockInv, Inserting
<1>3. ASSUME NEW t \in Thread, pc[t] \in Inserting
      PROVE  /\ FrameBehind = IF pc[t] \in {"find_frame", "frame"}
                              THEN {Current(t)} ELSE {}
             /\ CamObsBehind = IF pc[t] \in {"find_frame", "frame",
                                             "find_camobs", "camobs"}
                               THEN {Current(t)} ELSE {}
  <2>1. \A u \in Thread : u # t => pc[u] \notin Inserting
    BY <1>3, MutualExclusion
  <2> QED
    BY <1>3, <2>1 DEF FrameBehind, CamObsBehind, Inserting
<1> QED
  BY <1>1, <1>2, <1>3

\* At first all containers are empty.
LEMMA InitView == Init => ViewInv
<1> SUFFICES ASSUME Init PROVE ViewInv
  OBVIOUS
<1>1. Recorded = {}
  BY DEF Init, Recorded
<1>2. CamObsBehind = {} /\ InFrames = {} /\ InCamsObs = {}
  BY <1>1 DEF Init, CamObsBehind, InFrames, InCamsObs
<1> QED
  BY <1>1, <1>2 DEF Init, ViewInv

\* A step that touches no container and leaves nobody further behind.
LEMMA SameView ==
    ASSUME ViewInv, Recorded' = Recorded, UNCHANGED viewVars,
           FrameBehind' = FrameBehind, CamObsBehind' = CamObsBehind
    PROVE  ViewInv'
BY DEF ViewInv, viewVars, InFrames, InCamsObs

\* After Record the other containers are one observation behind.
LEMMA RecordView ==
    ASSUME Inv2, ViewInv, NEW t \in Thread, Record(t), Inv1'
    PROVE  ViewInv'
<1> USE DEF Inv2
<1> DEFINE new == Current(t)
<1>1. /\ pc[t] = "record" /\ pc'[t] = "find_frame"
      /\ UNCHANGED <<task, board, cam_frames, board_frames, frames, cams_obs>>
      /\ cam_boards' = [cam_boards EXCEPT ![task[t].cam] = @ \cup {new}]
      /\ board_boards' = [board_boards EXCEPT ![board[t]] = @ \cup {new}]
  BY DEF Record, Inv1, TypeOK
<1>2. /\ new \in Obs /\ new.cam = task[t].cam /\ new.board = board[t]
      /\ Recorded' = Recorded \cup {new}
  BY <1>1, RecordAppends, CurrentType DEF Inv1, Inserting, Current
<1>3. new \notin Recorded
  <2>1. /\ new.cam \in Camera /\ new.frame \in Nat /\ new.board \in Board
        /\ new = [cam |-> new.cam, frame |-> new.frame, board |-> new.board]
    BY <1>2 DEF Obs
  <2> QED
    BY <2>1, RecordMakesDue DEF RecordedExact
<1>4. FrameBehind = {} /\ CamObsBehind = {}
  BY <1>1, Behind DEF Inserting
<1>5. FrameBehind' = {new} /\ CamObsBehind' = {new}
  <2>1. Current(t)' = new
    BY <1>1 DEF Current
  <2>2. Behind!2'
    BY Behind, PTL
  <2> QED
    BY <1>1, <2>1, <2>2 DEF Inserting
<1>6. InFrames' = InFrames /\ InCamsObs' = InCamsObs
  BY <1>2, <1>3, <1>4, <1>5 DEF InFrames, InCamsObs
<1> HIDE DEF new
<1>7. ASSUME NEW c \in Camera
      PROVE  cam_boards'[c] = {o \in Recorded' : o.cam = c}
  <2>1. cam_boards'[c] = IF c = task[t].cam THEN cam_boards[c] \cup {new}
                                            ELSE cam_boards[c]
    BY <1>1 DEF Inv1, TypeOK
  <2>2. cam_boards[c] = {o \in Recorded : o.cam = c}
    BY DEF ViewInv
  <2> QED
    BY <1>2, <2>1, <2>2
<1>8. ASSUME NEW b \in Board
      PROVE  board_boards'[b] = {o \in Recorded' : o.board = b}
  <2>1. board_boards'[b] = IF b = board[t] THEN board_boards[b] \cup {new}
                                           ELSE board_boards[b]
    BY <1>1 DEF Inv1, TypeOK
  <2>2. board_boards[b] = {o \in Recorded : o.board = b}
    BY DEF ViewInv
  <2> QED
    BY <1>2, <2>1, <2>2
<1>9. CamObsBehind' \subseteq Recorded'
  BY <1>2, <1>5
<1> QED
  BY <1>1, <1>6, <1>7, <1>8, <1>9 DEF ViewInv

\* InsertInFrame catches up in the frame.
LEMMA FrameView ==
    ASSUME Inv2, ViewInv, NEW t \in Thread, InsertInFrame(t), Inv1'
    PROVE  ViewInv'
<1> USE DEF Inv2
<1> DEFINE new == Current(t)
           f == task[t].frame
<1>1. /\ pc[t] = "frame" /\ pc'[t] = "find_camobs"
      /\ UNCHANGED <<task, board, board_observations, cam_boards,
                     board_boards, cams_obs>>
      /\ found[t] = (f \in DOMAIN frames)
  BY DEF InsertInFrame, Inv1, TypeOK, LookupInv
<1>2. Recorded' = Recorded /\ new.frame = f
  BY <1>1 DEF Recorded, Current
<1>3. FrameBehind = {new} /\ CamObsBehind = {new}
  BY <1>1, Behind DEF Inserting
<1>4. FrameBehind' = {} /\ CamObsBehind' = {new}
  <2>1. Current(t)' = new
    BY <1>1 DEF Current
  <2>2. Behind!2'
    BY Behind, PTL
  <2> QED
    BY <1>1, <2>1, <2>2 DEF Inserting
<1>5. new \in Recorded
  BY <1>3 DEF ViewInv
<1>6. InFrames' = InFrames \cup {new} /\ InCamsObs' = InCamsObs
  BY <1>2, <1>3, <1>4, <1>5 DEF InFrames, InCamsObs
<1>7. DOMAIN frames = {o.frame : o \in InFrames}
  BY DEF ViewInv
<1>8. /\ DOMAIN frames' = DOMAIN frames \cup {f}
      /\ \A g \in DOMAIN frames : g # f => frames'[g] = frames[g]
      /\ frames'[f].boards = {o \in InFrames : o.frame = f} \cup {new}
      /\ frames'[f].cams = {c \in Camera : <<c, f>> \in DOMAIN cams_obs}
  <2>1. CASE f \in DOMAIN frames
    <3>1. frames' = [frames EXCEPT ![f] = AddBoard(@, new)]
      BY <1>1, <2>1 DEF InsertInFrame
    <3> QED
      BY <2>1, <3>1 DEF ViewInv, AddBoard
  <2>2. CASE f \notin DOMAIN frames
    <3>1. frames' = Put(frames, f, [boards |-> {new}, cams |-> {}])
      BY <1>1, <2>2 DEF InsertInFrame
    <3>2. {o \in InFrames : o.frame = f} = {}
      BY <1>7, <2>2
    <3>3. {c \in Camera : <<c, f>> \in DOMAIN cams_obs} = {}
      <4>1. InCamsObs \subseteq InFrames
        BY Behind DEF InFrames, InCamsObs
      <4>2. DOMAIN cams_obs = {<<o.cam, o.frame>> : o \in InCamsObs}
        BY DEF ViewInv
      <4> QED
        BY <3>2, <4>1, <4>2
    <3> QED
      BY <3>1, <3>2, <3>3 DEF Put
  <2> QED
    BY <2>1, <2>2
<1>9. DOMAIN frames' = {o.frame : o \in InFrames'}
  BY <1>2, <1>6, <1>7, <1>8
<1>10. ASSUME NEW g \in DOMAIN frames'
       PROVE  /\ frames'[g].boards = {o \in InFrames' : o.frame = g}
              /\ frames'[g].cams =
                    {c \in Camera : <<c, g>> \in DOMAIN cams_obs'}
  <2>1. CASE g = f
    BY <1>1, <1>2, <1>6, <1>8, <2>1
  <2>2. CASE g # f
    <3>1. g \in DOMAIN frames /\ frames'[g] = frames[g]
      BY <1>8, <1>10, <2>2
    <3>2. {o \in InFrames' : o.frame = g} = {o \in InFrames : o.frame = g}
      BY <1>2, <1>6, <2>2
    <3> QED
      BY <1>1, <3>1, <3>2 DEF ViewInv
  <2> QED
    BY <2>1, <2>2
<1>11. CamObsBehind' \subseteq Recorded'
  BY <1>2, <1>4, <1>5
<1> QED
  BY <1>1, <1>2, <1>6, <1>9, <1>10, <1>11 DEF ViewInv

\* InsertInCamObs catches up in the camera's observations.
LEMMA CamObsView ==
    ASSUME Inv2, ViewInv, NEW t \in Thread, InsertInCamObs(t), Inv1'
    PROVE  ViewInv'
<1> USE DEF Inv2
<1> DEFINE new == Current(t)
           c  == task[t].cam
           f  == task[t].frame
           cf == <<c, f>>
<1>1. /\ pc[t] = "camobs" /\ pc'[t] = "scan" /\ lock' = NoThread
      /\ UNCHANGED <<task, board_observations, cam_boards, board_boards>>
      /\ found[t] = (cf \in DOMAIN cams_obs)
  BY DEF InsertInCamObs, Inv1, TypeOK, LookupInv
<1>2. Recorded' = Recorded /\ new.frame = f /\ new.cam = c /\ c \in Camera
  BY <1>1, CurrentType DEF Recorded, Current, Inv1, Inserting
<1>3. FrameBehind = {} /\ CamObsBehind = {new}
  BY <1>1, Behind DEF Inserting
<1>4. FrameBehind' = {} /\ CamObsBehind' = {}
  <2>1. Behind!2'
    BY Behind, PTL
  <2> QED
    BY <1>1, <2>1
<1>5. new \in Recorded
  BY <1>3 DEF ViewInv
<1>6. InFrames' = InFrames /\ InCamsObs' = InCamsObs \cup {new} /\ new \in InFrames
  BY <1>2, <1>3, <1>4, <1>5 DEF InFrames, InCamsObs
<1>7. /\ DOMAIN cams_obs = {<<o.cam, o.frame>> : o \in InCamsObs}
      /\ \A x \in DOMAIN cams_obs :
            cams_obs[x] = {o \in InCamsObs : <<o.cam, o.frame>> = x}
      /\ f \in DOMAIN frames
  BY <1>2, <1>6 DEF ViewInv
<1>8. /\ DOMAIN cams_obs' = DOMAIN cams_obs \cup {cf}
      /\ \A x \in DOMAIN cams_obs : x # cf => cams_obs'[x] = cams_obs[x]
      /\ cams_obs'[cf] = {o \in InCamsObs : <<o.cam, o.frame>> = cf} \cup {new}
  <2>1. CASE cf \in DOMAIN cams_obs
    <3>1. cams_obs' = [cams_obs EXCEPT ![cf] = @ \cup {new}]
      BY <1>1, <2>1 DEF InsertInCamObs
    <3> QED
      BY <1>7, <2>1, <3>1
  <2>2. CASE cf \notin DOMAIN cams_obs
    <3>1. cams_obs' = Put(cams_obs, cf, {new})
      BY <1>1, <2>2 DEF InsertInCamObs
    <3>2. {o \in InCamsObs : <<o.cam, o.frame>> = cf} = {}
      BY <1>7, <2>2
    <3> QED
      BY <3>1, <3>2 DEF Put
  <2> QED
    BY <2>1, <2>2
<1>9. DOMAIN cams_obs' = {<<o.cam, o.frame>> : o \in InCamsObs'}
  BY <1>2, <1>6, <1>7, <1>8
<1>10. ASSUME NEW x \in DOMAIN cams_obs'
       PROVE  cams_obs'[x] = {o \in InCamsObs' : <<o.cam, o.frame>> = x}
  <2>1. CASE x = cf
    BY <1>2, <1>6, <1>8, <2>1
  <2>2. CASE x # cf
    <3>1. x \in DOMAIN cams_obs /\ cams_obs'[x] = cams_obs[x]
      BY <1>8, <1>10, <2>2
    <3> QED
      BY <1>2, <1>6, <1>7, <2>2, <3>1
  <2> QED
    BY <2>1, <2>2
<1>11. /\ DOMAIN frames' = DOMAIN frames
       /\ \A g \in DOMAIN frames :
             /\ frames'[g].boards = frames[g].boards
             /\ g # f => frames'[g].cams = frames[g].cams
       /\ frames'[f].cams = frames[f].cams \cup {c}
  <2>1. CASE cf \in DOMAIN cams_obs
    <3>1. frames' = frames
      BY <1>1, <2>1 DEF InsertInCamObs
    <3>2. c \in frames[f].cams
      BY <1>2, <1>7, <2>1 DEF ViewInv
    <3> QED
      BY <3>1, <3>2
  <2>2. CASE cf \notin DOMAIN cams_obs
    <3>1. frames' = [frames EXCEPT ![f] = AddCamObs(@, c)]
      BY <1>1, <2>2 DEF InsertInCamObs
    <3> QED
      BY <1>7, <3>1 DEF AddCamObs
  <2> QED
    BY <2>1, <2>2
<1>12. ASSUME NEW g \in DOMAIN frames'
       PROVE  /\ frames'[g].boards = {o \in InFrames' : o.frame = g}
              /\ frames'[g].cams =
                    {d \in Camera : <<d, g>> \in DOMAIN cams_obs'}
  <2>1. g \in DOMAIN frames
    BY <1>11
  <2>2. frames[g].cams = {d \in Camera : <<d, g>> \in DOMAIN cams_obs}
    BY <2>1 DEF ViewInv
  <2>3. frames'[g].boards = {o \in InFrames' : o.frame = g}
    BY <1>6, <1>11, <2>1 DEF ViewInv
  <2>4. frames'[g].cams = {d \in Camera : <<d, g>> \in DOMAIN cams_obs'}
    BY <1>2, <1>8, <1>11, <2>1, <2>2
  <2> QED
    BY <2>3, <2>4
<1>13. DOMAIN frames' = {o.frame : o \in InFrames'}
  BY <1>6, <1>11 DEF ViewInv
<1>14. /\ \A d \in Camera : cam_boards'[d] = {o \in Recorded' : o.cam = d}
       /\ \A b \in Board : board_boards'[b] = {o \in Recorded' : o.board = b}
       /\ CamObsBehind' \subseteq Recorded'
  BY <1>1, <1>2, <1>4 DEF ViewInv
<1> QED
  BY <1>9, <1>10, <1>12, <1>13, <1>14 DEF ViewInv

\* The steps that move a thread without touching a container.
LEMMA OtherStepsView ==
    ASSUME Inv2, ViewInv, NEW t \in Thread, Work(t),
           ~Record(t), ~InsertInFrame(t), ~InsertInCamObs(t)
    PROVE  ViewInv'
<1> USE DEF Inv2
<1> DEFINE late == {"find_frame", "frame", "find_camobs", "camobs"}
<1>1. /\ UNCHANGED viewVars /\ Recorded' = Recorded
      /\ \A u \in Thread \ {t} :
            pc'[u] = pc[u] /\ task'[u] = task[u] /\ board'[u] = board[u]
  BY DEF Work, TakeTask, SkipBoard, EndTask, Acquire, ReadSize, FindFrame,
         FindCamObs, Inv1, TypeOK, Recorded
<1>2. /\ pc'[t] \in {"find_frame", "frame"} <=> pc[t] \in {"find_frame", "frame"}
      /\ pc'[t] \in late <=> pc[t] \in late
      /\ pc[t] \in late => task'[t] = task[t] /\ board'[t] = board[t]
  BY DEF Work, TakeTask, SkipBoard, EndTask, Acquire, ReadSize, FindFrame,
         FindCamObs, Inv1, TypeOK
<1>3. \A u \in Thread : pc[u] \in late => Current(u)' = Current(u)
  BY <1>1, <1>2 DEF Current
<1>4. {u \in Thread : pc[u] \in {"find_frame", "frame"}}' =
      {u \in Thread : pc[u] \in {"find_frame", "frame"}}
  BY <1>1, <1>2
<1>5. {u \in Thread : pc[u] \in late}' = {u \in Thread : pc[u] \in late}
  BY <1>1, <1>2
<1>6. FrameBehind' = FrameBehind
  BY <1>3, <1>4 DEF FrameBehind
<1>7. CamObsBehind' = CamObsBehind
  BY <1>3, <1>5 DEF CamObsBehind
<1> QED
  BY <1>1, <1>6, <1>7, SameView

\* Every step keeps the containers as far as their thread has come.
LEMMA NextView == Inv2 /\ ViewInv /\ [Next]_vars => ViewInv'
<1> SUFFICES ASSUME Inv2, ViewInv, [Next]_vars PROVE ViewInv'
  OBVIOUS
<1>1. Inv1'
  BY NextInv1 DEF Inv2
<1>2. CASE Main \/ UNCHANGED vars
  <2>1. /\ UNCHANGED <<viewVars, pc, task, board>>
        /\ Recorded' = Recorded
    BY <1>2 DEF Main, OpenFolder, PostTask, StartJoin, Join, vars, threadVars,
                Recorded
  <2>2. FrameBehind' = FrameBehind /\ CamObsBehind' = CamObsBehind
    BY <2>1 DEF FrameBehind, CamObsBehind, Current
  <2> QED
    BY <2>1, <2>2, SameView
<1>3. ASSUME NEW t \in Thread, Work(t) PROVE ViewInv'
  BY <1>1, <1>3, RecordView, FrameView, CamObsView, OtherStepsView
<1> QED
  BY <1>2, <1>3 DEF Next, Finished

\* The six containers are views of one set of observations whenever no thread
\* is inside insertNewBoard, in every interleaving.
THEOREM ViewsAlwaysAgree == Spec => []ViewsAgree
<1>1. Init => Inv2 /\ ViewInv
  BY InitInv1, InitLookup, InitExact, InitView DEF Inv2
<1>2. Inv2 /\ ViewInv /\ [Next]_vars => (Inv2 /\ ViewInv)'
  BY NextInv2, NextView
<1>3. Inv2 /\ ViewInv => ViewsAgree
  <2> SUFFICES ASSUME Inv2, ViewInv, lock = NoThread PROVE ViewsAgree
    BY DEF ViewsAgree
  <2>1. InFrames = Recorded /\ InCamsObs = Recorded
    BY Behind DEF Inv2, InFrames, InCamsObs
  <2> QED
    BY <2>1 DEF ViewInv, ViewsAgree
<1> QED
  BY <1>1, <1>2, <1>3, PTL DEF Spec

-----------------------------------------------------------------------------
(* The frames of the cameras and the boards.                               *)

FramesFirstSeenBy(c) ==
    {board_observations[i].frame :
        i \in {k \in FirstOfFrame : board_observations[k] \in InFrames /\ board_observations[k].cam = c}}
FramesFirstSeenWith(b) ==
    {board_observations[i].frame :
        i \in {k \in FirstOfFrame : board_observations[k] \in InFrames /\ board_observations[k].board = b}}

\* FramesOfFirst, extended to the middle of insertNewBoard, where the last
\* observation is the one that is not in its frame yet.
FirstInv ==
    /\ \A t \in Thread : pc[t] \in {"find_frame", "frame"} =>
          /\ board_observations # <<>>
          /\ board_observations[Len(board_observations)] = Current(t)
    /\ \A c \in Camera : cam_frames[c] = FramesFirstSeenBy(c)
    /\ \A b \in Board : board_frames[b] = FramesFirstSeenWith(b)

\* A new observation does not make an older one the first of its frame, nor
\* keep it from being so.
LEMMA RecordFirst ==
    ASSUME Inv2, FirstInv, NEW t \in Thread, Record(t), Inv1'
    PROVE  FirstInv'
<1> USE DEF Inv2
<1> DEFINE n == Len(board_observations)
           new == Current(t)
<1>1. /\ Len(board_observations') = n + 1 /\ n \in Nat
      /\ \A i \in 1 .. n : board_observations'[i] = board_observations[i]
      /\ board_observations'[n + 1] = new
      /\ Recorded' = Recorded \cup {new}
  BY RecordAppends
<1>2. /\ pc[t] = "record" /\ pc'[t] = "find_frame" /\ Current(t)' = new
      /\ UNCHANGED <<task, board, cam_frames, board_frames>>
  BY DEF Record, Inv1, TypeOK, Current
<1>3. new \notin Recorded
  <2>1. /\ new.cam \in Camera /\ new.frame \in Nat /\ new.board \in Board
        /\ new = [cam |-> new.cam, frame |-> new.frame, board |-> new.board]
    BY <1>2, CurrentType DEF Obs, Inv1, Inserting
  <2> QED
    BY <2>1, RecordMakesDue DEF RecordedExact
<1>4. FrameBehind = {} /\ FrameBehind' = {new}
  <2>1. FrameBehind = {}
    BY <1>2, Behind DEF Inserting
  <2>2. Behind!2'
    BY Behind, PTL
  <2> QED
    BY <1>2, <2>1, <2>2 DEF Inserting
<1>5. InFrames' = InFrames /\ InFrames = Recorded
  BY <1>1, <1>3, <1>4 DEF InFrames
<1>6. \A i \in 1 .. n : board_observations[i] \in InFrames
  BY <1>5 DEF Recorded
<1> HIDE DEF new
<1>7. {k \in FirstOfFrame' : board_observations'[k] \in InFrames'} = FirstOfFrame
  <2>1. 1 .. n + 1 = (1 .. n) \cup {n + 1} /\ \A i \in 1 .. n : 1 .. i - 1 \subseteq 1 .. n
    BY <1>1
  <2>2. \A k \in 1 .. n + 1 : board_observations'[k] \in InFrames' <=> k \in 1 .. n
    BY <1>1, <1>3, <1>5, <1>6, <2>1
  <2>3. \A i \in 1 .. n : i \in FirstOfFrame' <=> i \in FirstOfFrame
    BY <1>1, <2>1 DEF FirstOfFrame
  <2>4. FirstOfFrame \subseteq 1 .. n /\ FirstOfFrame' \subseteq 1 .. n + 1
    BY <1>1 DEF FirstOfFrame
  <2> QED
    BY <2>2, <2>3, <2>4
<1>8. \A k \in FirstOfFrame : k \in 1 .. n /\ board_observations'[k] = board_observations[k]
  BY <1>1 DEF FirstOfFrame
<1>9. ASSUME NEW c \in Camera
      PROVE  FramesFirstSeenBy(c)' = FramesFirstSeenBy(c)
  BY <1>6, <1>7, <1>8 DEF FramesFirstSeenBy
<1>10. ASSUME NEW b \in Board
       PROVE  FramesFirstSeenWith(b)' = FramesFirstSeenWith(b)
  BY <1>6, <1>7, <1>8 DEF FramesFirstSeenWith
<1>11. ASSUME NEW u \in Thread, pc'[u] \in {"find_frame", "frame"}
       PROVE  board_observations' # <<>>
              /\ board_observations'[Len(board_observations')] = Current(u)'
  <2>1. u = t
    <3>1. \A v \in Thread : v # t => pc[v] \notin Inserting
      <4>1. LockInv /\ pc[t] \in Inserting
        BY <1>2 DEF Inv1, Inserting
      <4> QED
        BY <4>1, MutualExclusion
    <3>2. u # t => pc'[u] = pc[u]
      BY DEF Record, Inv1, TypeOK
    <3> QED
      BY <1>11, <3>1, <3>2 DEF Inserting
  <2>2. Len(board_observations') # 0
    BY <1>1
  <2>3. board_observations' # <<>>
    BY <2>2
  <2> QED
    BY <1>1, <1>2, <2>1, <2>3
<1> QED
  BY <1>2, <1>9, <1>10, <1>11 DEF FirstInv

\* InsertInFrame registers a new frame with the camera and the board of its
\* first observation; a frame that exists has an earlier one.
LEMMA FrameFirst ==
    ASSUME Inv2, ViewInv, FirstInv, NEW t \in Thread, InsertInFrame(t), Inv1'
    PROVE  FirstInv'
<1> USE DEF Inv2
<1> DEFINE n == Len(board_observations)
           new == Current(t)
           f == task[t].frame
           c == task[t].cam
           b == board[t]
<1>1. /\ pc[t] = "frame" /\ pc' = [pc EXCEPT ![t] = "find_camobs"]
      /\ UNCHANGED <<task, board, board_observations>>
      /\ found[t] = (f \in DOMAIN frames)
      /\ c \in Camera /\ b \in Board
      /\ cam_frames \in [Camera -> SUBSET Nat] /\ board_frames \in [Board -> SUBSET Nat]
  BY CurrentType DEF InsertInFrame, Inv1, TypeOK, LookupInv, Inserting
<1>2. new.frame = f /\ new.cam = c /\ new.board = b
  BY DEF Current
<1>3. FrameBehind = {new} /\ FrameBehind' = {}
  <2>1. pc'[t] = "find_camobs"
    BY <1>1 DEF Inv1, TypeOK
  <2>2. Behind!2'
    BY Behind, PTL
  <2> QED
    BY <1>1, <2>1, <2>2, Behind DEF Inserting
<1>4. new \in Recorded /\ Recorded' = Recorded
  <2>1. new \in CamObsBehind
    BY <1>1 DEF CamObsBehind
  <2> QED
    BY <1>1, <2>1 DEF ViewInv, Recorded
<1>5. InFrames' = InFrames \cup {new} /\ new \notin InFrames
  BY <1>3, <1>4 DEF InFrames
<1>6. DOMAIN frames = {o.frame : o \in InFrames}
  BY DEF ViewInv
<1>7. n \in 1 .. n /\ board_observations[n] = new /\ n \in Nat
  <2>1. board_observations # <<>> /\ board_observations[n] = new
    BY <1>1 DEF FirstInv
  <2>2. board_observations \in Seq(Obs)
    BY DEF Inv1, TypeOK
  <2>3. n \in Nat /\ n # 0
    BY <2>1, <2>2
  <2> QED
    BY <2>1, <2>3
<1> HIDE DEF new, n
<1>8. \A i \in 1 .. n : board_observations[i] = new <=> i = n
  BY <1>7 DEF RecordedExact, n
<1>9. \A i \in 1 .. n : i # n => board_observations[i] \in InFrames
  BY <1>3, <1>8 DEF InFrames, Recorded, n
<1>10. /\ FirstOfFrame' = FirstOfFrame /\ FirstOfFrame \subseteq 1 .. n
       /\ board_observations' = board_observations
  BY <1>1 DEF FirstOfFrame, n
<1>11. n \in FirstOfFrame <=> f \notin DOMAIN frames
  <2>1. \A i \in 1 .. n - 1 : i \in 1 .. n /\ i # n
    BY <1>7
  <2>2. n \in FirstOfFrame <=> \A i \in 1 .. n - 1 : board_observations[i].frame # f
    BY <1>2, <1>7 DEF FirstOfFrame, n
  <2>3. \A i \in 1 .. n - 1 : board_observations[i] \in InFrames
    BY <1>9, <2>1
  <2>4. \A o \in InFrames : \E i \in 1 .. n - 1 : o = board_observations[i]
    <3> SUFFICES ASSUME NEW o \in InFrames
                 PROVE  \E i \in 1 .. n - 1 : o = board_observations[i]
      OBVIOUS
    <3>1. PICK i \in 1 .. n : o = board_observations[i]
      BY DEF InFrames, Recorded, n
    <3>2. i # n
      BY <1>5, <1>7, <3>1
    <3>3. i \in 1 .. n - 1
      BY <1>7, <3>2
    <3> QED
      BY <3>1, <3>3
  <2> QED
    BY <1>6, <2>2, <2>3, <2>4
<1>12. {k \in FirstOfFrame : board_observations[k] \in InFrames} = FirstOfFrame \ {n}
  BY <1>5, <1>7, <1>9, <1>10
<1>13. {k \in FirstOfFrame : board_observations[k] \in InFrames'} = FirstOfFrame
  BY <1>5, <1>7, <1>9, <1>10
<1>14. ASSUME NEW d \in Camera
       PROVE  cam_frames'[d] = FramesFirstSeenBy(d)'
  <2>1. cam_frames[d] = {board_observations[i].frame :
                            i \in {k \in FirstOfFrame \ {n} : board_observations[k].cam = d}}
    BY <1>12 DEF FirstInv, FramesFirstSeenBy
  <2>2. FramesFirstSeenBy(d)' = {board_observations[i].frame :
                                    i \in {k \in FirstOfFrame : board_observations[k].cam = d}}
    BY <1>10, <1>13 DEF FramesFirstSeenBy
  <2>3. CASE found[t]
    <3>1. n \notin FirstOfFrame
      BY <1>1, <1>11, <2>3
    <3>2. FirstOfFrame \ {n} = FirstOfFrame
      BY <3>1
    <3>3. cam_frames' = cam_frames
      BY <2>3 DEF InsertInFrame
    <3> QED
      BY <2>1, <2>2, <3>2, <3>3
  <2>4. CASE ~found[t]
    <3>1. cam_frames'[d] = IF d = c THEN cam_frames[d] \cup {f} ELSE cam_frames[d]
      BY <1>1, <2>4 DEF InsertInFrame
    <3>2. n \in FirstOfFrame
      BY <1>1, <1>11, <2>4
    <3> QED
      BY <1>2, <1>7, <2>1, <2>2, <3>1, <3>2
  <2> QED
    BY <1>1, <2>3, <2>4
<1>15. ASSUME NEW a \in Board
       PROVE  board_frames'[a] = FramesFirstSeenWith(a)'
  <2>1. board_frames[a] = {board_observations[i].frame :
                              i \in {k \in FirstOfFrame \ {n} : board_observations[k].board = a}}
    BY <1>12 DEF FirstInv, FramesFirstSeenWith
  <2>2. FramesFirstSeenWith(a)' = {board_observations[i].frame :
                                      i \in {k \in FirstOfFrame : board_observations[k].board = a}}
    BY <1>10, <1>13 DEF FramesFirstSeenWith
  <2>3. CASE found[t]
    <3>1. n \notin FirstOfFrame
      BY <1>1, <1>11, <2>3
    <3>2. FirstOfFrame \ {n} = FirstOfFrame
      BY <3>1
    <3>3. board_frames' = board_frames
      BY <2>3 DEF InsertInFrame
    <3> QED
      BY <2>1, <2>2, <3>2, <3>3
  <2>4. CASE ~found[t]
    <3>1. board_frames'[a] = IF a = b THEN board_frames[a] \cup {f} ELSE board_frames[a]
      BY <1>1, <2>4 DEF InsertInFrame
    <3>2. n \in FirstOfFrame
      BY <1>1, <1>11, <2>4
    <3> QED
      BY <1>2, <1>7, <2>1, <2>2, <3>1, <3>2
  <2> QED
    BY <1>1, <2>3, <2>4
<1>16. \A u \in Thread : pc'[u] \notin {"find_frame", "frame"}
  <2>1. \A u \in Thread : u # t => pc[u] \notin Inserting
    <3>1. LockInv /\ pc[t] \in Inserting
      BY <1>1 DEF Inv1, Inserting
    <3> QED
      BY <3>1, MutualExclusion
  <2> QED
    BY <1>1, <2>1 DEF Inv1, TypeOK, Inserting
<1> QED
  BY <1>14, <1>15, <1>16 DEF FirstInv

\* The other steps of a thread write neither the observations nor these maps.
LEMMA OtherStepsFirst ==
    ASSUME Inv2, FirstInv, NEW t \in Thread, Work(t), ~Record(t), ~InsertInFrame(t)
    PROVE  FirstInv'
<1> USE DEF Inv2
<1>1. /\ UNCHANGED <<board_observations, cam_frames, board_frames>>
      /\ \A u \in Thread \ {t} :
            pc'[u] = pc[u] /\ task'[u] = task[u] /\ board'[u] = board[u]
  BY DEF Work, TakeTask, SkipBoard, EndTask, Acquire, ReadSize, FindFrame,
         FindCamObs, InsertInCamObs, Inv1, TypeOK, viewVars
<1>2. /\ pc'[t] \in {"find_frame", "frame"} <=> pc[t] \in {"find_frame", "frame"}
      /\ pc[t] \in {"find_frame", "frame"} => task'[t] = task[t] /\ board'[t] = board[t]
  BY DEF Work, TakeTask, SkipBoard, EndTask, Acquire, ReadSize, FindFrame,
         FindCamObs, InsertInCamObs, Inv1, TypeOK
<1>3. \A u \in Thread : /\ pc'[u] \in {"find_frame", "frame"} <=> pc[u] \in {"find_frame", "frame"}
                        /\ pc[u] \in {"find_frame", "frame"} => Current(u)' = Current(u)
  BY <1>1, <1>2 DEF Current
<1>4. FrameBehind' = FrameBehind
  <2>1. {u \in Thread : pc[u] \in {"find_frame", "frame"}}' =
        {u \in Thread : pc[u] \in {"find_frame", "frame"}}
    BY <1>3
  <2> QED
    BY <1>3, <2>1 DEF FrameBehind
<1>5. InFrames' = InFrames /\ FirstOfFrame' = FirstOfFrame
  BY <1>1, <1>4 DEF InFrames, Recorded, FirstOfFrame
<1> QED
  BY <1>1, <1>3, <1>5 DEF FirstInv, FramesFirstSeenBy, FramesFirstSeenWith

\* Every step keeps these maps as far as its thread has come.
LEMMA NextFirst == Inv2 /\ ViewInv /\ FirstInv /\ [Next]_vars => FirstInv'
<1> SUFFICES ASSUME Inv2, ViewInv, FirstInv, [Next]_vars PROVE FirstInv'
  OBVIOUS
<1>1. Inv1'
  BY NextInv1 DEF Inv2
<1>2. CASE Main \/ UNCHANGED vars
  <2>1. UNCHANGED <<board_observations, cam_frames, board_frames, pc, task, board>>
    BY <1>2 DEF Main, OpenFolder, PostTask, StartJoin, Join, vars, threadVars, viewVars
  <2>2. InFrames' = InFrames /\ FirstOfFrame' = FirstOfFrame
    BY <2>1 DEF InFrames, Recorded, FrameBehind, Current, FirstOfFrame
  <2>3. \A u \in Thread : Current(u)' = Current(u)
    BY <2>1 DEF Current
  <2> QED
    BY <2>1, <2>2, <2>3 DEF FirstInv, FramesFirstSeenBy, FramesFirstSeenWith
<1>3. ASSUME NEW t \in Thread, Work(t) PROVE FirstInv'
  BY <1>1, <1>3, RecordFirst, FrameFirst, OtherStepsFirst
<1> QED
  BY <1>2, <1>3 DEF Next, Finished

\* insertNewBoard gives each Frame to the camera and to the board that saw it
\* first, and to no other, in every interleaving: a camera does not have all
\* "Frames containing boards for this cameras".
THEOREM FramesGoToFirst == Spec => []FramesOfFirst
<1>1. Init => Inv2 /\ ViewInv /\ FirstInv
  <2> SUFFICES ASSUME Init PROVE FirstInv
    BY InitInv1, InitLookup, InitExact, InitView DEF Inv2
  <2>1. FirstOfFrame = {}
    BY DEF Init, FirstOfFrame
  <2> QED
    BY <2>1 DEF Init, FirstInv, FramesFirstSeenBy, FramesFirstSeenWith
<1>2. Inv2 /\ ViewInv /\ FirstInv /\ [Next]_vars => (Inv2 /\ ViewInv /\ FirstInv)'
  BY NextInv2, NextView, NextFirst
<1>3. Inv2 /\ FirstInv => FramesOfFirst
  <2> SUFFICES ASSUME Inv2, FirstInv, lock = NoThread PROVE FramesOfFirst!2
    BY DEF FramesOfFirst
  <2>1. InFrames = Recorded
    BY Behind DEF Inv2, InFrames
  <2>2. \A k \in FirstOfFrame : board_observations[k] \in InFrames
    BY <2>1 DEF FirstOfFrame, Recorded
  <2> QED
    BY <2>2 DEF FirstInv, FramesFirstSeenBy, FramesFirstSeenWith
<1> QED
  BY <1>1, <1>2, <1>3, PTL DEF Spec

-----------------------------------------------------------------------------
(* Between the cameras.                                                    *)

\* What was recorded for a camera is final once the pool was joined for it.
THEOREM JoinedStaysFinal == Spec => JoinedIsFinal
<1> DEFINE Final == \A c \in Camera : c < cam => cam_boards'[c] = cam_boards[c]
<1>1. ASSUME Inv1, [Next]_vars PROVE Final
  <2>1. CASE \E t \in Thread : Record(t)
    <3>1. PICK t \in Thread : Record(t)
      BY <2>1
    <3>2. task[t].cam = cam
      BY <1>1, <3>1 DEF Record, Inv1, TaskInv
    <3>3. cam_boards \in [Camera -> SUBSET Obs] /\ cam \in Int
      BY <1>1 DEF Inv1, TypeOK
    <3>4. cam_boards' = [cam_boards EXCEPT ![cam] = @ \cup {Current(t)}]
      BY <3>1, <3>2 DEF Record
    <3> QED
      BY <3>3, <3>4 DEF Camera
  <2>2. ASSUME \A t \in Thread : ~Record(t)
        PROVE  cam_boards' = cam_boards
    <3>1. CASE Main \/ Finished \/ UNCHANGED vars
      BY <3>1 DEF Main, OpenFolder, PostTask, StartJoin, Join, Finished, vars, viewVars
    <3>2. ASSUME NEW t \in Thread, Work(t)
          PROVE  cam_boards' = cam_boards
      BY <2>2, <3>2 DEF Work, TakeTask, SkipBoard, EndTask, Acquire, ReadSize,
         FindFrame, InsertInFrame, FindCamObs, InsertInCamObs, viewVars
    <3> QED
      BY <1>1, <3>1, <3>2 DEF Next
  <2> QED
    BY <2>1, <2>2
<1>2. Inv1 /\ [Next]_vars => [Final]_vars
  BY <1>1
<1> QED
  BY <1>2, Invariant1, PTL DEF Spec, JoinedIsFinal
=============================================================================
