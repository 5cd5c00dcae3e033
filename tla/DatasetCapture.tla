---------------------------- MODULE DatasetCapture ----------------------------
(***************************************************************************)
(* The dataset capture for MC-Calib (capture_calibration.py): a loop that  *)
(* grabs one image from each of two cameras and, when the space bar is     *)
(* pressed, writes them under one number to the folders Cam_001 and        *)
(* Cam_002.  The script may be killed anywhere and is started again later; *)
(* it numbers from 1 again, over the files of earlier sessions.            *)
(*                                                                         *)
(* What MC-Calib makes of the folders (detectBoards, McCalib.cpp) is       *)
(* Pairs: the images of a folder in the order of their names, those at one *)
(* position taken for one moment.                                          *)
(***************************************************************************)
EXTENDS Integers, FiniteSets

CONSTANTS
    Device,      \* serial numbers of the cameras connected, at least two
    MaxShot,     \* bound: shots in all sessions; below 1000, three digits
    MaxSession   \* bound: how often the script is started

ASSUME DeviceAssumption  == "none" \notin Device /\ Cardinality(Device) >= 2
ASSUME BoundAssumption   == MaxShot \in 0 .. 999 /\ MaxSession \in Nat

VARIABLES
    cam_dir,    \* cam_dir[i][n]: the shot in file n of folder i, see Empty
    torn,       \* <<i, n>> of the files cut off by a crash or a failed write
    devices,    \* devices[:2], in the order the SDK lists them
    sessions,   \* how many sessions were started
    shots,      \* how many shots were taken
    first_shot, \* number of shots before this session
    img_count,
    pc,         \* "off", "loop", "write1", "write2", "print"
    crashes,    \* how many sessions were killed
    failed      \* imwrite has once returned False

vars == <<cam_dir, torn, devices, sessions, shots, first_shot, img_count, pc,
          crashes, failed>>

-----------------------------------------------------------------------------
Folder == 1 .. 2
Number == 1 .. MaxShot

\* No file of that name.
Empty == [shot |-> 0, device |-> "none"]

Init ==
    /\ cam_dir = [i \in Folder |-> [n \in Number |-> Empty]]
    /\ torn = {}
    /\ devices \in {d \in [Folder -> Device] : d[1] # d[2]}
    /\ sessions = 0 /\ shots = 0 /\ first_shot = 0 /\ img_count = 1
    /\ pc = "off" /\ crashes = 0 /\ failed = FALSE

\* Mutant: the numbers of the last session are continued.
StartAfter ==
    /\ pc = "off" /\ sessions < MaxSession
    /\ devices' \in {d \in [Folder -> Device] : d[1] # d[2]}
    /\ sessions' = sessions + 1
    /\ first_shot' = shots
    /\ img_count' = IF sessions = 0 THEN 1 ELSE img_count + 1
    /\ pc' = "loop"
    /\ UNCHANGED <<cam_dir, torn, shots, crashes, failed>>

\* The script is started: two of the cameras, in whatever order.
Start ==
    /\ pc = "off" /\ sessions < MaxSession
    /\ devices' \in {d \in [Folder -> Device] : d[1] # d[2]}
    /\ sessions' = sessions + 1
    /\ first_shot' = shots
    /\ img_count' = 1
    /\ pc' = "loop"
    /\ UNCHANGED <<cam_dir, torn, shots, crashes, failed>>

\* Space: the images just grabbed are to be saved.
Space ==
    /\ pc = "loop" /\ shots < MaxShot
    /\ shots' = shots + 1
    /\ pc' = "write1"
    /\ UNCHANGED <<cam_dir, torn, devices, sessions, first_shot, img_count,
                   crashes, failed>>

\* Mutant: the second camera's image is left from the shot before.
ImageStale(i) ==
    [shot |-> IF i = 1 \/ shots = 1 THEN shots ELSE shots - 1,
     device |-> devices[i]]

\* The image of the last shot for folder i.
Image(i) == [shot |-> shots, device |-> devices[i]]

Written(i) == cam_dir' = [cam_dir EXCEPT ![i][img_count] = Image(i)]

\* Only a part of the file reached the disk.
CutOff(i) == Written(i) /\ torn' = torn \cup {<<i, img_count>>}

\* imwrite of file img_count of folder i; when it fails, to open the file or
\* later, it returns False, which the script does not look at.
Write(i) ==
    \/ /\ Written(i)
       /\ torn' = torn \ {<<i, img_count>>}
       /\ UNCHANGED failed
    \/ failed' = TRUE /\ UNCHANGED <<cam_dir, torn>>
    \/ failed' = TRUE /\ CutOff(i)

WriteFirst ==
    /\ pc = "write1" /\ Write(1) /\ pc' = "write2"
    /\ UNCHANGED <<devices, sessions, shots, first_shot, img_count, crashes>>

\* Mutant: the images are counted one by one.
WriteSecondCounts ==
    /\ pc = "write2" /\ Write(2) /\ pc' = "print"
    /\ img_count' = img_count + 1
    /\ UNCHANGED <<devices, sessions, shots, first_shot, crashes>>

WriteSecond ==
    /\ pc = "write2" /\ Write(2) /\ pc' = "print"
    /\ UNCHANGED <<devices, sessions, shots, first_shot, img_count, crashes>>

\* "Captured: ... in both folders."
Announce ==
    /\ pc = "print"
    /\ img_count' = img_count + 1
    /\ pc' = "loop"
    /\ UNCHANGED <<cam_dir, torn, devices, sessions, shots, first_shot,
                   crashes, failed>>

\* Q, or no frame in time: the exception passes through finally.
Quit ==
    /\ pc = "loop" /\ pc' = "off"
    /\ UNCHANGED <<cam_dir, torn, devices, sessions, shots, first_shot,
                   img_count, crashes, failed>>

\* The file a killed script was writing.
Writing == {i \in Folder : pc = (IF i = 1 THEN "write1" ELSE "write2")}

\* The script is killed; the file it was writing may be cut off.
Crash ==
    /\ pc # "off"
    /\ pc' = "off"
    /\ crashes' = crashes + 1
    /\ \/ UNCHANGED <<cam_dir, torn>>
       \/ \E i \in Writing : CutOff(i)
    /\ UNCHANGED <<devices, sessions, shots, first_shot, img_count, failed>>

Finished == pc = "off" /\ sessions = MaxSession /\ UNCHANGED vars

Next == Start \/ Space \/ WriteFirst \/ WriteSecond \/ Announce \/ Quit
            \/ Crash \/ Finished

Spec == Init /\ [][Next]_vars

-----------------------------------------------------------------------------
(* What MC-Calib reads.                                                    *)

Files(i) == {n \in Number : cam_dir[i][n] # Empty}

\* The number of the f-th file of folder i, frames counted from 0.
NumberOf(i, f) ==
    CHOOSE n \in Files(i) : Cardinality({m \in Files(i) : m < n}) = f

NbFrame == IF Cardinality(Files(1)) < Cardinality(Files(2))
           THEN Cardinality(Files(1)) ELSE Cardinality(Files(2))

\* The frames in which both cameras have an image that can be read, with the
\* file of each camera.
Pairs ==
    {p \in {<<NumberOf(1, f), NumberOf(2, f)>> : f \in 0 .. NbFrame - 1} :
        <<1, p[1]>> \notin torn /\ <<2, p[2]>> \notin torn}

Mismatched == {p \in Pairs : cam_dir[1][p[1]].shot # cam_dir[2][p[2]].shot}

-----------------------------------------------------------------------------
(* Properties.                                                             *)

\* Types; a number in use is a three-digit number from 1.
TypeOK ==
    /\ cam_dir \in [Folder -> [Number -> [shot : 0 .. MaxShot,
                                          device : Device \cup {"none"}]]]
    /\ torn \subseteq Folder \X Number
    /\ devices \in [Folder -> Device] /\ devices[1] # devices[2]
    /\ sessions \in 0 .. MaxSession /\ failed \in BOOLEAN
    /\ shots \in 0 .. MaxShot /\ first_shot \in 0 .. shots
    /\ img_count \in 1 .. MaxShot + 1
    /\ pc \in {"off", "loop", "write1", "write2", "print"}
    /\ crashes \in Nat

\* Everything announced in this session, or in the last one, is there as it
\* was taken: under each number both folders hold the same shot, of this
\* session and of its cameras, in the order of the shots; no later number of
\* the session and no crash has touched it.
SessionWhole ==
    ~failed =>
        \A n \in 1 .. img_count - 1 :
            /\ cam_dir[1][n].shot = cam_dir[2][n].shot
            /\ cam_dir[1][n].shot > first_shot
            /\ \A i \in Folder : /\ cam_dir[i][n].device = devices[i]
                                 /\ <<i, n>> \notin torn
            /\ \A m \in 1 .. n - 1 : cam_dir[1][m].shot < cam_dir[1][n].shot

\* Without a failed write no number is skipped and the second folder is at most
\* one image behind, whatever sessions were killed: the position of an image
\* in the listing MC-Calib makes is its number, in both folders.
FoldersDense ==
    ~failed =>
        /\ \A i \in Folder : \A n \in Files(i) : \A m \in 1 .. n : m \in Files(i)
        /\ Files(2) \subseteq Files(1)
        /\ \A n \in Files(1) \ Files(2) : \A m \in 1 .. n - 1 : m \in Files(2)

\* A session that was killed costs at most one frame: MC-Calib takes images of
\* different moments for one frame at no more positions than there were
\* crashes, and at one more while a shot is being written.
DamageBounded ==
    ~failed =>
        Cardinality(Mismatched) <= crashes + (IF pc = "write2" THEN 1 ELSE 0)

\* "Capture synchronized frames" (capture_calibration.py:44): two images that
\* MC-Calib takes for one frame are of one shot.
Synchronized == pc = "loop" => Mismatched = {}
=============================================================================
