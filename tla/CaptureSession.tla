--------------------------- MODULE CaptureSession ---------------------------
(***************************************************************************)
(* Captures on disk: sessions of capture_realsense.py that write them, and *)
(* runs of calibrate_from_captures.py that read whatever is there, at any  *)
(* time and on any machine (src/claude).  In between the user deletes and  *)
(* renames folders, cameras come and go, and either program may be killed. *)
(*                                                                         *)
(* A folder is numbered in its name with at least Width digits of base     *)
(* Base, 3 and 10 in the code, and the names are sorted as strings.  An    *)
(* image is the capture it was taken in and whether the board was detected *)
(* in it; the images are lossless, so it is detected in the file as well.  *)
(***************************************************************************)
EXTENDS FiniteSetsExt, SequencesExt

CONSTANTS
    Cams,       \* the serials, as numbers in their order
    Base, Width,
    Earlier,    \* how many scenes earlier sessions may have left
    MaxShots,   \* bound: captures
    MaxFaults,  \* bound: files that cannot be written, and kills
    MaxTidies   \* bound: folders deleted or renamed by the user

ASSUME CaptureAssumption ==
    /\ Cams \subseteq Nat /\ IsFiniteSet(Cams) /\ Cams # {}
    /\ Base \in Nat \ {0, 1} /\ Width \in Nat \ {0} /\ Base ^ Width \in Nat \ 0 .. 2
    /\ Earlier \subseteq 0 .. Base ^ Width
    /\ MaxShots <= (Base - 1) * Base ^ Width   \* numbers of Width + 1 digits
    /\ {MaxShots, MaxFaults, MaxTidies} \subseteq Nat

VARIABLES
    intrinsics,  \* intrinsics/: serial -> whether its json is "whole" or "torn"
    folder,      \* <<prefix, number>> -> files: <<serial, kind>> -> image
    extrinsics,  \* extrinsics.json: "none", "torn" or "whole", of which cameras
    clouds,      \* point clouds written by the last step (no one reads them):
                 \* folder -> serial -> <<color, depth>>
    session,     \* the capture program: its cameras, and the files to save
    offline,     \* the calibration program: its mode and where it is
    shots, faults, tidies,
    mixed        \* history: folders saved into again, with Unsorted names

disk   == <<intrinsics, folder, extrinsics>>
counts == <<shots, faults, tidies>>
vars   == <<disk, clouds, session, offline, counts, mixed>>

-----------------------------------------------------------------------------
Prefix == {"pose", "scene"}

\* The first number that does not fit into Width digits, and a folder whose
\* name does not end in a number at all.
Limit == Base ^ Width
Text == Limit + MaxShots
Numbers == 0 .. Text - 1
Names == Prefix \X (Numbers \cup {Text})

Torn == [shot |-> 0, board |-> FALSE]
Old == [shot |-> MaxShots + 1, board |-> FALSE]
Images == [shot : 0 .. MaxShots + 1, board : BOOLEAN]
Files == Cams \X {"color", "depth"}

\* A sample of the calibration: the folder and the images it was taken from.
NoSession == [cams |-> <<>>, at |-> "off", name |-> <<"pose", 0>>, todo |-> <<>>,
              view |-> << >>]
NoRun == [mode |-> "none", at |-> "none", serials |-> {}, samples |-> {}]
NoFile == [is |-> "none", of |-> {}]
TornFile == [is |-> "torn", of |-> {}]

\* What some of the cameras see.
Views(S) == UNION {[C -> S] : C \in SUBSET Cams}

TypeOK ==
    /\ DOMAIN intrinsics \subseteq Cams
    /\ \A c \in DOMAIN intrinsics : intrinsics[c] \in {"whole", "torn"}
    /\ DOMAIN folder \subseteq Names
    /\ \A n \in DOMAIN folder :
          DOMAIN folder[n] \subseteq Files /\ Range(folder[n]) \subseteq Images
    /\ DOMAIN clouds \subseteq Names
    /\ extrinsics \in [is : {"none", "torn", "whole"}, of : SUBSET Cams]
    /\ session \in [cams : Seq(Cams), at : {"off", "intrinsics", "loop", "saving"},
                    name : Names, todo : Seq(Files), view : Views(BOOLEAN)]
    /\ offline \in [mode : {"none", "calibrate", "pointcloud", "full"},
                    at : {"none", "dump", "cloud"}, serials : SUBSET Cams,
                    samples : SUBSET [of : Names, image : Views(Images)]]
    /\ shots \in 0 .. MaxShots /\ faults \in 0 .. MaxFaults /\ tidies \in 0 .. MaxTidies
    /\ mixed \subseteq Names

Init ==
    /\ \E n \in Earlier : folder = [name \in {"scene"} \X (0 .. n - 1) |-> [f \in Files |-> Old]]
    /\ intrinsics = << >> /\ clouds = << >>
    /\ extrinsics = NoFile
    /\ session = NoSession /\ offline = NoRun
    /\ shots = 0 /\ faults = 0 /\ tidies = 0
    /\ mixed = {}

-----------------------------------------------------------------------------
\* f with value y at x, whether it had one or not.
With(f, x, y) == [z \in DOMAIN f \cup {x} |-> IF z = x THEN y ELSE f[z]]

(***************************************************************************)
(* capture_realsense.py                                                    *)
(***************************************************************************)

\* Names in the order of strings: a number of Width digits is compared with
\* the first Width digits of a longer one, and text follows all numbers.
Key(n) == IF n < Limit THEN n * Base ELSE IF n = Text THEN Base * Limit ELSE n
SortsBefore(m, n) == Key(m) < Key(n) \/ (Key(m) = Key(n) /\ m < n)

Existing(prefix) == {n \in Numbers \cup {Text} : <<prefix, n>> \in DOMAIN folder}

\* Names that are not sorted as their numbers.
Unsorted(prefix) == \E n \in Existing(prefix) : n >= Limit

\* Mutant: the number of folders is the next number.
NextIndexCount(prefix) == Cardinality(Existing(prefix))

\* next_index: one more than the last name.
NextIndex(prefix) ==
    LET names == Existing(prefix)
        last == CHOOSE n \in names : \A m \in names : m = n \/ SortsBefore(m, n)
    IN  IF names = {} THEN 0 ELSE IF last = Text THEN Cardinality(names) ELSE last + 1

\* main begins: cameras are named, or found in some order, and their intrinsics are written.
StartSession ==
    /\ session = NoSession
    /\ shots < MaxShots
    /\ \E cams \in UNION {SetToSeqs(C) : C \in (SUBSET Cams) \ {{}}} :
         session' = [NoSession EXCEPT !.cams = cams, !.at = "intrinsics"]
    /\ UNCHANGED <<disk, offline, counts, mixed>>

\* The files after those of cameras cams were written.
Written(cams) ==
    [c \in DOMAIN intrinsics \cup Range(cams) |->
        IF c \in Range(cams) THEN "whole" ELSE intrinsics[c]]

WriteIntrinsics ==
    /\ session.at = "intrinsics"
    /\ intrinsics' = Written(session.cams)
    /\ session' = [session EXCEPT !.at = "loop"]
    /\ UNCHANGED <<folder, extrinsics, offline, counts, mixed>>

\* Mutant: no camera needs to see the board.
MaySaveAny(prefix, view) == TRUE

\* A calibration pose needs the board in all cameras of the session.
MaySave(prefix, view) == prefix = "pose" => \A c \in DOMAIN view : view[c]

\* The files of one capture, in the order in which they are written.
FilesOf(cams) ==
    [i \in 1 .. 2 * Len(cams) |->
        <<cams[(i + 1) \div 2], IF i % 2 = 1 THEN "color" ELSE "depth">>]

\* 'c' or 's': the folder is made, or taken if it exists.
Save(prefix) ==
    /\ session.at = "loop"
    /\ shots < MaxShots /\ shots' = shots + 1
    /\ \E view \in [Range(session.cams) -> BOOLEAN] :
         /\ MaySave(prefix, view)
         /\ session' = [session EXCEPT !.at = "saving", !.view = view,
                           !.name = <<prefix, NextIndex(prefix)>>,
                           !.todo = FilesOf(session.cams)]
    /\ LET name == session'.name IN
         /\ folder' = IF name \in DOMAIN folder THEN folder ELSE With(folder, name, << >>)
         /\ mixed' = mixed \cup IF Unsorted(prefix) THEN {name} \cap DOMAIN folder ELSE {}
    /\ UNCHANGED <<intrinsics, extrinsics, offline, faults, tidies>>

Put(image) ==
    [folder EXCEPT ![session.name] = With(@, Head(session.todo), image)]

Saved ==
    session' = IF Len(session.todo) = 1
               THEN [NoSession EXCEPT !.cams = session.cams, !.at = "loop"]
               ELSE [session EXCEPT !.todo = Tail(@)]

\* imwrite.
Write ==
    /\ session.at = "saving"
    /\ folder' = Put([shot |-> shots, board |-> session.view[Head(session.todo)[1]]])
    /\ Saved
    /\ UNCHANGED <<intrinsics, extrinsics, offline, counts, mixed>>

\* imwrite fails: there is no file, or a damaged one, and no one is told.
WriteFails ==
    /\ session.at = "saving"
    /\ faults < MaxFaults /\ faults' = faults + 1
    /\ folder' \in {folder, Put(Torn)}
    /\ Saved
    /\ UNCHANGED <<intrinsics, extrinsics, offline, shots, tidies, mixed>>

\* 'q'
Quit ==
    /\ session.at = "loop"
    /\ session' = NoSession
    /\ UNCHANGED <<disk, offline, counts, mixed>>

\* The program is killed, perhaps in the middle of a file.
Kill ==
    /\ session.at \in {"intrinsics", "saving"}
    /\ faults < MaxFaults /\ faults' = faults + 1
    /\ \/ UNCHANGED <<folder, intrinsics>>
       \/ session.at = "saving" /\ folder' = Put(Torn) /\ UNCHANGED intrinsics
       \/ session.at = "intrinsics"
          /\ \E i \in DOMAIN session.cams :
               intrinsics' = With(Written(SubSeq(session.cams, 1, i - 1)),
                                  session.cams[i], "torn")
          /\ UNCHANGED folder
    /\ session' = NoSession
    /\ UNCHANGED <<extrinsics, offline, shots, tidies, mixed>>

-----------------------------------------------------------------------------
(***************************************************************************)
(* The user tidies up between sessions.                                    *)
(***************************************************************************)
Delete ==
    /\ session = NoSession /\ offline = NoRun /\ tidies < MaxTidies
    /\ \E n \in DOMAIN folder :
         /\ folder' = [m \in DOMAIN folder \ {n} |-> folder[m]]
         /\ mixed' = mixed \ {n}
    /\ tidies' = tidies + 1
    /\ UNCHANGED <<intrinsics, extrinsics, session, offline, shots, faults>>

\* A folder is given a name that says what it is.
Rename ==
    /\ session = NoSession /\ offline = NoRun /\ tidies < MaxTidies
    /\ \E n \in DOMAIN folder :
         LET new == <<n[1], Text>>
             moved == DOMAIN folder \ {n}
         IN  /\ new \notin DOMAIN folder
             /\ folder' = With([m \in moved |-> folder[m]], new, folder[n])
             /\ mixed' = (mixed \ {n}) \cup (IF n \in mixed THEN {new} ELSE {})
    /\ tidies' = tidies + 1
    /\ UNCHANGED <<intrinsics, extrinsics, session, offline, shots, faults>>

-----------------------------------------------------------------------------
(***************************************************************************)
(* calibrate_from_captures.py                                              *)
(***************************************************************************)
Serials == DOMAIN intrinsics

Folders(prefix) == {n \in DOMAIN folder : n[1] = prefix}

Has(n, f) == f \in DOMAIN folder[n]
IsTorn(n, f) == Has(n, f) /\ folder[n][f] = Torn

\* The loop over the cameras ends at the first that is missing or does not see
\* the board; an image that cannot be read ends the program.
Sees(n, c) == Has(n, <<c, "color">>) /\ folder[n][<<c, "color">>].board
ReadsTorn(n) ==
    \E c \in Serials : /\ IsTorn(n, <<c, "color">>)
                       /\ \A d \in Serials : d < c => Sees(n, d)

\* Mutant: poses is not emptied between two folders.
SamplesKept ==
    LET Seen(n, c) ==
            {m \in Folders("pose") : (m = n \/ SortsBefore(m[2], n[2])) /\ Sees(m, c)}
        Newest(n, c) ==
            CHOOSE m \in Seen(n, c) : \A l \in Seen(n, c) : l = m \/ SortsBefore(l[2], m[2])
    IN  {[of |-> n, image |-> [c \in Serials |-> folder[Newest(n, c)][<<c, "color">>]]] :
            n \in {m \in Folders("pose") : \A c \in Serials : Seen(m, c) # {}}}

\* What run_calibrate averages: the folders in which all cameras see the board.
Samples ==
    {[of |-> n, image |-> [c \in Serials |-> folder[n][<<c, "color">>]]] :
        n \in {m \in Folders("pose") : \A c \in Serials : Sees(m, c)}}

\* The cameras a set of samples gives a transformation for.
Placed(samples) == UNION {DOMAIN s.image : s \in samples}

IntrinsicsLoad == Serials # {} /\ \A c \in Serials : intrinsics[c] = "whole"

\* --mode calibrate or full: any error of run_calibrate ends the program
\* before it has written anything; the file is truncated when it is opened.
Calibrate ==
    /\ offline = NoRun
    /\ IntrinsicsLoad
    /\ ~\E n \in Folders("pose") : ReadsTorn(n)
    /\ Samples # {}
    /\ \E mode \in {"calibrate", "full"} :
         offline' = [mode |-> mode, at |-> "dump", serials |-> Serials, samples |-> Samples]
    /\ extrinsics' = TornFile
    /\ UNCHANGED <<intrinsics, folder, session, counts, mixed>>

DumpExtrinsics ==
    /\ offline.at = "dump"
    /\ extrinsics' = [is |-> "whole", of |-> Placed(offline.samples)]
    /\ offline' = IF offline.mode = "full" THEN [offline EXCEPT !.at = "cloud", !.samples = {}]
                  ELSE NoRun
    /\ UNCHANGED <<intrinsics, folder, session, counts, mixed>>

\* --mode pointcloud
LoadExtrinsics ==
    /\ offline = NoRun
    /\ IntrinsicsLoad
    /\ extrinsics.is = "whole"
    /\ offline' = [NoRun EXCEPT !.mode = "pointcloud", !.at = "cloud", !.serials = Serials]
    /\ UNCHANGED <<disk, session, counts, mixed>>

\* The cameras a point cloud is merged from.
Usable(n) ==
    {c \in offline.serials \cap extrinsics.of :
        Has(n, <<c, "color">>) /\ Has(n, <<c, "depth">>)}

\* run_pointcloud: a cloud per scene, or per pose when there is no scene; an
\* image that cannot be read ends the program at that folder.
PointClouds ==
    LET all == IF Folders("scene") # {} THEN Folders("scene") ELSE Folders("pose")
        Bad(n) == \E c \in Usable(n) : IsTorn(n, <<c, "color">>) \/ IsTorn(n, <<c, "depth">>)
        Reached(n) == ~\E m \in all : Bad(m) /\ (m = n \/ SortsBefore(m[2], n[2]))
        Cloud(n) == [c \in Usable(n) |-> <<folder[n][<<c, "color">>], folder[n][<<c, "depth">>]>>]
    IN  /\ offline.at = "cloud"
        /\ clouds' = [n \in {m \in all : Reached(m) /\ Usable(m) # {}} |-> Cloud(n)]
        /\ offline' = NoRun
        /\ UNCHANGED <<intrinsics, folder, extrinsics, session, counts, mixed>>

KillOffline ==
    /\ offline.at \in {"dump", "cloud"}
    /\ faults < MaxFaults /\ faults' = faults + 1
    /\ offline' = NoRun
    /\ UNCHANGED <<disk, session, shots, tidies, mixed>>

-----------------------------------------------------------------------------
Silent ==
    /\ \/ StartSession \/ WriteIntrinsics \/ Write \/ WriteFails \/ Quit \/ Kill
       \/ \E p \in Prefix : Save(p)
       \/ Delete \/ Rename
       \/ Calibrate \/ DumpExtrinsics \/ LoadExtrinsics
       \/ KillOffline
    /\ clouds' = << >>

Next == Silent \/ PointClouds

Spec == Init /\ [][Next]_vars
-----------------------------------------------------------------------------
\* Every sample the calibration averages is one capture in which all cameras
\* saw the board, whatever was killed, failed or moved before.
SamplesWhole ==
    [][offline = NoRun /\ offline'.at = "dump" =>
          \A s \in offline'.samples : s.of \notin mixed =>
              \E k \in 1 .. shots : \A c \in Serials : s.image[c] = [shot |-> k, board |-> TRUE]
      ]_offline

\* A pose that was saved with an image of each camera is used: what the
\* capture program accepted the calibration does not skip.
NoPoseWasted ==
    [][offline = NoRun /\ offline'.at = "dump" =>
          \A n \in Folders("pose") :
              (\A c \in Serials : Has(n, <<c, "color">>))
                  => \E s \in offline'.samples : s.of = n]_offline

\* The samples are the captures that serve as such.
SamplesExact == SamplesWhole /\ NoPoseWasted

\* As long as no one tidies up, captures share the folder numbered Limit and
\* no other: pose_1000 sorts before pose_999, so that once it is there
\* next_index returns 1000 again for every capture that follows.
SharedAtLimit ==
    tidies = 0 =>
        /\ mixed \subseteq Prefix \X {Limit}
        /\ \A p \in Prefix : <<p, Limit>> \in DOMAIN folder => NextIndex(p) = Limit

\* In a point cloud the color and the depth of a camera are of one capture,
\* except in a folder that captures share: next_index gave each a folder of
\* its own as long as the folders sorted in the order of their numbers.
CloudsPair ==
    /\ TypeOK
    /\ SharedAtLimit
    /\ \A n \in DOMAIN clouds \ mixed :
          \A c \in DOMAIN clouds[n] : clouds[n][c][1].shot = clouds[n][c][2].shot
=============================================================================
