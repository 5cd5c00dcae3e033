---------------------------- MODULE CaptureProofs ----------------------------
(***************************************************************************)
(* Proofs about what captures a dataset: the script that saves the shots   *)
(* (module DatasetCapture) and librealsense's pipeline (module Pipeline),  *)
(* which is what the repository's other programs read their frames from.   *)
(* For any number of cameras, shots and sessions an announced shot is      *)
(* there as it was taken, no number is skipped, and a session that was     *)
(* killed costs at most one frame; for any streams, configurations and     *)
(* device objects the streams of the active profile are on and no others,  *)
(* the framesets are sound, a reconnection asks for the same streams, and  *)
(* the repeat of a file fails only next to a start or a stop.              *)
(***************************************************************************)
EXTENDS DatasetCapture, Pipeline, FiniteSetTheorems, SequenceTheorems,
        WellFoundedInduction, TLAPS

\* A shot is being saved.
Saving == pc \in {"write1", "write2", "print"}

\* The session has taken a shot for each number it has used, so the numbers
\* do not run out and no file holds a shot still to come.
Counted ==
    /\ img_count - 1 <= shots - first_shot
    /\ Saving => img_count <= shots - first_shot
    /\ \A i \in Folder : \A n \in Number : cam_dir[i][n].shot <= shots

TypeInv == TypeOK /\ Counted

\* A write changes one file, into the present image.
LEMMA WrittenFiles ==
    ASSUME TypeOK, NEW i \in Folder, img_count \in Number, Written(i)
    PROVE  /\ cam_dir' \in [Folder -> [Number -> [shot : 0 .. MaxShot,
                                          device : Device \cup {"none"}]]]
           /\ \A j \in Folder : \A n \in Number :
                 cam_dir'[j][n] = IF j = i /\ n = img_count THEN Image(i)
                                  ELSE cam_dir[j][n]
           /\ Image(i) # Empty
<1>1. /\ Image(i) \in [shot : 0 .. MaxShot, device : Device \cup {"none"}]
      /\ Image(i) # Empty
  BY DeviceAssumption DEF TypeOK, Image, Empty
<1>2. \A j \in Folder : \A n \in Number :
         cam_dir'[j][n] = IF j = i /\ n = img_count THEN Image(i)
                          ELSE cam_dir[j][n]
  BY DEF TypeOK, Written
<1>3. cam_dir' \in [Folder -> [Number -> [shot : 0 .. MaxShot,
                                          device : Device \cup {"none"}]]]
  BY <1>1 DEF TypeOK, Written
<1> QED BY <1>1, <1>2, <1>3

\* When a shot is being saved its number has three digits.
LEMMA NumberInUse ==
    ASSUME TypeInv, Saving
    PROVE  img_count \in Number
BY BoundAssumption DEF TypeInv, TypeOK, Counted, Saving, Number

\* Every step keeps the types.
LEMMA TypeInvStep ==
    ASSUME TypeInv, [Next]_vars
    PROVE  TypeInv'
<1> USE BoundAssumption
<1>1. ASSUME NEW i \in Folder, Saving, Written(i), UNCHANGED <<shots, first_shot>>
      PROVE  /\ cam_dir' \in [Folder -> [Number -> [shot : 0 .. MaxShot,
                                          device : Device \cup {"none"}]]]
             /\ \A j \in Folder : \A n \in Number : cam_dir'[j][n].shot <= shots'
             /\ <<i, img_count>> \in Folder \X Number
  <2>1. img_count \in Number
    BY <1>1, NumberInUse
  <2>2. TypeOK
    BY DEF TypeInv
  <2>3. /\ cam_dir' \in [Folder -> [Number -> [shot : 0 .. MaxShot,
                                          device : Device \cup {"none"}]]]
        /\ \A j \in Folder : \A n \in Number :
              cam_dir'[j][n] = IF j = i /\ n = img_count THEN Image(i)
                               ELSE cam_dir[j][n]
    BY <1>1, <2>1, <2>2, WrittenFiles
  <2>4. Image(i).shot = shots /\ shots \in Int
    BY DEF Image, TypeInv, TypeOK
  <2>5. \A j \in Folder : \A n \in Number : cam_dir[j][n].shot <= shots
    BY DEF TypeInv, Counted
  <2>6. \A j \in Folder : \A n \in Number : cam_dir'[j][n].shot <= shots
    BY <2>3, <2>4, <2>5
  <2> QED BY <1>1, <2>1, <2>3, <2>6
<1>2. CASE Start
  BY <1>2 DEF Start, TypeInv, TypeOK, Counted, Saving
<1>3. CASE Space
  BY <1>3 DEF Space, TypeInv, TypeOK, Counted, Saving
<1>4. ASSUME NEW i \in Folder, Saving, Write(i), Saving',
             pc' \in {"off", "loop", "write1", "write2", "print"},
             UNCHANGED <<devices, sessions, shots, first_shot, img_count, crashes>>
      PROVE  TypeInv'
  <2>1. CASE UNCHANGED <<cam_dir, torn>> /\ failed' = TRUE
    BY <1>4, <2>1 DEF TypeInv, TypeOK, Counted, Saving
  <2>2. CASE Written(i) /\ torn' = torn \ {<<i, img_count>>} /\ UNCHANGED failed
    BY <1>1, <1>4, <2>2 DEF TypeInv, TypeOK, Counted, Saving
  <2>3. CASE failed' = TRUE /\ CutOff(i)
    BY <1>1, <1>4, <2>3 DEF TypeInv, TypeOK, Counted, Saving, CutOff
  <2> QED BY <1>4, <2>1, <2>2, <2>3 DEF Write
<1>5. CASE WriteFirst
  BY <1>4, <1>5 DEF WriteFirst, Saving, Folder
<1>6. CASE WriteSecond
  BY <1>4, <1>6 DEF WriteSecond, Saving, Folder
<1>7. CASE Announce
  BY <1>7 DEF Announce, TypeInv, TypeOK, Counted, Saving
<1>8. CASE Quit
  BY <1>8 DEF Quit, TypeInv, TypeOK, Counted, Saving
<1>9. CASE Crash
  <2>1. CASE UNCHANGED <<cam_dir, torn>>
    BY <1>9, <2>1 DEF Crash, TypeInv, TypeOK, Counted, Saving
  <2>2. ASSUME NEW i \in Writing, CutOff(i)
        PROVE  TypeInv'
    <3>1. i \in Folder /\ Saving
      BY DEF Writing, Saving, Folder
    <3>2. /\ UNCHANGED <<devices, sessions, shots, first_shot, img_count, failed>>
          /\ pc' = "off" /\ crashes' = crashes + 1
          /\ Written(i) /\ torn' = torn \cup {<<i, img_count>>}
      BY <1>9, <2>2 DEF Crash, CutOff
    <3>3. /\ cam_dir' \in [Folder -> [Number -> [shot : 0 .. MaxShot,
                                          device : Device \cup {"none"}]]]
          /\ \A j \in Folder : \A n \in Number : cam_dir'[j][n].shot <= shots'
          /\ <<i, img_count>> \in Folder \X Number
      BY <1>1, <3>1, <3>2
    <3>4. TypeOK'
      BY <3>2, <3>3 DEF TypeInv, TypeOK
    <3>5. Counted'
      BY <3>2, <3>3 DEF TypeInv, Counted, Saving
    <3> QED BY <3>4, <3>5 DEF TypeInv
  <2> QED BY <1>9, <2>1, <2>2 DEF Crash
<1>10. CASE UNCHANGED vars
  BY <1>10 DEF vars, TypeInv, TypeOK, Counted, Saving
<1> QED BY <1>2, <1>3, <1>5, <1>6, <1>7, <1>8, <1>9, <1>10 DEF Next, Finished

\* The types hold before the first session.
LEMMA TypeInvInit ==
    ASSUME Init
    PROVE  TypeInv
<1>1. cam_dir \in [Folder -> [Number -> [shot : 0 .. MaxShot,
                                         device : Device \cup {"none"}]]]
  BY BoundAssumption DEF Init, Empty
<1>2. \A i \in Folder : \A n \in Number : cam_dir[i][n].shot = 0
  BY DEF Init, Empty
<1>3. Counted
  BY <1>2 DEF Init, Counted, Saving
<1>4. devices \in [Folder -> Device] /\ devices[1] # devices[2]
  BY DEF Init
<1>5. torn \subseteq Folder \X Number
  BY DEF Init
<1>6. failed \in BOOLEAN
  BY DEF Init
<1>7. /\ sessions \in 0 .. MaxSession /\ shots \in 0 .. MaxShot /\ first_shot \in 0 .. shots
      /\ img_count \in 1 .. MaxShot + 1
      /\ pc \in {"off", "loop", "write1", "write2", "print"}
      /\ crashes \in Nat
  BY BoundAssumption DEF Init
<1>8. TypeOK
  BY <1>1, <1>4, <1>5, <1>6, <1>7 DEF TypeOK
<1> QED BY <1>3, <1>8 DEF TypeInv

\* The script's variables keep their types, and every number it uses has at
\* most three digits: img_count never runs past the shots taken.
THEOREM TypeCorrect == Spec => []TypeOK
<1>1. Spec => []TypeInv
  BY TypeInvInit, TypeInvStep, PTL DEF Spec
<1> QED BY <1>1, PTL DEF TypeInv

-----------------------------------------------------------------------------
(* What a session has announced.                                           *)

\* The shot being saved is in folder i as it was taken.
InPlace(i) ==
    cam_dir[i][img_count] = Image(i) /\ <<i, img_count>> \notin torn

\* SessionWhole needs to know how far the shot being saved is, and that it is
\* later than those announced.
Announced ==
    ~failed =>
        /\ SessionWhole
        /\ Saving => \A n \in 1 .. img_count - 1 : cam_dir[1][n].shot < shots
        /\ pc \in {"write2", "print"} => InPlace(1)
        /\ pc = "print" => InPlace(2)

\* A number written by a crash or a failed write is none announced.
LEMMA AnnouncedKept ==
    ASSUME TypeInv, Announced, ~failed,
           \/ UNCHANGED <<cam_dir, torn>>
           \/ \E i \in Folder : /\ Saving /\ Written(i)
                                /\ \/ torn' = torn \ {<<i, img_count>>}
                                   \/ torn' = torn \cup {<<i, img_count>>}
    PROVE  \A n \in 1 .. img_count - 1 : \A j \in Folder :
              /\ cam_dir'[j][n] = cam_dir[j][n]
              /\ (<<j, n>> \in torn') <=> (<<j, n>> \in torn)
<1>1. CASE UNCHANGED <<cam_dir, torn>>
  BY <1>1
<1>2. ASSUME NEW i \in Folder, Saving, Written(i),
             \/ torn' = torn \ {<<i, img_count>>}
             \/ torn' = torn \cup {<<i, img_count>>}
      PROVE  \A n \in 1 .. img_count - 1 : \A j \in Folder :
                /\ cam_dir'[j][n] = cam_dir[j][n]
                /\ (<<j, n>> \in torn') <=> (<<j, n>> \in torn)
  <2>1. img_count \in Number /\ img_count \in Int /\ MaxShot \in Int
    BY <1>2, NumberInUse, BoundAssumption DEF Number
  <2>2. \A n \in 1 .. img_count - 1 : n \in Number /\ n # img_count
    BY <2>1 DEF Number
  <2>3. \A j \in Folder : \A n \in Number :
           cam_dir'[j][n] = IF j = i /\ n = img_count THEN Image(i)
                            ELSE cam_dir[j][n]
    BY <1>2, <2>1, WrittenFiles DEF TypeInv
  <2>4. \A n \in 1 .. img_count - 1 : \A j \in Folder :
           cam_dir'[j][n] = cam_dir[j][n]
    BY <2>2, <2>3
  <2>5. \A n \in 1 .. img_count - 1 : \A j \in Folder :
           (<<j, n>> \in torn') <=> (<<j, n>> \in torn)
    BY <1>2, <2>2
  <2> QED BY <2>4, <2>5
<1> QED BY <1>1, <1>2

\* Every step keeps what the session announced.
LEMMA AnnouncedStep ==
    ASSUME TypeInv, TypeInv', Announced, [Next]_vars
    PROVE  Announced'
<1> SUFFICES ASSUME ~failed'
             PROVE  Announced'
  BY DEF Announced
<1>1. ~failed /\ SessionWhole
  BY DEF Next, vars, Start, Space, WriteFirst, WriteSecond, Write, CutOff, Announce,
         Quit, Crash, Finished, Announced
\* A step of the session in which neither its numbers nor its cameras change.
<1>2. ASSUME UNCHANGED <<devices, first_shot, img_count>>,
             \/ UNCHANGED <<cam_dir, torn>>
             \/ \E i \in Folder : /\ Saving /\ Written(i)
                                  /\ \/ torn' = torn \ {<<i, img_count>>}
                                     \/ torn' = torn \cup {<<i, img_count>>}
      PROVE  /\ SessionWhole'
             /\ \A n \in 1 .. img_count - 1 : cam_dir'[1][n] = cam_dir[1][n]
  <2>1. \A n \in 1 .. img_count - 1 : \A j \in Folder :
           /\ cam_dir'[j][n] = cam_dir[j][n]
           /\ (<<j, n>> \in torn') <=> (<<j, n>> \in torn)
    BY <1>1, <1>2, AnnouncedKept
  <2>2. img_count \in Int /\ 1 \in Folder /\ 2 \in Folder
    BY BoundAssumption DEF TypeInv, TypeOK, Folder
  <2>3. \A n \in 1 .. img_count - 1 : \A m \in 1 .. n - 1 : m \in 1 .. img_count - 1
    BY <2>2
  <2>4. \A n \in 1 .. img_count - 1 :
           /\ cam_dir[1][n].shot = cam_dir[2][n].shot
           /\ cam_dir[1][n].shot > first_shot
           /\ \A i \in Folder : /\ cam_dir[i][n].device = devices[i]
                                /\ <<i, n>> \notin torn
           /\ \A m \in 1 .. n - 1 : cam_dir[1][m].shot < cam_dir[1][n].shot
    BY <1>1 DEF SessionWhole
  <2>5. ASSUME NEW n \in 1 .. img_count - 1
        PROVE  /\ cam_dir'[1][n].shot = cam_dir'[2][n].shot
               /\ cam_dir'[1][n].shot > first_shot
               /\ \A i \in Folder : /\ cam_dir'[i][n].device = devices[i]
                                    /\ <<i, n>> \notin torn'
               /\ \A m \in 1 .. n - 1 : cam_dir'[1][m].shot < cam_dir'[1][n].shot
    <3>1. \A i \in Folder : /\ cam_dir'[i][n] = cam_dir[i][n]
                            /\ (<<i, n>> \in torn') <=> (<<i, n>> \in torn)
      BY <2>1
    <3>2. \A m \in 1 .. n - 1 : cam_dir'[1][m] = cam_dir[1][m]
      BY <2>1, <2>2, <2>3
    <3>3. \A i \in Folder : <<i, n>> \notin torn'
      BY <2>4, <3>1
    <3>4. \A i \in Folder : cam_dir'[i][n].device = devices[i]
      BY <2>4, <3>1
    <3>5. \A m \in 1 .. n - 1 : cam_dir'[1][m].shot < cam_dir'[1][n].shot
      BY <2>2, <2>4, <3>1, <3>2
    <3>6. /\ cam_dir'[1][n].shot = cam_dir'[2][n].shot
          /\ cam_dir'[1][n].shot > first_shot
      BY <2>2, <2>4, <3>1
    <3> QED BY <3>3, <3>4, <3>5, <3>6
  <2>6. SessionWhole'
    BY <1>2, <2>5 DEF SessionWhole
  <2> QED BY <2>1, <2>2, <2>6
<1>3. CASE Start
  BY <1>3 DEF Start, Announced, SessionWhole, Saving
<1>4. CASE Space
  <2>1. /\ SessionWhole' /\ pc' = "write1" /\ shots' = shots + 1
        /\ \A n \in 1 .. img_count - 1 : cam_dir'[1][n] = cam_dir[1][n]
        /\ img_count' = img_count
    BY <1>2, <1>4 DEF Space
  <2>2. \A n \in 1 .. img_count - 1 : cam_dir[1][n].shot <= shots
                                       /\ cam_dir[1][n].shot \in Int
    <3>1. img_count - 1 <= MaxShot /\ img_count \in Int /\ MaxShot \in Int
      BY BoundAssumption DEF TypeInv, TypeOK
    <3>2. \A n \in 1 .. img_count - 1 : n \in Number
      BY <3>1 DEF Number
    <3> QED BY <3>2 DEF TypeInv, TypeOK, Counted, Folder
  <2>3. shots \in Int
    BY BoundAssumption DEF TypeInv, TypeOK
  <2> QED BY <2>1, <2>2, <2>3 DEF Announced
\* What a successful write of folder i does.
<1>5. ASSUME NEW i \in Folder, Saving, Write(i),
             UNCHANGED <<devices, shots, first_shot, img_count>>
      PROVE  /\ SessionWhole' /\ InPlace(i)'
             /\ \A n \in 1 .. img_count - 1 : cam_dir'[1][n] = cam_dir[1][n]
             /\ \A j \in Folder \ {i} : InPlace(j) => InPlace(j)'
  <2>1. Written(i) /\ torn' = torn \ {<<i, img_count>>}
    BY <1>5 DEF Write
  <2>2. img_count \in Number
    BY <1>5, NumberInUse
  <2>3. \A j \in Folder : \A n \in Number :
           cam_dir'[j][n] = IF j = i /\ n = img_count THEN Image(i)
                            ELSE cam_dir[j][n]
    BY <2>1, <2>2, WrittenFiles DEF TypeInv
  <2>4. /\ SessionWhole'
        /\ \A n \in 1 .. img_count - 1 : cam_dir'[1][n] = cam_dir[1][n]
    BY <1>2, <1>5, <2>1
  <2>5. InPlace(i)'
    BY <1>5, <2>1, <2>2, <2>3 DEF InPlace, Image
  <2>6. \A j \in Folder \ {i} : InPlace(j) => InPlace(j)'
    BY <1>5, <2>1, <2>2, <2>3 DEF InPlace, Image
  <2> QED BY <2>4, <2>5, <2>6
<1>6. CASE WriteFirst
  <2>1. /\ SessionWhole' /\ InPlace(1)'
        /\ \A n \in 1 .. img_count - 1 : cam_dir'[1][n] = cam_dir[1][n]
    BY <1>5, <1>6 DEF WriteFirst, Saving, Folder
  <2> QED BY <1>1, <1>6, <2>1 DEF WriteFirst, Announced, Saving
<1>7. CASE WriteSecond
  <2>1. /\ SessionWhole' /\ InPlace(2)' /\ InPlace(1)'
        /\ \A n \in 1 .. img_count - 1 : cam_dir'[1][n] = cam_dir[1][n]
    BY <1>1, <1>5, <1>7 DEF WriteSecond, Saving, Folder, Announced
  <2> QED BY <1>1, <1>7, <2>1 DEF WriteSecond, Announced, Saving
<1>8. CASE Announce
  <2>1. /\ pc' = "loop" /\ img_count' = img_count + 1
        /\ UNCHANGED <<cam_dir, torn, devices, shots, first_shot>>
    BY <1>8 DEF Announce
  <2>2. InPlace(1) /\ InPlace(2)
    BY <1>1, <1>8 DEF Announce, Announced
  <2>3. /\ \A n \in 1 .. img_count - 1 : cam_dir[1][n].shot < shots
        /\ img_count <= shots - first_shot
        /\ img_count \in Nat /\ shots \in Int /\ first_shot \in Int
    BY <1>1, <1>8, BoundAssumption DEF Announce, Announced, Saving, TypeInv, TypeOK, Counted
  <2>4. shots > first_shot /\ img_count >= 1
    BY <2>3 DEF TypeInv, TypeOK
  <2>5. \A n \in 1 .. img_count : n \in 1 .. img_count - 1 \/ n = img_count
    BY <2>3
  <2>6. ASSUME NEW n \in 1 .. img_count
        PROVE  /\ cam_dir[1][n].shot = cam_dir[2][n].shot
               /\ cam_dir[1][n].shot > first_shot
               /\ \A i \in Folder : /\ cam_dir[i][n].device = devices[i]
                                    /\ <<i, n>> \notin torn
               /\ \A m \in 1 .. n - 1 : cam_dir[1][m].shot < cam_dir[1][n].shot
    <3>1. CASE n = img_count
      BY <2>2, <2>3, <2>4, <3>1 DEF InPlace, Image, Folder
    <3>2. CASE n \in 1 .. img_count - 1
      BY <1>1, <3>2 DEF SessionWhole
    <3> QED BY <2>5, <3>1, <3>2
  <2>7. (img_count + 1) - 1 = img_count
    BY <2>3
  <2>8. SessionWhole'
    BY <2>1, <2>6, <2>7 DEF SessionWhole
  <2> QED BY <2>1, <2>8 DEF Announced, Saving
<1>9. CASE Quit
  <2>1. SessionWhole' /\ pc' = "off"
    BY <1>2, <1>9 DEF Quit
  <2> QED BY <2>1 DEF Announced, Saving
<1>10. CASE Crash
  <2>1. \/ UNCHANGED <<cam_dir, torn>>
        \/ \E i \in Folder : /\ Saving /\ Written(i)
                             /\ \/ torn' = torn \ {<<i, img_count>>}
                                \/ torn' = torn \cup {<<i, img_count>>}
    BY <1>10 DEF Crash, Writing, CutOff, Saving, Folder
  <2>2. SessionWhole' /\ pc' = "off"
    BY <1>2, <1>10, <2>1 DEF Crash
  <2> QED BY <2>2 DEF Announced, Saving
<1>11. CASE UNCHANGED vars
  <2>1. SessionWhole'
    BY <1>2, <1>11 DEF vars
  <2> QED BY <1>1, <1>11, <2>1 DEF vars, Announced, Saving, InPlace, Image
<1> QED BY <1>3, <1>4, <1>6, <1>7, <1>8, <1>9, <1>10, <1>11 DEF Next, Finished

\* What a session has announced stays, through later numbers and through a
\* crash: both folders hold the shot as it was taken, as long as no write has
\* failed unnoticed.
THEOREM AnnouncedShotsStay == Spec => []SessionWhole
<1>1. Init => Announced
  BY DEF Init, Announced, SessionWhole, Saving
<1>2. TypeInv /\ TypeInv' /\ Announced /\ [Next]_vars => Announced'
  BY AnnouncedStep
<1>3. Announced => SessionWhole
  BY DEF Announced, SessionWhole
<1>4. Init => TypeInv
  BY TypeInvInit
<1>5. TypeInv /\ [Next]_vars => TypeInv'
  BY TypeInvStep
<1> QED BY <1>1, <1>2, <1>3, <1>4, <1>5, PTL DEF Spec

-----------------------------------------------------------------------------
(* The numbers in use.                                                     *)

\* FoldersDense for two sets of numbers.
Dense(A, B) ==
    /\ \A n \in A : \A m \in 1 .. n : m \in A
    /\ \A n \in B : \A m \in 1 .. n : m \in B
    /\ B \subseteq A
    /\ \A n \in A \ B : \A m \in 1 .. n - 1 : m \in B

\* FoldersDense is kept because the numbers below img_count are all used and
\* the first folder is written first.
NumbersInv ==
    ~failed =>
        /\ Dense(Files(1), Files(2))
        /\ 1 .. img_count - 1 \subseteq Files(2)
        /\ pc = "write2" => img_count \in Files(1)
        /\ pc = "print" => img_count \in Files(2)

\* The next number may be written to the first folder, and then to the second.
LEMMA DenseExtended ==
    ASSUME NEW A \in SUBSET Nat, NEW B \in SUBSET Nat, NEW k \in Nat \ {0},
           Dense(A, B), 1 .. k - 1 \subseteq B
    PROVE  /\ Dense(A \cup {k}, B)
           /\ k \in A => Dense(A, B \cup {k})
<1>1. \A m \in 1 .. k : m \in B \cup {k}
  <2>1. \A m \in 1 .. k : m \in 1 .. k - 1 \/ m = k
    OBVIOUS
  <2> QED BY <2>1
<1>2. Dense(A \cup {k}, B)
  <2>1. \A n \in A \cup {k} : \A m \in 1 .. n : m \in A \cup {k}
    BY <1>1 DEF Dense
  <2>2. \A n \in (A \cup {k}) \ B : \A m \in 1 .. n - 1 : m \in B
    BY DEF Dense
  <2> QED BY <2>1, <2>2 DEF Dense
<1>3. ASSUME k \in A
      PROVE  Dense(A, B \cup {k})
  <2>1. \A n \in B \cup {k} : \A m \in 1 .. n : m \in B \cup {k}
    BY <1>1 DEF Dense
  <2>2. \A n \in A \ (B \cup {k}) : \A m \in 1 .. n - 1 : m \in B \cup {k}
    BY DEF Dense
  <2> QED BY <1>3, <2>1, <2>2 DEF Dense
<1> QED BY <1>2, <1>3

\* A folder gets the file with the present number, the other none.
LEMMA FilesWritten ==
    ASSUME TypeInv, Saving, NEW i \in Folder, Written(i)
    PROVE  \A j \in Folder :
              Files(j)' = IF j = i THEN Files(j) \cup {img_count} ELSE Files(j)
<1>1. img_count \in Number
  BY NumberInUse
<1>2. /\ \A j \in Folder : \A n \in Number :
            cam_dir'[j][n] = IF j = i /\ n = img_count THEN Image(i)
                             ELSE cam_dir[j][n]
      /\ Image(i) # Empty
  BY <1>1, WrittenFiles DEF TypeInv
<1> QED BY <1>1, <1>2 DEF Files

\* Every step keeps the folders dense.
LEMMA NumbersStep ==
    ASSUME TypeInv, NumbersInv, [Next]_vars
    PROVE  NumbersInv'
<1> SUFFICES ASSUME ~failed'
             PROVE  NumbersInv'
  BY DEF NumbersInv
<1>1. /\ Dense(Files(1), Files(2))
      /\ 1 .. img_count - 1 \subseteq Files(2)
      /\ pc = "write2" => img_count \in Files(1)
      /\ pc = "print" => img_count \in Files(2)
  BY DEF Next, vars, Start, Space, WriteFirst, WriteSecond, Write, CutOff, Announce,
         Quit, Crash, Finished, NumbersInv
<1>2. /\ Files(1) \in SUBSET Nat /\ Files(2) \in SUBSET Nat
      /\ img_count \in Nat \ {0}
  BY BoundAssumption DEF Files, Number, TypeInv, TypeOK
<1>3. ASSUME UNCHANGED cam_dir
      PROVE  Files(1)' = Files(1) /\ Files(2)' = Files(2)
  BY <1>3 DEF Files
\* A file written now, whole or not.
<1>4. ASSUME pc = "write1", Written(1)
      PROVE  /\ Dense(Files(1), Files(2))'
             /\ Files(2)' = Files(2) /\ img_count \in Files(1)'
  <2>1. Files(1)' = Files(1) \cup {img_count} /\ Files(2)' = Files(2)
    BY <1>4, FilesWritten DEF Saving, Folder
  <2>2. Dense(Files(1) \cup {img_count}, Files(2))
    BY <1>1, <1>2, DenseExtended
  <2>3. Dense(Files(1), Files(2))'
    BY <2>1, <2>2 DEF Dense
  <2> QED BY <2>1, <2>3
<1>5. ASSUME pc = "write2", Written(2)
      PROVE  /\ Dense(Files(1), Files(2))'
             /\ Files(2)' = Files(2) \cup {img_count}
  <2>1. Files(1)' = Files(1) /\ Files(2)' = Files(2) \cup {img_count}
    BY <1>5, FilesWritten DEF Saving, Folder
  <2>2. Dense(Files(1), Files(2) \cup {img_count})
    BY <1>1, <1>2, <1>5, DenseExtended
  <2>3. Dense(Files(1), Files(2))'
    BY <2>1, <2>2 DEF Dense
  <2> QED BY <2>1, <2>3
<1>6. CASE Start
  BY <1>1, <1>3, <1>6 DEF Start, NumbersInv, Dense
<1>7. CASE Space
  BY <1>1, <1>3, <1>7 DEF Space, NumbersInv, Dense
<1>8. CASE WriteFirst
  <2>1. /\ pc = "write1" /\ Written(1) /\ pc' = "write2" /\ img_count' = img_count
    BY <1>8 DEF WriteFirst, Write
  <2> QED BY <1>1, <1>4, <2>1 DEF NumbersInv
<1>9. CASE WriteSecond
  <2>1. /\ pc = "write2" /\ Written(2) /\ pc' = "print" /\ img_count' = img_count
    BY <1>9 DEF WriteSecond, Write
  <2> QED BY <1>1, <1>5, <2>1 DEF NumbersInv
<1>10. CASE Announce
  <2>1. /\ pc = "print" /\ pc' = "loop" /\ img_count' = img_count + 1
        /\ UNCHANGED cam_dir
    BY <1>10 DEF Announce
  <2>2. 1 .. (img_count + 1) - 1 \subseteq Files(2)
    <3>1. \A n \in 1 .. (img_count + 1) - 1 : n \in 1 .. img_count - 1 \/ n = img_count
      BY <1>2
    <3> QED BY <1>1, <2>1, <3>1
  <2> QED BY <1>1, <1>3, <2>1, <2>2 DEF NumbersInv, Dense
<1>11. CASE Quit
  BY <1>1, <1>3, <1>11 DEF Quit, NumbersInv, Dense
<1>12. CASE Crash
  <2>1. pc' = "off" /\ img_count' = img_count
    BY <1>12 DEF Crash
  <2>2. CASE UNCHANGED cam_dir
    BY <1>1, <1>3, <2>1, <2>2 DEF NumbersInv, Dense
  <2>3. CASE pc = "write1" /\ Written(1)
    BY <1>1, <1>4, <2>1, <2>3 DEF NumbersInv
  <2>4. CASE pc = "write2" /\ Written(2)
    BY <1>1, <1>5, <2>1, <2>4 DEF NumbersInv
  <2> QED BY <1>12, <2>2, <2>3, <2>4 DEF Crash, Writing, CutOff, Folder
<1>13. CASE UNCHANGED vars
  BY <1>1, <1>3, <1>13 DEF vars, NumbersInv, Dense
<1> QED BY <1>6, <1>7, <1>8, <1>9, <1>10, <1>11, <1>12, <1>13 DEF Next, Finished

\* Empty folders are dense.
LEMMA NumbersInit ==
    ASSUME Init
    PROVE  NumbersInv
<1>1. Files(1) = {} /\ Files(2) = {}
  BY DEF Init, Files, Folder
<1>2. img_count = 1 /\ pc = "off"
  BY DEF Init
<1> QED BY <1>1, <1>2 DEF NumbersInv, Dense

\* No number is skipped and the second folder is at most one image behind,
\* whatever sessions were killed, as long as no write has failed.
THEOREM NumbersAreDense == Spec => []FoldersDense
<1>1. NumbersInv => FoldersDense
  BY DEF NumbersInv, Dense, FoldersDense, Folder
<1>2. Spec => []NumbersInv
  BY TypeInvInit, TypeInvStep, NumbersInit, NumbersStep, PTL DEF Spec
<1> QED BY <1>1, <1>2, PTL

-----------------------------------------------------------------------------
(* What a killed session costs.                                            *)

\* Numbers under which the folders hold different shots.
Differing ==
    {n \in Files(1) \cap Files(2) : cam_dir[1][n].shot # cam_dir[2][n].shot}

\* Without the number being written, which the second write settles.
Settled == IF pc = "write2" THEN Differing \ {img_count} ELSE Differing

\* DamageBounded for numbers instead of positions.
DamageInv == ~failed => Cardinality(Settled) <= crashes

\* The numbers under which the folders differ are finitely many.
LEMMA DifferingFinite ==
    ASSUME TypeInv
    PROVE  /\ IsFiniteSet(Differing)
           /\ IsFiniteSet(Settled)
           /\ Cardinality(Settled) \in Nat
<1>1. Differing \subseteq 1 .. MaxShot
  BY DEF Differing, Files, Number
<1>2. IsFiniteSet(1 .. MaxShot)
  BY FS_Interval, BoundAssumption
<1>3. IsFiniteSet(Differing)
  BY <1>1, <1>2, FS_Subset
<1>4. Settled \subseteq Differing
  BY DEF Settled
<1>5. IsFiniteSet(Settled)
  BY <1>3, <1>4, FS_Subset
<1> QED BY <1>3, <1>5, FS_CardinalityType

\* Only a crash can make one more number differ.
LEMMA SettledStep ==
    ASSUME TypeInv, Announced, ~failed, Next, ~failed'
    PROVE  /\ Settled' \subseteq Settled \cup {img_count}
           /\ ~Crash => Settled' \subseteq Settled
<1>1. ASSUME UNCHANGED cam_dir
      PROVE  Differing' = Differing
  BY <1>1 DEF Differing, Files
<1>2. ASSUME NEW i \in Folder, Saving, Written(i)
      PROVE  /\ Differing' \subseteq Differing \cup {img_count}
             /\ i = 2 /\ InPlace(1) => img_count \notin Differing'
  <2>1. \A j \in Folder : \A n \in Number :
           cam_dir'[j][n] = IF j = i /\ n = img_count THEN Image(i)
                            ELSE cam_dir[j][n]
    BY <1>2, NumberInUse, WrittenFiles DEF TypeInv
  <2>2. 1 \in Folder /\ 2 \in Folder
    BY DEF Folder
  <2>3. Differing' \subseteq Differing \cup {img_count}
    BY <2>1, <2>2 DEF Differing, Files
  <2>4. i = 2 /\ InPlace(1) => img_count \notin Differing'
    BY <2>1, <2>2 DEF Differing, Files, InPlace, Image
  <2> QED BY <2>3, <2>4
<1>3. CASE Start \/ Space \/ Announce \/ Quit \/ Finished
  <2>1. /\ Differing' = Differing
        /\ \/ pc # "write2" /\ pc' # "write2"
           \/ UNCHANGED <<pc, img_count>>
    BY <1>1, <1>3 DEF Start, Space, Announce, Quit, Finished, vars
  <2> QED BY <2>1 DEF Settled
<1>4. CASE WriteFirst
  <2>1. /\ pc = "write1" /\ Written(1) /\ pc' = "write2" /\ img_count' = img_count
    BY <1>4 DEF WriteFirst, Write
  <2>2. Differing' \subseteq Differing \cup {img_count}
    BY <1>2, <2>1 DEF Saving, Folder
  <2> QED BY <2>1, <2>2 DEF Settled
<1>5. CASE WriteSecond
  <2>1. /\ pc = "write2" /\ Written(2) /\ pc' = "print"
    BY <1>5 DEF WriteSecond, Write
  <2>2. InPlace(1)
    BY <2>1 DEF Announced
  <2>3. Differing' \subseteq Differing \cup {img_count} /\ img_count \notin Differing'
    BY <1>2, <2>1, <2>2 DEF Saving, Folder
  <2> QED BY <2>1, <2>3 DEF Settled
<1>6. CASE Crash
  <2>1. Differing' \subseteq Differing \cup {img_count}
    BY <1>1, <1>2, <1>6 DEF Crash, Writing, CutOff, Saving, Folder
  <2>2. pc' = "off"
    BY <1>6 DEF Crash
  <2> QED BY <1>6, <2>1, <2>2 DEF Settled
<1> QED BY <1>3, <1>4, <1>5, <1>6 DEF Next

\* Only a crash adds a number under which the folders differ, and one at most.
LEMMA DamageStep ==
    ASSUME TypeInv, Announced, DamageInv, [Next]_vars
    PROVE  DamageInv'
<1> SUFFICES ASSUME ~failed'
             PROVE  Cardinality(Settled') <= crashes'
  BY DEF DamageInv
<1>1. /\ IsFiniteSet(Settled) /\ Cardinality(Settled) \in Nat
      /\ crashes \in Nat
  BY DifferingFinite DEF TypeInv, TypeOK
<1>2. ~failed
  BY DEF Next, vars, Start, Space, WriteFirst, WriteSecond, Write, CutOff, Announce,
         Quit, Crash, Finished
<1>3. Cardinality(Settled) <= crashes
  BY <1>2 DEF DamageInv
<1>4. CASE UNCHANGED vars
  BY <1>3, <1>4 DEF vars, Settled, Differing, Files
<1>5. CASE Next /\ ~Crash
  <2>1. Settled' \subseteq Settled
    BY <1>2, <1>5, SettledStep
  <2>2. IsFiniteSet(Settled') /\ Cardinality(Settled') <= Cardinality(Settled)
    BY <1>1, <2>1, FS_Subset
  <2>3. crashes' = crashes
    BY <1>5 DEF Next, Start, Space, WriteFirst, WriteSecond, Announce, Quit,
                Finished, vars
  <2>4. Cardinality(Settled') \in Nat
    BY <2>2, FS_CardinalityType
  <2> QED BY <1>1, <1>3, <2>2, <2>3, <2>4
<1>6. CASE Crash
  <2>1. Settled' \subseteq Settled \cup {img_count}
    BY <1>2, <1>6, SettledStep DEF Next
  <2>2. /\ IsFiniteSet(Settled \cup {img_count})
        /\ Cardinality(Settled \cup {img_count}) <= Cardinality(Settled) + 1
    BY <1>1, FS_AddElement
  <2>3. /\ IsFiniteSet(Settled')
        /\ Cardinality(Settled') <= Cardinality(Settled \cup {img_count})
    BY <2>1, <2>2, FS_Subset
  <2>4. Cardinality(Settled \cup {img_count}) \in Nat /\ Cardinality(Settled') \in Nat
    BY <2>3, <2>2, FS_CardinalityType
  <2>5. crashes' = crashes + 1
    BY <1>6 DEF Crash
  <2> QED BY <1>1, <1>3, <2>2, <2>3, <2>4, <2>5
<1> QED BY <1>4, <1>5, <1>6

\* Numbers used without a gap are those up to their count.
LEMMA InitialSegment ==
    ASSUME NEW M \in Nat, NEW A \in SUBSET (1 .. M),
           \A n \in A : \A m \in 1 .. n : m \in A
    PROVE  /\ IsFiniteSet(A) /\ Cardinality(A) \in Nat
           /\ A = 1 .. Cardinality(A)
<1>1. IsFiniteSet(A)
  <2>1. IsFiniteSet(1 .. M)
    BY FS_Interval
  <2> QED BY <2>1, FS_Subset
<1>2. Cardinality(A) \in Nat
  BY <1>1, FS_CardinalityType
<1>3. ASSUME NEW n \in A
      PROVE  n <= Cardinality(A)
  <2>1. 1 .. n \subseteq A /\ n \in Nat /\ n >= 1
    OBVIOUS
  <2>2. Cardinality(1 .. n) = n
    BY <2>1, FS_Interval
  <2>3. Cardinality(1 .. n) <= Cardinality(A)
    BY <1>1, <2>1, FS_Subset
  <2> QED BY <2>2, <2>3
<1>4. A \subseteq 1 .. Cardinality(A)
  BY <1>2, <1>3
<1>5. IsFiniteSet(1 .. Cardinality(A)) /\ Cardinality(1 .. Cardinality(A)) = Cardinality(A)
  BY <1>2, FS_Interval
<1>6. A = 1 .. Cardinality(A)
  BY <1>4, <1>5, FS_Subset
<1> QED BY <1>1, <1>2, <1>6

\* In a folder without gaps the position of a file tells its number.
LEMMA NumberIsPosition ==
    ASSUME TypeInv, NEW i \in Folder,
           \A n \in Files(i) : \A m \in 1 .. n : m \in Files(i),
           NEW f \in Nat, f < Cardinality(Files(i))
    PROVE  NumberOf(i, f) = f + 1 /\ f + 1 \in Files(i)
<1> DEFINE A == Files(i)
<1>1. A \in SUBSET (1 .. MaxShot) /\ MaxShot \in Nat
  BY BoundAssumption DEF Files, Number
<1>2. A = 1 .. Cardinality(A) /\ Cardinality(A) \in Nat
  BY <1>1, InitialSegment
<1>3. ASSUME NEW n \in A
      PROVE  Cardinality({m \in A : m < n}) = n - 1
  <2>1. n \in Nat /\ n >= 1 /\ n <= Cardinality(A)
    BY <1>2
  <2>2. {m \in A : m < n} = 1 .. n - 1
    BY <1>2, <2>1
  <2>3. Cardinality(1 .. n - 1) = n - 1
    BY <2>1, FS_Interval
  <2> QED BY <2>2, <2>3
<1>4. f + 1 \in A
  BY <1>2
<1>5. \A n \in A : Cardinality({m \in A : m < n}) = f <=> n = f + 1
  <2>1. \A n \in A : n \in Nat
    BY <1>2
  <2> QED BY <1>3, <2>1
<1> QED BY <1>4, <1>5 DEF NumberOf

\* A session that was killed costs at most one frame: what MC-Calib takes for one
\* frame is of two shots no more often than sessions were killed, as long as
\* no write has failed.
THEOREM CrashDamageBounded == Spec => []DamageBounded
<1>1. ASSUME TypeInv, NumbersInv, DamageInv
      PROVE  DamageBounded
  <2> SUFFICES ASSUME ~failed
               PROVE  Cardinality(Mismatched) <=
                         crashes + (IF pc = "write2" THEN 1 ELSE 0)
    BY DEF DamageBounded
  <2>1. ASSUME NEW p \in Pairs
        PROVE  p[1] = p[2] /\ p[1] \in Files(1) \cap Files(2)
    <3>1. PICK f \in 0 .. NbFrame - 1 : p = <<NumberOf(1, f), NumberOf(2, f)>>
      BY DEF Pairs
    <3>2. /\ \A i \in Folder : \A n \in Files(i) : \A m \in 1 .. n : m \in Files(i)
          /\ \A i \in Folder : Files(i) \in SUBSET (1 .. MaxShot)
      BY <1>1 DEF NumbersInv, Dense, Files, Number, Folder
    <3>3. \A i \in Folder : Cardinality(Files(i)) \in Nat
      <4>1. MaxShot \in Nat
        BY BoundAssumption
      <4> QED BY <3>2, <4>1, InitialSegment
    <3>4. f \in Nat /\ f < Cardinality(Files(1)) /\ f < Cardinality(Files(2))
      BY <3>1, <3>3 DEF NbFrame, Folder
    <3>5. NumberOf(1, f) = f + 1 /\ f + 1 \in Files(1)
      BY <1>1, <3>2, <3>4, NumberIsPosition DEF Folder
    <3>6. NumberOf(2, f) = f + 1 /\ f + 1 \in Files(2)
      BY <1>1, <3>2, <3>4, NumberIsPosition DEF Folder
    <3> QED BY <3>1, <3>5, <3>6
  <2>2. \A p \in Mismatched : p[1] \in Differing
    BY <2>1 DEF Mismatched, Differing
  <2>3. \A p, q \in Mismatched : p[1] = q[1] => p = q
    BY <2>1 DEF Mismatched, Pairs
  <2> DEFINE First == [p \in Mismatched |-> p[1]]
  <2>4. First \in Injection(Mismatched, Differing)
    BY <2>2, <2>3 DEF Injection, IsInjective
  <2>5. IsFiniteSet(Differing) /\ IsFiniteSet(Settled) /\ Cardinality(Settled) \in Nat
    BY <1>1, DifferingFinite
  <2>6. IsFiniteSet(Mismatched) /\ Cardinality(Mismatched) <= Cardinality(Differing)
    BY <2>4, <2>5, FS_Injection
  <2>7. Cardinality(Mismatched) \in Nat /\ Cardinality(Differing) \in Nat
    BY <2>5, <2>6, FS_CardinalityType
  <2>8. Cardinality(Differing) <=
           Cardinality(Settled) + (IF pc = "write2" THEN 1 ELSE 0)
    BY <2>5, <2>7, FS_RemoveElement DEF Settled
  <2>9. Cardinality(Settled) <= crashes /\ crashes \in Nat
    BY <1>1 DEF DamageInv, TypeInv, TypeOK
  <2> QED BY <2>5, <2>6, <2>7, <2>8, <2>9
<1>2. ASSUME Init
      PROVE  DamageInv
  <2>1. Settled = {} /\ crashes = 0
    BY <1>2 DEF Init, Settled, Differing, Files, Folder
  <2>2. Cardinality(Settled) = 0
    BY <2>1, FS_EmptySet
  <2> QED BY <2>1, <2>2 DEF DamageInv
<1>3. ASSUME Init
      PROVE  TypeInv /\ Announced /\ NumbersInv
  <2>1. Announced
    BY <1>3 DEF Init, Announced, SessionWhole, Saving
  <2> QED BY <1>3, <2>1, TypeInvInit, NumbersInit
<1> DEFINE Inv == TypeInv /\ Announced /\ NumbersInv /\ DamageInv
<1>4. Init => Inv
  BY <1>2, <1>3
<1>5. Inv /\ [Next]_vars => Inv'
  BY TypeInvStep, AnnouncedStep, NumbersStep, DamageStep
<1>6. Inv => DamageBounded
  BY <1>1
<1> QED BY <1>4, <1>5, <1>6, PTL DEF Spec

-----------------------------------------------------------------------------
(***************************************************************************)
(* The pipeline.                                                           *)
(***************************************************************************)

\* The places of unsafe_start at which the device object is chosen, and those
\* of unsafe_stop at which sensors are stopped and closed.
Launching == {"on_start", "open", "start", "set_active"}
Stopping  == {"stop", "close", "stop_dispatcher", "reset"}

\* The steps of a reconnection before the new device object is there.
Reconnecting == call.op = "wait" /\ call.at \in {"halt", "reset_conf", "resolve"} \cup Stopping

\* Where a call is says what kind of call it is, that it has sensors left to
\* handle, and whether there is an active profile; a profile that is started has
\* streams.
CallInv ==
    /\ call.op = "none" \/ call.at = "none" => call = NoCall
    /\ call.op = "start" => call.at \in {"resolve", "set_conf"} \cup Launching
    /\ call.op = "stop" => call.at \in {"halt", "reset_conf"} \cup Stopping
    /\ call.op = "wait" /\ call.at # "wait" => kind = "camera"
    /\ call.at \in Launching \cup Stopping \cup {"set_conf"} => call.dev # 0
    /\ call.at \in {"open", "start", "stop", "close"} =>
          call.todo # {} /\ call.todo \subseteq dev[call.dev].streams
    /\ call.at \in {"resolve", "reset_conf"} \cup Launching => active = 0
    /\ call.at \in {"wait", "rewait", "halt", "set_conf"} \cup Stopping => active # 0
    /\ call.at \in {"set_conf"} \cup Stopping => call.dev = active
    /\ active # 0 => dev[active].streams # {}
    /\ call.at \in {"open", "start", "set_active"} => dev[call.dev].streams # {}

\* A device object is of a camera that was plugged in, later objects of the same
\* camera or a later one; only streams of its profile are on.
DevInv ==
    /\ plugs >= 1 /\ (plugged = 0 => plugs < MaxPlugs)
    /\ kind # "camera" => plugged = 1
    /\ \A d \in DOMAIN dev : /\ dev[d].inc \in 1 .. plugs
                             /\ dev[d].on \subseteq dev[d].streams
    /\ \A d, e \in DOMAIN dev : d <= e => dev[d].inc <= dev[e].inc

\* The repeat of a file has sensors left to handle; a camera has none.
ItemInv ==
    /\ item.at \in {"open", "start"} =>
          /\ item.dev # 0 /\ item.todo # {}
          /\ item.todo \subseteq dev[item.dev].streams
    /\ kind = "camera" => item.at = "none" /\ dispatcher.items = <<>> /\ ~raising

\* The streams of a resolved profile are those of the configuration, and
\* _prev_conf is there while a profile is active.
ConfInv ==
    /\ user_conf.cached <= Len(dev) /\ call.conf.cached <= Len(dev)
    /\ user_conf.cached # 0 => dev[user_conf.cached].streams = Resolved(user_conf)
    /\ call.op = "start" => call.conf = user_conf
    /\ call.at \in Launching \cup {"set_conf"} =>
          /\ call.conf.cached = call.dev
          /\ dev[call.dev].streams = Resolved(call.conf)
    /\ active # 0 /\ call.at # "set_conf" =>
          /\ prev_conf # NoConf /\ prev_conf.cached = 0 /\ prev_conf.disabled = {}
          /\ prev_conf.want # {} => dev[active].streams = prev_conf.want
    /\ Reconnecting =>
          /\ call.lost # 0 /\ call.conf.cached = 0 /\ call.conf.disabled = {}
          /\ call.conf.want # {} => dev[call.lost].streams = call.conf.want

\* The camera the last device object is of.
LastInc == IF dev = <<>> THEN 0 ELSE dev[Len(dev)].inc

\* There is at most one device object for each start() and each camera that was
\* plugged in: an object is made for a start() or for a camera that came since
\* the last one, and the one in use is the last.
CountInv ==
    /\ Len(dev) + (IF call.op = "start" /\ call.at = "resolve" /\ call.conf.cached = 0
                   THEN 1 ELSE 0) <= starts + LastInc
    /\ user_conf.cached # 0 =>
          user_conf.cached = Len(dev) \/ dev[user_conf.cached].inc < LastInc
    /\ call.op = "wait" /\ call.at \in Launching => call.dev = Len(dev)
    /\ kind = "camera" =>
          /\ call.at \in {"start", "set_active"} => call.dev = Len(dev)
          /\ active # 0 => active = Len(dev)
    /\ Reconnecting => call.lost = Len(dev) /\ Gone(call.lost)

ShapeInv == PipelineTypeOK /\ CallInv /\ DevInv /\ ItemInv /\ ConfInv /\ CountInv

\* How far a call has come with the sensors of a camera, and which others may be
\* on.
SensorInv ==
    kind = "camera" =>
        /\ active # 0 /\ call.at \notin Stopping => dev[active].on = dev[active].streams
        /\ call.at = "start" => dev[call.dev].streams \ call.todo \subseteq dev[call.dev].on
        /\ call.at = "set_active" => dev[call.dev].on = dev[call.dev].streams
        /\ call.at = "stop" => dev[call.dev].on = call.todo
        /\ call.at \in {"close", "stop_dispatcher"} => dev[call.dev].on = {}
        /\ call.at = "reset" => Gone(call.dev) \/ dev[call.dev].on = {}

\* Without a fault what is on belongs to the active profile or to the one that
\* is being started, whose sensors are in the state start() expects.
QuietInv ==
    kind = "camera" /\ faults = 0 =>
        /\ \A d \in DOMAIN dev :
              \/ Gone(d) \/ dev[d].on = {} \/ d = active
              \/ call.at \in {"start", "set_active"} /\ d = call.dev
        /\ call.at = "open" =>
              Gone(call.dev) \/ dev[call.dev].streams \ call.todo \subseteq dev[call.dev].open
        /\ call.at = "start" =>
              \/ Gone(call.dev)
              \/ /\ dev[call.dev].streams \subseteq dev[call.dev].open
                 /\ dev[call.dev].on = dev[call.dev].streams \ call.todo

\* The aggregator holds frames of its streams that came since the start, none
\* older than those returned.
FramesInv ==
    /\ \A s \in Streams : /\ base[s] <= sent[s] /\ shown[s] <= sent[s]
                          /\ agg.last[s] <= sent[s]
                          /\ agg.last[s] # 0 => s \in agg.streams /\ agg.last[s] > base[s]
    /\ agg.accepting => agg.dev # 0 /\ agg.streams = dev[agg.dev].streams
    /\ \A s \in agg.streams : shown[s] <= base[s] \/ shown[s] <= agg.last[s]
    /\ \A i \in DOMAIN agg.queue.items :
          /\ \A s \in Streams : agg.queue.items[i][s] <= agg.last[s]
          /\ CountedRight => \A s \in agg.streams : agg.queue.items[i][s] >= shown[s]
          /\ agg.strays = {} => \E s \in agg.streams : agg.queue.items[i][s] > shown[s]
    /\ CountedRight => FramesetsWhole

-----------------------------------------------------------------------------
(* Sets, queues and device objects.                                        *)

\* A set of numbers has a least one.
LEMMA LeastNumber ==
    ASSUME NEW S \in SUBSET Nat, S # {}
    PROVE  \E n \in S : \A m \in S : n <= m
<1>1. PICK n \in S : \A m \in S : ~ (<<m, n>> \in OpToRel(<, Nat))
  BY NatLessThanWellFounded, WFMin
<1>2. \A m \in S : ~(m < n)
  BY <1>1 DEF OpToRel
<1> QED BY <1>2

\* The first sensor of those a call or a repeat has left.
LEMMA MinIsLeft ==
    ASSUME NEW S \in SUBSET Streams, S # {}
    PROVE  Min(S) \in S
<1>1. S \in SUBSET Nat
  BY PipelineAssumption
<1>2. \E n \in S : \A m \in S : n <= m
  BY <1>1, LeastNumber
<1> QED BY <1>2 DEF Min

\* The last one: of two sensors, fewer come after the later.
LEMMA MaxIsLeft ==
    ASSUME NEW S \in SUBSET Streams, S # {}
    PROVE  Max(S) \in S
<1>1. S \in SUBSET Nat /\ IsFiniteSet(S)
  BY PipelineAssumption, FS_Subset
<1> DEFINE After(n) == {m \in S : m > n}
           counts == {Cardinality(After(n)) : n \in S}
<1>2. \A n \in S : IsFiniteSet(After(n)) /\ Cardinality(After(n)) \in Nat
  BY <1>1, FS_Subset, FS_CardinalityType
<1>3. PICK n \in S : \A m \in S : Cardinality(After(n)) <= Cardinality(After(m))
  <2>1. counts \in SUBSET Nat /\ counts # {}
    BY <1>2
  <2>2. PICK k \in counts : \A l \in counts : k <= l
    <3> HIDE DEF counts
    <3> QED BY <2>1, LeastNumber
  <2> QED BY <2>2
<1>4. \A m \in S : ~(m > n)
  <2> SUFFICES ASSUME NEW m \in S, m > n
               PROVE  FALSE
    OBVIOUS
  <2>0. m > n
    OBVIOUS
  <2>1. After(m) \subseteq After(n) /\ m \in After(n) /\ m \notin After(m)
    <3>1. m \in Nat /\ n \in Nat /\ \A k \in S : k \in Nat
      BY <1>1
    <3>2. \A k \in S : k > m => k > n
      BY <3>1
    <3>3. m > n /\ ~(m > m)
      BY <2>0, <3>1
    <3> QED BY <3>2, <3>3, Zenon
  <2>2. Cardinality(After(m)) < Cardinality(After(n))
    <3> HIDE DEF After
    <3>1. After(m) # After(n)
      BY <2>1
    <3> QED BY <1>2, <2>1, <3>1, FS_Subset
  <2>3. Cardinality(After(n)) <= Cardinality(After(m))
    BY <1>3
  <2> HIDE DEF After
  <2> QED BY <1>2, <2>2, <2>3
<1>5. \A m \in S : n >= m
  BY <1>1, <1>4
<1> QED BY <1>5 DEF Max

\* The device objects of the library.
DeviceObjects == [inc : 0 .. MaxPlugs, streams : SUBSET Streams, open : SUBSET Streams,
                  on : SUBSET Streams]

\* A queue of one place is as it was, or holds what came last.
LEMMA EnqueuedOne ==
    ASSUME NEW S, NEW q \in [items : Seq(S), accepting : BOOLEAN], NEW x \in S,
           Len(q.items) <= 1
    PROVE  /\ Enqueued(q, 1, x) \in [items : Seq(S), accepting : BOOLEAN]
           /\ \/ Enqueued(q, 1, x) = q
              \/ Len(Enqueued(q, 1, x).items) = 1 /\ Enqueued(q, 1, x).items[1] = x
<1> DEFINE t == IF Len(q.items) < 1 THEN q.items ELSE Tail(q.items)
<1>1. q.items \in Seq(S) /\ Len(q.items) \in Nat
  BY LenProperties
<1>2. t \in Seq(S) /\ Len(t) = 0
  <2>1. CASE Len(q.items) < 1
    BY <1>1, <2>1
  <2>2. CASE ~(Len(q.items) < 1)
    <3>1. q.items # <<>> /\ Len(q.items) = 1
      BY <1>1, <2>2, EmptySeq
    <3>2. Tail(q.items) \in Seq(S) /\ Len(Tail(q.items)) = 0
      BY <1>1, <3>1, HeadTailProperties
    <3> QED BY <2>2, <3>2
  <2> QED BY <2>1, <2>2
<1>3. CASE ~q.accepting
  BY <1>3 DEF Enqueued
<1>4. CASE q.accepting
  <2>1. Enqueued(q, 1, x) = [q EXCEPT !.items = Append(t, x)]
    BY <1>4 DEF Enqueued, HasRoom
  <2> HIDE DEF t
  <2>2. Append(t, x) \in Seq(S) /\ Len(Append(t, x)) = 1 /\ Append(t, x)[1] = x
    <3>1. /\ Append(t, x) \in Seq(S) /\ Len(Append(t, x)) = Len(t) + 1
          /\ Append(t, x)[Len(t) + 1] = x
      BY <1>2, AppendProperties
    <3> QED BY <1>2, <3>1
  <2> QED BY <2>1, <2>2
<1> QED BY <1>3, <1>4
-----------------------------------------------------------------------------
(* The device objects.                                                     *)

\* The device objects are there with their types.
LEMMA ObjectTypes ==
    ASSUME PipelineTypeOK
    PROVE  /\ dev \in Seq(DeviceObjects) /\ DOMAIN dev = 1 .. Len(dev) /\ Len(dev) \in Nat
           /\ \A d \in DOMAIN dev : dev[d] \in DeviceObjects
<1>1. dev \in Seq(DeviceObjects)
  BY DEF PipelineTypeOK, DeviceObjects
<1> QED BY <1>1, LenProperties, ElementOfSeq

\* The objects are those there were; their sensors may have changed.
SameObjects ==
    /\ dev' \in Seq(DeviceObjects) /\ Len(dev') = Len(dev) /\ DOMAIN dev' = DOMAIN dev
    /\ \A d \in DOMAIN dev : /\ dev'[d].inc = dev[d].inc /\ dev'[d].streams = dev[d].streams
                             /\ dev[d].on \subseteq dev[d].streams =>
                                   dev'[d].on \subseteq dev'[d].streams

\* One object of which the sensors change leaves the objects as they were.
LEMMA ObjectChange ==
    ASSUME PipelineTypeOK, NEW d \in DOMAIN dev, NEW r \in DeviceObjects,
           r.inc = dev[d].inc, r.streams = dev[d].streams,
           dev[d].on \subseteq dev[d].streams => r.on \subseteq r.streams,
           dev' = [dev EXCEPT ![d] = r]
    PROVE  SameObjects /\ \A e \in DOMAIN dev : dev'[e] = IF e = d THEN r ELSE dev[e]
<1>1. dev \in Seq(DeviceObjects) /\ DOMAIN dev = 1 .. Len(dev)
  BY ObjectTypes
<1>2. /\ dev' \in Seq(DeviceObjects) /\ Len(dev') = Len(dev)
      /\ \A e \in 1 .. Len(dev) : dev'[e] = IF e = d THEN r ELSE dev[e]
  BY <1>1, ExceptSeq
<1>3. DOMAIN dev' = 1 .. Len(dev')
  BY <1>2, LenProperties
<1> QED BY <1>1, <1>2, <1>3 DEF SameObjects

\* What open, start, stop and close of a sensor do to the objects.
LEMMA SensorChange ==
    ASSUME PipelineTypeOK, NEW d \in DOMAIN dev, NEW s \in dev[d].streams
    PROVE  /\ dev' = Opened(d, s) =>
                 /\ SameObjects /\ \A e \in DOMAIN dev : e # d => dev'[e] = dev[e]
                 /\ dev'[d].on = dev[d].on /\ dev'[d].open = dev[d].open \cup {s}
           /\ dev' = On(d, s) =>
                 /\ SameObjects /\ \A e \in DOMAIN dev : e # d => dev'[e] = dev[e]
                 /\ dev'[d].on = dev[d].on \cup {s} /\ dev'[d].open = dev[d].open
           /\ dev' = Off(d, s) =>
                 /\ SameObjects /\ \A e \in DOMAIN dev : e # d => dev'[e] = dev[e]
                 /\ dev'[d].on = dev[d].on \ {s} /\ dev'[d].open = dev[d].open
           /\ dev' = Closed(d, s) =>
                 /\ SameObjects /\ \A e \in DOMAIN dev : e # d => dev'[e] = dev[e]
                 /\ dev'[d].on = dev[d].on
<1>1. dev[d] \in DeviceObjects /\ s \in Streams
  BY ObjectTypes DEF DeviceObjects
<1>2. ASSUME dev' = Opened(d, s)
      PROVE  /\ SameObjects /\ \A e \in DOMAIN dev : e # d => dev'[e] = dev[e]
             /\ dev'[d].on = dev[d].on /\ dev'[d].open = dev[d].open \cup {s}
  <2> DEFINE r == [dev[d] EXCEPT !.open = dev[d].open \cup {s}]
  <2>1. /\ r \in DeviceObjects /\ r.inc = dev[d].inc /\ r.streams = dev[d].streams
        /\ r.on = dev[d].on /\ r.open = dev[d].open \cup {s}
    BY <1>1 DEF DeviceObjects
  <2>2. dev' = [dev EXCEPT ![d] = r]
    BY <1>2 DEF Opened
  <2> HIDE DEF r
  <2>3. SameObjects /\ \A e \in DOMAIN dev : dev'[e] = IF e = d THEN r ELSE dev[e]
    BY <2>1, <2>2, ObjectChange
  <2> QED BY <2>1, <2>3
<1>3. ASSUME dev' = On(d, s)
      PROVE  /\ SameObjects /\ \A e \in DOMAIN dev : e # d => dev'[e] = dev[e]
             /\ dev'[d].on = dev[d].on \cup {s} /\ dev'[d].open = dev[d].open
  <2> DEFINE r == [dev[d] EXCEPT !.on = dev[d].on \cup {s}]
  <2>1. /\ r \in DeviceObjects /\ r.inc = dev[d].inc /\ r.streams = dev[d].streams
        /\ r.on = dev[d].on \cup {s} /\ r.open = dev[d].open
    BY <1>1 DEF DeviceObjects
  <2>2. dev' = [dev EXCEPT ![d] = r]
    BY <1>3 DEF On
  <2> HIDE DEF r
  <2>3. SameObjects /\ \A e \in DOMAIN dev : dev'[e] = IF e = d THEN r ELSE dev[e]
    BY <2>1, <2>2, ObjectChange
  <2> QED BY <2>1, <2>3
<1>4. ASSUME dev' = Off(d, s)
      PROVE  /\ SameObjects /\ \A e \in DOMAIN dev : e # d => dev'[e] = dev[e]
             /\ dev'[d].on = dev[d].on \ {s} /\ dev'[d].open = dev[d].open
  <2> DEFINE r == [dev[d] EXCEPT !.on = dev[d].on \ {s}]
  <2>1. /\ r \in DeviceObjects /\ r.inc = dev[d].inc /\ r.streams = dev[d].streams
        /\ r.on = dev[d].on \ {s} /\ r.open = dev[d].open
    BY <1>1 DEF DeviceObjects
  <2>2. dev' = [dev EXCEPT ![d] = r]
    BY <1>4 DEF Off
  <2> HIDE DEF r
  <2>3. SameObjects /\ \A e \in DOMAIN dev : dev'[e] = IF e = d THEN r ELSE dev[e]
    BY <2>1, <2>2, ObjectChange
  <2> QED BY <2>1, <2>3
<1>5. ASSUME dev' = Closed(d, s)
      PROVE  /\ SameObjects /\ \A e \in DOMAIN dev : e # d => dev'[e] = dev[e]
             /\ dev'[d].on = dev[d].on
  <2> DEFINE r == [dev[d] EXCEPT !.open = dev[d].open \ {s}]
  <2>1. /\ r \in DeviceObjects /\ r.inc = dev[d].inc /\ r.streams = dev[d].streams
        /\ r.on = dev[d].on
    BY <1>1 DEF DeviceObjects
  <2>2. dev' = [dev EXCEPT ![d] = r]
    BY <1>5 DEF Closed
  <2> HIDE DEF r
  <2>3. SameObjects /\ \A e \in DOMAIN dev : dev'[e] = IF e = d THEN r ELSE dev[e]
    BY <2>1, <2>2, ObjectChange
  <2> QED BY <2>1, <2>3
<1> QED BY <1>2, <1>3, <1>4, <1>5

\* An object whose sensors all stop, because it is destroyed or its file ends.
LEMMA ObjectStops ==
    ASSUME PipelineTypeOK, NEW d \in DOMAIN dev, Destroyed(d) \/ EndOfFile(d)
    PROVE  /\ SameObjects /\ \A e \in DOMAIN dev : e # d => dev'[e] = dev[e]
           /\ dev'[d].on = {}
<1>1. dev[d] \in DeviceObjects
  BY ObjectTypes
<1>2. ASSUME NEW r \in DeviceObjects, r.inc = dev[d].inc, r.streams = dev[d].streams,
             r.on = {}, dev' = [dev EXCEPT ![d] = r]
      PROVE  /\ SameObjects /\ \A e \in DOMAIN dev : e # d => dev'[e] = dev[e]
             /\ dev'[d].on = {}
  <2>1. SameObjects /\ \A e \in DOMAIN dev : dev'[e] = IF e = d THEN r ELSE dev[e]
    BY <1>2, ObjectChange
  <2> QED BY <1>2, <2>1
<1>3. CASE Destroyed(d)
  <2> DEFINE r == [dev[d] EXCEPT !.open = {}, !.on = {}]
  <2>1. r \in DeviceObjects /\ r.inc = dev[d].inc /\ r.streams = dev[d].streams /\ r.on = {}
    BY <1>1 DEF DeviceObjects
  <2>2. dev' = [dev EXCEPT ![d] = r]
    BY <1>3 DEF Destroyed
  <2> HIDE DEF r
  <2> QED BY <1>2, <2>1, <2>2
<1>4. CASE EndOfFile(d)
  <2> DEFINE r == [dev[d] EXCEPT !.on = {}]
  <2>1. r \in DeviceObjects /\ r.inc = dev[d].inc /\ r.streams = dev[d].streams /\ r.on = {}
    BY <1>1 DEF DeviceObjects
  <2>2. dev' = [dev EXCEPT ![d] = r]
    BY <1>4 DEF EndOfFile
  <2> HIDE DEF r
  <2> QED BY <1>2, <2>1, <2>2
<1> QED BY <1>3, <1>4
\* The sensors a call and a repeat have left are of their device object.
LEMMA SensorsLeft ==
    ASSUME ShapeInv
    PROVE  /\ call.at \in {"open", "start", "stop", "close"} =>
                 /\ call.dev \in DOMAIN dev
                 /\ \A s \in {Min(call.todo), Max(call.todo)} :
                       s \in call.todo /\ s \in dev[call.dev].streams
           /\ item.at \in {"open", "start"} =>
                 /\ item.dev \in DOMAIN dev
                 /\ \A s \in {Min(item.todo), Max(item.todo)} :
                       s \in item.todo /\ s \in dev[item.dev].streams
<1>1. DOMAIN dev = 1 .. Len(dev) /\ Len(dev) \in Nat
  BY ObjectTypes DEF ShapeInv
<1>2. /\ call.dev \in 0 .. Len(dev) /\ call.todo \in SUBSET Streams
      /\ item.dev \in 0 .. Len(dev) /\ item.todo \in SUBSET Streams
  BY DEF ShapeInv, PipelineTypeOK
<1>3. ASSUME call.at \in {"open", "start", "stop", "close"}
      PROVE  /\ call.dev \in DOMAIN dev
             /\ \A s \in {Min(call.todo), Max(call.todo)} :
                   s \in call.todo /\ s \in dev[call.dev].streams
  <2>1. call.dev # 0 /\ call.todo # {} /\ call.todo \subseteq dev[call.dev].streams
    BY <1>3 DEF ShapeInv, CallInv, Launching, Stopping
  <2>2. Min(call.todo) \in call.todo /\ Max(call.todo) \in call.todo
    BY <1>2, <2>1, MinIsLeft, MaxIsLeft
  <2>3. call.dev \in DOMAIN dev
    BY <1>1, <1>2, <2>1
  <2> QED BY <2>1, <2>2, <2>3
<1>4. ASSUME item.at \in {"open", "start"}
      PROVE  /\ item.dev \in DOMAIN dev
             /\ \A s \in {Min(item.todo), Max(item.todo)} :
                   s \in item.todo /\ s \in dev[item.dev].streams
  <2>1. item.dev # 0 /\ item.todo # {} /\ item.todo \subseteq dev[item.dev].streams
    BY <1>4 DEF ShapeInv, ItemInv
  <2>2. Min(item.todo) \in item.todo /\ Max(item.todo) \in item.todo
    BY <1>2, <2>1, MinIsLeft, MaxIsLeft
  <2>3. item.dev \in DOMAIN dev
    BY <1>1, <1>2, <2>1
  <2> QED BY <2>1, <2>2, <2>3
<1> QED BY <1>3, <1>4

\* The steps that change device objects.
LEMMA ObjectSteps ==
    ASSUME [PipelineNext]_pipelineVars
    PROVE  \/ UNCHANGED dev
           \/ Resolve \/ OpenSensor \/ StartSensor \/ StopSensor \/ CloseSensor
           \/ ReopenSensor \/ RestartSensor
           \/ \E d \in DOMAIN dev : Destroyed(d) \/ EndOfFile(d)
<1>1. CASE UNCHANGED pipelineVars
  BY <1>1 DEF pipelineVars, device
<1>2. CASE CallStep
  BY <1>2 DEF CallStep, device, ResolveFails, OnStart, SensorThrows, SetActive, SetConf, Halt,
              StopThrows, StopDispatcher, Reset, ResetConf, WaitTimesOut, Dequeue
<1>3. CASE Configure \/ StartCall \/ StopCall \/ WaitCall \/ Dequeue \/ Unplug \/ PlugIn
           \/ InvokeRepeat \/ TakeItem \/ ReadActive \/ ReadConf
  BY <1>3 DEF device, Configure, StartCall, StopCall, WaitCall, Dequeue, Unplug, PlugIn,
              InvokeRepeat, TakeItem, ReadActive, ReadConf
<1>4. CASE \E d \in DOMAIN dev : \E set \in (SUBSET dev[d].on) \ {{}} : Deliver(d, set)
  BY <1>4 DEF device, Deliver
<1> QED BY <1>1, <1>2, <1>3, <1>4 DEF PipelineNext, ItemRuns

\* A resolved profile comes with a new device object, or an old one is used.
LEMMA ObjectResolved ==
    ASSUME ShapeInv, Resolve
    PROVE  \/ call.conf.cached # 0 /\ UNCHANGED dev
           \/ /\ call.conf.cached = 0 /\ plugged # 0
              /\ dev' \in Seq(DeviceObjects) /\ Len(dev') = Len(dev) + 1
              /\ DOMAIN dev' = 1 .. Len(dev) + 1 /\ Len(dev) \in Nat
              /\ \A d \in DOMAIN dev : dev'[d] = dev[d]
              /\ dev'[Len(dev) + 1] = [inc |-> plugged, streams |-> Resolved(call.conf),
                                       open |-> {}, on |-> {}]
<1>1. /\ dev \in Seq(DeviceObjects) /\ DOMAIN dev = 1 .. Len(dev) /\ Len(dev) \in Nat
      /\ call.conf \in Configs /\ plugged \in 0 .. MaxPlugs
  <2>1. PipelineTypeOK
    BY DEF ShapeInv
  <2>2. call.conf \in Configs
    BY <2>1 DEF PipelineTypeOK
  <2>3. plugged \in 0 .. MaxPlugs
    <3>1. plugs \in 0 .. MaxPlugs /\ plugged \in {0, plugs} /\ MaxPlugs \in Nat
      BY <2>1, PipelineAssumption DEF PipelineTypeOK
    <3> QED BY <3>1
  <2> QED BY <2>1, <2>2, <2>3, ObjectTypes
<1>2. CASE call.conf.cached # 0
  BY <1>2 DEF Resolve
<1>3. CASE call.conf.cached = 0
  <2> DEFINE r == [inc |-> plugged, streams |-> Resolved(call.conf), open |-> {}, on |-> {}]
  <2>1. dev' = Append(dev, r) /\ plugged # 0
    <3>1. IsFile => plugged = 1
      BY DEF ShapeInv, DevInv, IsFile
    <3> QED BY <1>3, <3>1 DEF Resolve
  <2>2. r \in DeviceObjects
    BY <1>1 DEF DeviceObjects, Resolved, Configs
  <2> HIDE DEF r
  <2>3. /\ dev' \in Seq(DeviceObjects) /\ Len(dev') = Len(dev) + 1
        /\ \A d \in 1 .. Len(dev) : dev'[d] = dev[d]
        /\ dev'[Len(dev) + 1] = r
    BY <1>1, <2>1, <2>2, AppendProperties
  <2>4. DOMAIN dev' = 1 .. Len(dev')
    BY <2>3, LenProperties
  <2> QED BY <1>1, <1>3, <2>1, <2>3, <2>4 DEF r
<1> QED BY <1>2, <1>3

\* Every other step leaves the objects as they were.
LEMMA ObjectsStay ==
    ASSUME ShapeInv, [PipelineNext]_pipelineVars, ~Resolve
    PROVE  SameObjects
<1>1. PipelineTypeOK
  BY DEF ShapeInv
<1>2. CASE UNCHANGED dev
  BY <1>1, <1>2, ObjectTypes DEF SameObjects
<1>3. CASE OpenSensor
  <2>1. call.at = "open" /\ dev' = Opened(call.dev, Max(call.todo))
    BY <1>3 DEF OpenSensor
  <2> QED BY <1>1, <2>1, SensorsLeft, SensorChange
<1>4. CASE StartSensor
  <2>1. call.at = "start" /\ dev' = On(call.dev, Min(call.todo))
    BY <1>4 DEF StartSensor
  <2> QED BY <1>1, <2>1, SensorsLeft, SensorChange
<1>5. CASE StopSensor
  <2>1. call.at = "stop" /\ dev' = Off(call.dev, Min(call.todo))
    BY <1>5 DEF StopSensor
  <2> QED BY <1>1, <2>1, SensorsLeft, SensorChange
<1>6. CASE CloseSensor
  <2>1. call.at = "close" /\ dev' = Closed(call.dev, Min(call.todo))
    BY <1>6 DEF CloseSensor
  <2> QED BY <1>1, <2>1, SensorsLeft, SensorChange
<1>7. CASE ReopenSensor
  <2>1. item.at = "open" /\ dev' = Opened(item.dev, Max(item.todo))
    BY <1>7 DEF ReopenSensor, ItemStep
  <2> QED BY <1>1, <2>1, SensorsLeft, SensorChange
<1>8. CASE RestartSensor
  <2>1. item.at = "start" /\ dev' = On(item.dev, Min(item.todo))
    BY <1>8 DEF RestartSensor, ItemStep
  <2> QED BY <1>1, <2>1, SensorsLeft, SensorChange
<1>9. CASE \E d \in DOMAIN dev : Destroyed(d) \/ EndOfFile(d)
  BY <1>1, <1>9, ObjectStops
<1> QED BY <1>2, <1>3, <1>4, <1>5, <1>6, <1>7, <1>8, <1>9, ObjectSteps

\* The camera and the cable: what a step does to them.
LEMMA CableSteps ==
    ASSUME [PipelineNext]_pipelineVars
    PROVE  /\ kind' = kind
           /\ \/ UNCHANGED <<plugged, plugs>>
              \/ Unplug /\ plugged' = 0 /\ plugs' = plugs
              \/ PlugIn /\ plugs' = plugs + 1 /\ plugged' = plugs + 1
<1>1. CASE UNCHANGED pipelineVars
  BY <1>1 DEF pipelineVars, device
<1>2. CASE CallStep
  BY <1>2 DEF CallStep, device, Resolve, ResolveFails, OnStart, OpenSensor, StartSensor,
              SensorThrows, SetActive, SetConf, Halt, StopSensor, CloseSensor, StopThrows,
              StopDispatcher, Reset, ResetConf, WaitTimesOut, Dequeue
<1>3. CASE Configure \/ StartCall \/ StopCall \/ WaitCall \/ Dequeue \/ Unplug \/ PlugIn
           \/ InvokeRepeat \/ TakeItem \/ ItemRuns
  BY <1>3 DEF device, Configure, StartCall, StopCall, WaitCall, Dequeue, Unplug, PlugIn,
              InvokeRepeat, TakeItem, ItemRuns, ReadActive, ReadConf, ReopenSensor, RestartSensor
<1>4. CASE \E d \in DOMAIN dev : \/ Destroyed(d) \/ EndOfFile(d)
                                 \/ \E set \in (SUBSET dev[d].on) \ {{}} : Deliver(d, set)
  BY <1>4 DEF device, Deliver, Destroyed, EndOfFile
<1> QED BY <1>1, <1>2, <1>3, <1>4 DEF PipelineNext

\* Where the counts of plugging in are.
LEMMA PlugTypes ==
    ASSUME PipelineTypeOK
    PROVE  /\ plugs \in Nat /\ plugs <= MaxPlugs /\ MaxPlugs \in Nat
           /\ plugged \in {0, plugs} /\ plugged \in Nat
<1>1. plugs \in 0 .. MaxPlugs /\ plugged \in {0, plugs} /\ MaxPlugs \in Nat
  BY PipelineAssumption DEF PipelineTypeOK
<1> QED BY <1>1

\* Streams are on only of an object's profile, and objects come in the order of
\* their cameras.
LEMMA DevInvStep ==
    ASSUME ShapeInv, [PipelineNext]_pipelineVars
    PROVE  DevInv'
<1>1. PipelineTypeOK /\ DevInv
  BY DEF ShapeInv
<1>2. /\ DOMAIN dev = 1 .. Len(dev) /\ Len(dev) \in Nat
      /\ \A d \in DOMAIN dev : dev[d] \in DeviceObjects
  BY <1>1, ObjectTypes
<1>3. plugs' \in Nat /\ plugs' >= plugs /\ plugs' >= 1 /\ plugs \in Nat
      /\ (plugged' = 0 => plugs' < MaxPlugs) /\ (kind' # "camera" => plugged' = 1)
  <2>1. CASE UNCHANGED <<plugged, plugs>>
    BY <1>1, <2>1, PlugTypes, CableSteps DEF DevInv
  <2>2. CASE Unplug /\ plugged' = 0 /\ plugs' = plugs
    BY <1>1, <2>2, PlugTypes, CableSteps DEF DevInv, Unplug
  <2>3. CASE PlugIn /\ plugs' = plugs + 1 /\ plugged' = plugs + 1
    BY <1>1, <2>3, PlugTypes, CableSteps DEF DevInv, PlugIn
  <2> QED BY <2>1, <2>2, <2>3, CableSteps
<1>4. CASE SameObjects
  <2>1. \A d \in DOMAIN dev' : /\ dev'[d].inc \in 1 .. plugs'
                               /\ dev'[d].on \subseteq dev'[d].streams
    <3> SUFFICES ASSUME NEW d \in DOMAIN dev
                 PROVE  dev'[d].inc \in 1 .. plugs' /\ dev'[d].on \subseteq dev'[d].streams
      BY <1>4 DEF SameObjects
    <3>1. dev[d].inc \in 1 .. plugs /\ dev[d].on \subseteq dev[d].streams
      BY <1>1 DEF DevInv
    <3>2. dev'[d].inc = dev[d].inc /\ dev'[d].on \subseteq dev'[d].streams
      BY <1>4, <3>1 DEF SameObjects
    <3> QED BY <1>3, <3>1, <3>2
  <2>2. \A d, e \in DOMAIN dev' : d <= e => dev'[d].inc <= dev'[e].inc
    BY <1>1, <1>4 DEF SameObjects, DevInv
  <2> QED BY <1>3, <2>1, <2>2 DEF DevInv
<1>5. CASE Resolve
  <2>1. CASE UNCHANGED dev
    <3>1. SameObjects
      BY <1>1, <2>1, ObjectTypes DEF SameObjects
    <3> QED BY <1>4, <3>1
  <2>2. CASE ~UNCHANGED dev
    <3>1. /\ plugged # 0 /\ DOMAIN dev' = 1 .. Len(dev) + 1
          /\ \A d \in DOMAIN dev : dev'[d] = dev[d]
          /\ dev'[Len(dev) + 1] = [inc |-> plugged, streams |-> Resolved(call.conf),
                                   open |-> {}, on |-> {}]
      BY <1>5, <2>2, ObjectResolved
    <3>2. plugs' = plugs /\ plugged = plugs /\ plugs >= 1
      <4>1. plugs' = plugs
        BY <1>5 DEF Resolve
      <4> QED BY <1>1, <3>1, <4>1, PlugTypes DEF DevInv
    <3>3. dev'[Len(dev) + 1].inc = plugs /\ dev'[Len(dev) + 1].on = {}
      BY <3>1, <3>2
    <3>4. \A d \in DOMAIN dev : /\ dev'[d].inc \in 1 .. plugs
                                /\ dev'[d].on \subseteq dev'[d].streams
      BY <1>1, <3>1 DEF DevInv
    <3>5. \A d \in DOMAIN dev' : d \in DOMAIN dev \/ d = Len(dev) + 1
      BY <1>2, <3>1
    <3>6. \A d \in DOMAIN dev' : /\ dev'[d].inc \in 1 .. plugs'
                                 /\ dev'[d].on \subseteq dev'[d].streams
      <4>1. plugs \in 1 .. plugs
        BY <1>3, <3>2
      <4> QED BY <3>2, <3>3, <3>4, <3>5, <4>1
    <3>7. \A d, e \in DOMAIN dev' : d <= e => dev'[d].inc <= dev'[e].inc
      <4> SUFFICES ASSUME NEW d \in DOMAIN dev', NEW e \in DOMAIN dev', d <= e
                   PROVE  dev'[d].inc <= dev'[e].inc
        OBVIOUS
      <4>1. CASE e = Len(dev) + 1
        <5>1. dev'[e].inc = plugs /\ dev'[d].inc \in 1 .. plugs
          BY <3>2, <3>3, <3>6, <4>1
        <5> QED BY <5>1
      <4>2. CASE e # Len(dev) + 1
        <5>1. e \in DOMAIN dev /\ d \in DOMAIN dev
          <6>1. e \in 1 .. Len(dev) + 1 /\ d \in 1 .. Len(dev) + 1
            BY <3>1
          <6> QED BY <1>2, <4>2, <6>1
        <5> QED BY <1>1, <3>1, <5>1 DEF DevInv
      <4> QED BY <4>1, <4>2
    <3> QED BY <1>3, <3>6, <3>7 DEF DevInv
  <2> QED BY <2>1, <2>2
<1> QED BY <1>4, <1>5, ObjectsStay

\* A camera that is gone does not come back as the same device object.
LEMMA GoneStays ==
    ASSUME ShapeInv, [PipelineNext]_pipelineVars, NEW d \in DOMAIN dev
    PROVE  /\ d \in DOMAIN dev' /\ dev'[d].inc = dev[d].inc
           /\ dev'[d].streams = dev[d].streams
           /\ Gone(d) => Gone(d)'
           /\ UNCHANGED plugged => Gone(d)' = Gone(d)
<1>1. PipelineTypeOK /\ DevInv
  BY DEF ShapeInv
<1>2. DOMAIN dev = 1 .. Len(dev) /\ Len(dev) \in Nat
  BY <1>1, ObjectTypes
<1>3. d \in DOMAIN dev' /\ dev'[d].inc = dev[d].inc /\ dev'[d].streams = dev[d].streams
  <2>1. CASE SameObjects
    BY <2>1 DEF SameObjects
  <2>2. CASE Resolve
    BY <1>2, <2>2, ObjectResolved
  <2> QED BY <2>1, <2>2, ObjectsStay
<1>4. Gone(d) => Gone(d)'
  <2> SUFFICES ASSUME kind = "camera", dev[d].inc # plugged
               PROVE  kind' = "camera" /\ dev'[d].inc # plugged'
    BY DEF Gone
  <2>1. dev[d].inc \in 1 .. plugs
    BY <1>1 DEF DevInv
  <2> QED BY <1>1, <1>3, <2>1, PlugTypes, CableSteps
<1>5. UNCHANGED plugged => Gone(d)' = Gone(d)
  BY <1>3, CableSteps DEF Gone
<1> QED BY <1>3, <1>4, <1>5

-----------------------------------------------------------------------------
(* The calls.                                                              *)

\* The calls there can be next to n device objects.
CallRecords(n) ==
    [op : {"none", "start", "stop", "wait"}, at : CallPlaces, dev : 0 .. n,
     lost : 0 .. n, todo : SUBSET Streams, conf : Configs]

\* A call goes to a place and stays what it is.
Goes(place) ==
    /\ call'.at = place /\ call'.op = call.op /\ call'.dev = call.dev
    /\ call'.lost = call.lost /\ call'.conf = call.conf

\* The fields of a call and what it refers to.
LEMMA CallTypes ==
    ASSUME PipelineTypeOK
    PROVE  /\ call \in CallRecords(Len(dev)) /\ Len(dev) \in Nat
           /\ DOMAIN dev = 1 .. Len(dev)
           /\ call.dev \in Nat /\ call.dev <= Len(dev) /\ call.lost \in Nat
           /\ call.lost <= Len(dev) /\ call.todo \in SUBSET Streams
           /\ call.conf \in Configs /\ active \in Nat /\ active <= Len(dev)
           /\ call.dev # 0 => call.dev \in DOMAIN dev
           /\ call.lost # 0 => call.lost \in DOMAIN dev
           /\ active # 0 => active \in DOMAIN dev
           /\ user_conf \in Configs
           /\ \A d \in DOMAIN dev : dev[d].streams \in SUBSET Streams
<1>1. Len(dev) \in Nat /\ DOMAIN dev = 1 .. Len(dev)
      /\ \A d \in DOMAIN dev : dev[d] \in DeviceObjects
  BY ObjectTypes
<1>2. call \in CallRecords(Len(dev)) /\ active \in 0 .. Len(dev) /\ user_conf \in Configs
  BY DEF PipelineTypeOK, CallRecords
<1>3. /\ call.dev \in 0 .. Len(dev) /\ call.lost \in 0 .. Len(dev)
      /\ call.todo \in SUBSET Streams /\ call.conf \in Configs
  BY <1>2 DEF CallRecords
<1>4. \A d \in DOMAIN dev : dev[d].streams \in SUBSET Streams
  BY <1>1 DEF DeviceObjects
<1> QED BY <1>1, <1>2, <1>3, <1>4

\* A sensor of several, or the last.
LEMMA DoneIs ==
    ASSUME NEW n, call \in CallRecords(n), NEW s \in call.todo, NEW place \in CallPlaces,
           NEW todo \in SUBSET Streams, Done(s, place, todo)
    PROVE  /\ call' \in CallRecords(n)
           /\ \/ call.todo = {s} /\ Goes(place) /\ call'.todo = todo
              \/ Goes(call.at) /\ call'.todo = call.todo \ {s} /\ call'.todo # {}
<1>1. CASE call.todo = {s}
  <2>1. call' = [call EXCEPT !.at = place, !.todo = todo]
    BY <1>1 DEF Done
  <2> QED BY <1>1, <2>1 DEF CallRecords, Goes
<1>2. CASE call.todo # {s}
  <2>1. call' = [call EXCEPT !.todo = call.todo \ {s}]
    BY <1>2 DEF Done
  <2>2. call.todo \ {s} # {}
    BY <1>2
  <2>3. Goes(call.at) /\ call'.todo = call.todo \ {s}
    BY <2>1 DEF CallRecords, Goes
  <2>4. call' \in CallRecords(n)
    BY <2>1 DEF CallRecords
  <2> QED BY <2>2, <2>3, <2>4
<1> QED BY <1>1, <1>2

\* No call is a call.
LEMMA NoCallIs ==
    ASSUME NEW n \in Nat
    PROVE  /\ NoCall \in CallRecords(n)
           /\ NoCall.op = "none" /\ NoCall.at = "none" /\ NoCall.dev = 0
           /\ NoCall.lost = 0 /\ NoCall.todo = {} /\ NoCall.conf.cached = 0
<1>1. NoCall.conf \in Configs
  BY DEF NoCall, Configs
<1> QED BY <1>1 DEF NoCall, CallRecords, CallPlaces

\* The steps of start(), up to the failure of a sensor: where they take the call.
LEMMA LaunchFields ==
    ASSUME ShapeInv
    PROVE  /\ StartCall =>
                 /\ call' \in CallRecords(Len(dev)) /\ call'.op = "start"
                 /\ call'.at = "resolve" /\ call'.conf = user_conf
           /\ OnStart =>
                 /\ call' \in CallRecords(Len(dev)) /\ Goes("open")
                 /\ call'.todo = dev[call.dev].streams
           /\ OpenSensor =>
                 /\ call' \in CallRecords(Len(dev))
                 /\ \/ /\ Goes("start") /\ call'.todo = dev[call.dev].streams
                       /\ call.todo = {Max(call.todo)}
                    \/ /\ Goes("open") /\ call'.todo = call.todo \ {Max(call.todo)}
                       /\ call'.todo # {}
           /\ StartSensor =>
                 /\ call' \in CallRecords(Len(dev))
                 /\ \/ Goes("set_active") /\ call.todo = {Min(call.todo)}
                    \/ /\ Goes("start") /\ call'.todo = call.todo \ {Min(call.todo)}
                       /\ call'.todo # {}
           /\ SetActive => call' \in CallRecords(Len(dev)) /\ Goes("set_conf")
           /\ SetConf =>
                 /\ call' \in CallRecords(Len(dev))
                 /\ call' = NoCall \/ (Goes("rewait") /\ call.op = "wait")
<1>1. /\ call \in CallRecords(Len(dev)) /\ Len(dev) \in Nat
      /\ call.dev # 0 => call.dev \in DOMAIN dev
      /\ user_conf \in Configs
      /\ \A d \in DOMAIN dev : dev[d].streams \in SUBSET Streams
  BY CallTypes DEF ShapeInv
<1>2. CallInv
  BY DEF ShapeInv
<1>3. StartCall =>
         /\ call' \in CallRecords(Len(dev)) /\ call'.op = "start"
         /\ call'.at = "resolve" /\ call'.conf = user_conf
  BY <1>1 DEF StartCall, NoCall, CallRecords, CallPlaces
<1>4. OnStart =>
         /\ call' \in CallRecords(Len(dev)) /\ Goes("open")
         /\ call'.todo = dev[call.dev].streams
  <2> SUFFICES ASSUME OnStart
               PROVE  /\ call' \in CallRecords(Len(dev)) /\ Goes("open")
                      /\ call'.todo = dev[call.dev].streams
    OBVIOUS
  <2>1. call.dev # 0
    BY <1>2 DEF OnStart, CallInv, Launching
  <2>2. dev[call.dev].streams \in SUBSET Streams
    BY <1>1, <2>1
  <2>3. call' = [call EXCEPT !.at = "open", !.todo = dev[call.dev].streams]
    BY DEF OnStart
  <2> QED BY <1>1, <2>2, <2>3 DEF CallRecords, CallPlaces, Goes
<1>5. OpenSensor =>
         /\ call' \in CallRecords(Len(dev))
         /\ \/ /\ Goes("start") /\ call'.todo = dev[call.dev].streams
               /\ call.todo = {Max(call.todo)}
            \/ /\ Goes("open") /\ call'.todo = call.todo \ {Max(call.todo)}
               /\ call'.todo # {}
  <2> SUFFICES ASSUME OpenSensor
               PROVE  /\ call' \in CallRecords(Len(dev))
                      /\ \/ /\ Goes("start") /\ call'.todo = dev[call.dev].streams
                            /\ call.todo = {Max(call.todo)}
                         \/ /\ Goes("open") /\ call'.todo = call.todo \ {Max(call.todo)}
                            /\ call'.todo # {}
    OBVIOUS
  <2>1. call.at = "open" /\ Done(Max(call.todo), "start", dev[call.dev].streams)
    BY DEF OpenSensor
  <2>2. Max(call.todo) \in call.todo /\ dev[call.dev].streams \in SUBSET Streams
    BY <1>1, <2>1, SensorsLeft
  <2>3. "start" \in CallPlaces
    BY DEF CallPlaces
  <2> QED BY <1>1, <2>1, <2>2, <2>3, DoneIs
<1>6. StartSensor =>
         /\ call' \in CallRecords(Len(dev))
         /\ \/ Goes("set_active") /\ call.todo = {Min(call.todo)}
            \/ /\ Goes("start") /\ call'.todo = call.todo \ {Min(call.todo)}
               /\ call'.todo # {}
  <2> SUFFICES ASSUME StartSensor
               PROVE  /\ call' \in CallRecords(Len(dev))
                      /\ \/ Goes("set_active") /\ call.todo = {Min(call.todo)}
                         \/ /\ Goes("start") /\ call'.todo = call.todo \ {Min(call.todo)}
                            /\ call'.todo # {}
    OBVIOUS
  <2>1. call.at = "start" /\ Done(Min(call.todo), "set_active", {})
    BY DEF StartSensor
  <2>2. Min(call.todo) \in call.todo /\ {} \in SUBSET Streams
    BY <2>1, SensorsLeft
  <2>3. "set_active" \in CallPlaces
    BY DEF CallPlaces
  <2> QED BY <1>1, <2>1, <2>2, <2>3, DoneIs
<1>7. SetActive => call' \in CallRecords(Len(dev)) /\ Goes("set_conf")
  BY <1>1 DEF SetActive, CallRecords, CallPlaces, Goes
<1>8. SetConf =>
         /\ call' \in CallRecords(Len(dev))
         /\ call' = NoCall \/ (Goes("rewait") /\ call.op = "wait")
  <2> SUFFICES ASSUME SetConf
               PROVE  /\ call' \in CallRecords(Len(dev))
                      /\ call' = NoCall \/ (Goes("rewait") /\ call.op = "wait")
    OBVIOUS
  <2>1. CASE call.op = "start"
    <3>1. call' = NoCall
      BY <2>1 DEF SetConf
    <3>2. NoCall \in CallRecords(Len(dev))
      BY <1>1, NoCallIs
    <3>3. call' \in CallRecords(Len(dev))
      BY <3>1, <3>2, Zenon
    <3> QED BY <3>1, <3>3, Zenon
  <2>2. CASE call.op # "start"
    <3>1. call' = [call EXCEPT !.at = "rewait"] /\ call.at = "set_conf"
      BY <2>2 DEF SetConf
    <3>2. call.op = "wait"
      <4>1. call.op # "none" /\ call.op # "stop"
        BY <1>2, <3>1 DEF CallInv, NoCall, Stopping
      <4>2. call.op \in {"none", "start", "stop", "wait"}
        BY <1>1 DEF CallRecords
      <4> QED BY <2>2, <4>1, <4>2
    <3> QED BY <1>1, <3>1, <3>2 DEF CallRecords, CallPlaces, Goes
  <2> QED BY <2>1, <2>2
<1> QED BY <1>3, <1>4, <1>5, <1>6, <1>7, <1>8

\* A call that resolves a profile is a start() or a reconnection.
LEMMA ResolveIs ==
    ASSUME ShapeInv, call.at = "resolve"
    PROVE  call.op = "start" \/ (call.op = "wait" /\ Reconnecting)
<1>1. call \in CallRecords(Len(dev)) /\ CallInv
  BY CallTypes DEF ShapeInv
<1>2. call.op \in {"none", "start", "stop", "wait"}
  BY <1>1 DEF CallRecords
<1>3. call.op # "none" /\ call.op # "stop"
  BY <1>1 DEF CallInv, NoCall, Stopping
<1> QED BY <1>2, <1>3 DEF Reconnecting

\* There is room for the object of a profile that has to be resolved: the start()
\* that needs it is counted, or the camera is another one than the last.
LEMMA ResolveCounts ==
    ASSUME ShapeInv, Resolve, call.conf.cached = 0
    PROVE  Len(dev) + 1 <= starts + plugged /\ Len(dev) + 1 \in Objects
<1>1. PipelineTypeOK /\ CountInv /\ DevInv /\ call.at = "resolve" /\ plugged # 0
  BY ObjectResolved DEF ShapeInv, Resolve, IsFile, DevInv
<1>2. Len(dev) \in Nat /\ DOMAIN dev = 1 .. Len(dev)
  BY <1>1, ObjectTypes
<1>3. plugged = plugs /\ plugs \in Nat /\ plugs <= MaxPlugs /\ MaxPlugs \in Nat
  BY <1>1, PlugTypes
<1>4. starts \in Nat /\ starts <= MaxStarts /\ MaxStarts \in Nat
  <2>1. starts \in 0 .. MaxStarts /\ MaxStarts \in Nat
    BY <1>1, PipelineAssumption DEF PipelineTypeOK
  <2> QED BY <2>1
<1>5. LastInc \in Nat /\ LastInc <= plugs
  <2>1. CASE dev = <<>>
    BY <1>3, <2>1 DEF LastInc
  <2>2. CASE dev # <<>>
    <3>1. Len(dev) \in DOMAIN dev
      BY <1>1, <1>2, <2>2, EmptySeq, ObjectTypes
    <3>2. dev[Len(dev)].inc \in 1 .. plugs
      BY <1>1, <3>1 DEF DevInv
    <3> QED BY <1>3, <2>2, <3>2 DEF LastInc
  <2> QED BY <2>1, <2>2
<1>6. Len(dev) + 1 <= starts + plugged
  <2>1. CASE call.op = "start"
    <3>1. Len(dev) + 1 <= starts + LastInc
      BY <1>1, <2>1 DEF CountInv
    <3> QED BY <1>2, <1>3, <1>4, <1>5, <3>1
  <2>2. CASE Reconnecting
    <3>1. call.lost = Len(dev) /\ Gone(call.lost) /\ call.lost # 0 /\ call.op = "wait"
      BY <2>2 DEF ShapeInv, CountInv, ConfInv, Reconnecting
    <3>2. LastInc # plugs
      BY <1>2, <1>3, <3>1, EmptySeq DEF LastInc, Gone
    <3>3. Len(dev) <= starts + LastInc
      BY <1>1, <3>1 DEF CountInv
    <3> QED BY <1>2, <1>3, <1>4, <1>5, <3>2, <3>3
  <2> QED BY <1>1, <2>1, <2>2, ResolveIs
<1>7. Len(dev) + 1 \in 1 .. MaxStarts + MaxPlugs
  BY <1>2, <1>3, <1>4, <1>6
<1> QED BY <1>6, <1>7 DEF Objects

\* A resolved profile is of the device object the call goes on with.
LEMMA ResolveFields ==
    ASSUME ShapeInv, Resolve
    PROVE  /\ call' \in CallRecords(Len(dev')) /\ Len(dev') \in Nat
           /\ call'.at = "on_start" /\ call'.op = call.op /\ call'.lost = call.lost
           /\ call'.conf = [call.conf EXCEPT !.cached = call'.dev]
           /\ call'.dev = IF call.conf.cached # 0 THEN call.conf.cached ELSE Len(dev) + 1
           /\ user_conf' = IF call.conf.cached # 0 \/ call.op # "start" THEN user_conf
                           ELSE [user_conf EXCEPT !.cached = Len(dev) + 1]
           /\ call.conf.cached # 0 => call.conf.cached \in DOMAIN dev
<1>1. /\ call \in CallRecords(Len(dev)) /\ Len(dev) \in Nat /\ call.conf \in Configs
      /\ DOMAIN dev = 1 .. Len(dev)
  BY CallTypes DEF ShapeInv
<1>2. call.conf.cached \in Objects \cup {0} /\ call.conf.cached <= Len(dev)
  BY <1>1 DEF Configs, ShapeInv, ConfInv
<1>3. call.conf.cached \in 0 .. Len(dev)
  BY <1>1, <1>2, PipelineAssumption DEF Objects
<1>4. CASE call.conf.cached # 0
  <2>1. call' = [call EXCEPT !.at = "on_start", !.dev = call.conf.cached]
        /\ UNCHANGED <<dev, user_conf>>
    BY <1>4 DEF Resolve
  <2>2. call'.conf = call.conf /\ call'.dev = call.conf.cached /\ call'.at = "on_start"
        /\ call'.op = call.op /\ call'.lost = call.lost /\ call' \in CallRecords(Len(dev))
    BY <1>1, <1>3, <2>1 DEF CallRecords, CallPlaces
  <2>3. call.conf = [call.conf EXCEPT !.cached = call.conf.cached]
    BY <1>1 DEF Configs
  <2>4. call.conf.cached \in DOMAIN dev
    BY <1>1, <1>3, <1>4
  <2> QED BY <1>1, <1>4, <2>1, <2>2, <2>3, <2>4
<1>5. CASE call.conf.cached = 0
  <2>1. Len(dev') = Len(dev) + 1
    <3>1. ~UNCHANGED dev
      <4>1. dev' = Append(dev, [inc |-> plugged, streams |-> Resolved(call.conf),
                                open |-> {}, on |-> {}])
        BY <1>5 DEF Resolve
      <4> QED BY <1>5, ObjectResolved
    <3> QED BY <1>5, ObjectResolved
  <2>2. call' = [call EXCEPT !.at = "on_start", !.dev = Len(dev) + 1,
                             !.conf = [call.conf EXCEPT !.cached = Len(dev) + 1]]
    BY <1>5, <2>1 DEF Resolve
  <2>3. user_conf' = IF call.op # "start" THEN user_conf
                     ELSE [user_conf EXCEPT !.cached = Len(dev) + 1]
    BY <1>5, <2>1 DEF Resolve
  <2>4. Len(dev) + 1 \in Objects
    BY <1>5, ResolveCounts
  <2>5. [call.conf EXCEPT !.cached = Len(dev) + 1] \in Configs
    BY <1>1, <2>4 DEF Configs
  <2>6. /\ call'.conf = [call.conf EXCEPT !.cached = Len(dev) + 1]
        /\ call'.dev = Len(dev) + 1 /\ call'.at = "on_start"
        /\ call'.op = call.op /\ call'.lost = call.lost
    BY <1>1, <2>2 DEF CallRecords
  <2>7. call' \in CallRecords(Len(dev) + 1)
    <3>1. Len(dev) + 1 \in 0 .. Len(dev) + 1 /\ call.lost \in 0 .. Len(dev) + 1
      BY <1>1, CallTypes DEF ShapeInv
    <3>2. "on_start" \in CallPlaces
      BY DEF CallPlaces
    <3> HIDE DEF CallPlaces
    <3> QED BY <1>1, <2>2, <2>5, <3>1, <3>2 DEF CallRecords
  <2>8. Len(dev) + 1 \in Nat
    BY <1>1
  <2> QED BY <1>5, <2>1, <2>3, <2>6, <2>7, <2>8
<1> QED BY <1>4, <1>5

\* The steps of stop(), and of a reconnection up to the new start.
LEMMA HaltFields ==
    ASSUME ShapeInv
    PROVE  /\ StopCall =>
                 /\ call' \in CallRecords(Len(dev)) /\ call'.op = "stop"
                 /\ call'.at = "halt"
           /\ Halt =>
                 /\ call' \in CallRecords(Len(dev)) /\ call'.at = "stop"
                 /\ call'.op = call.op /\ call'.lost = call.lost
                 /\ call'.conf = call.conf /\ call'.dev = active
                 /\ call'.todo = dev[active].streams
           /\ StopSensor =>
                 /\ call' \in CallRecords(Len(dev))
                 /\ \/ /\ Goes("close") /\ call'.todo = dev[call.dev].streams
                       /\ call.todo = {Min(call.todo)}
                    \/ /\ Goes("stop") /\ call'.todo = call.todo \ {Min(call.todo)}
                       /\ call'.todo # {}
           /\ CloseSensor =>
                 /\ call' \in CallRecords(Len(dev))
                 /\ \/ Goes("stop_dispatcher")
                    \/ /\ Goes("close") /\ call'.todo = call.todo \ {Min(call.todo)}
                       /\ call'.todo # {}
           /\ StopThrows \/ StopDispatcher =>
                 call' \in CallRecords(Len(dev)) /\ Goes("reset")
           /\ Reset => call' \in CallRecords(Len(dev)) /\ Goes("reset_conf")
           /\ ResetConf =>
                 /\ call' \in CallRecords(Len(dev))
                 /\ call' = NoCall \/ (Goes("resolve") /\ call.op = "wait")
<1>1. /\ call \in CallRecords(Len(dev)) /\ Len(dev) \in Nat
      /\ call.dev # 0 => call.dev \in DOMAIN dev
      /\ active \in 0 .. Len(dev)
      /\ active # 0 => active \in DOMAIN dev
      /\ \A d \in DOMAIN dev : dev[d].streams \in SUBSET Streams
  BY CallTypes DEF ShapeInv, PipelineTypeOK
<1>2. CallInv
  BY DEF ShapeInv
<1>3. StopCall =>
         call' \in CallRecords(Len(dev)) /\ call'.op = "stop" /\ call'.at = "halt"
  <2>1. NoCall \in CallRecords(Len(dev)) /\ "halt" \in CallPlaces
    BY <1>1, NoCallIs DEF CallPlaces
  <2> QED BY <2>1 DEF StopCall, CallRecords
<1>4. Halt =>
         /\ call' \in CallRecords(Len(dev)) /\ call'.at = "stop"
         /\ call'.op = call.op /\ call'.lost = call.lost
         /\ call'.conf = call.conf /\ call'.dev = active
         /\ call'.todo = dev[active].streams
  <2> SUFFICES ASSUME Halt
               PROVE  /\ call' \in CallRecords(Len(dev)) /\ call'.at = "stop"
                      /\ call'.op = call.op /\ call'.lost = call.lost
                      /\ call'.conf = call.conf /\ call'.dev = active
                      /\ call'.todo = dev[active].streams
    OBVIOUS
  <2>1. active # 0 /\ "stop" \in CallPlaces
    BY <1>2 DEF Halt, CallInv, CallPlaces
  <2>2. dev[active].streams \in SUBSET Streams
    BY <1>1, <2>1
  <2>3. call' = [call EXCEPT !.at = "stop", !.dev = active, !.todo = dev[active].streams]
    BY DEF Halt
  <2> QED BY <1>1, <2>1, <2>2, <2>3 DEF CallRecords
<1>5. StopSensor =>
         /\ call' \in CallRecords(Len(dev))
         /\ \/ /\ Goes("close") /\ call'.todo = dev[call.dev].streams
               /\ call.todo = {Min(call.todo)}
            \/ /\ Goes("stop") /\ call'.todo = call.todo \ {Min(call.todo)}
               /\ call'.todo # {}
  <2> SUFFICES ASSUME StopSensor
               PROVE  /\ call' \in CallRecords(Len(dev))
                      /\ \/ /\ Goes("close") /\ call'.todo = dev[call.dev].streams
                            /\ call.todo = {Min(call.todo)}
                         \/ /\ Goes("stop") /\ call'.todo = call.todo \ {Min(call.todo)}
                            /\ call'.todo # {}
    OBVIOUS
  <2>1. call.at = "stop" /\ Done(Min(call.todo), "close", dev[call.dev].streams)
    BY DEF StopSensor
  <2>2. Min(call.todo) \in call.todo /\ dev[call.dev].streams \in SUBSET Streams
    BY <1>1, <2>1, SensorsLeft
  <2>3. "close" \in CallPlaces
    BY DEF CallPlaces
  <2> QED BY <1>1, <2>1, <2>2, <2>3, DoneIs
<1>6. CloseSensor =>
         /\ call' \in CallRecords(Len(dev))
         /\ \/ Goes("stop_dispatcher")
            \/ /\ Goes("close") /\ call'.todo = call.todo \ {Min(call.todo)}
               /\ call'.todo # {}
  <2> SUFFICES ASSUME CloseSensor
               PROVE  /\ call' \in CallRecords(Len(dev))
                      /\ \/ Goes("stop_dispatcher")
                         \/ /\ Goes("close") /\ call'.todo = call.todo \ {Min(call.todo)}
                            /\ call'.todo # {}
    OBVIOUS
  <2>1. call.at = "close" /\ Done(Min(call.todo), "stop_dispatcher", {})
    BY DEF CloseSensor
  <2>2. Min(call.todo) \in call.todo /\ {} \in SUBSET Streams
    BY <2>1, SensorsLeft
  <2>3. "stop_dispatcher" \in CallPlaces
    BY DEF CallPlaces
  <2> QED BY <1>1, <2>1, <2>2, <2>3, DoneIs
<1>7. StopThrows \/ StopDispatcher => call' \in CallRecords(Len(dev)) /\ Goes("reset")
  BY <1>1 DEF StopThrows, StopDispatcher, CallRecords, CallPlaces, Goes
<1>8. Reset => call' \in CallRecords(Len(dev)) /\ Goes("reset_conf")
  BY <1>1 DEF Reset, CallRecords, CallPlaces, Goes
<1>9. ResetConf =>
         /\ call' \in CallRecords(Len(dev))
         /\ call' = NoCall \/ (Goes("resolve") /\ call.op = "wait")
  <2> SUFFICES ASSUME ResetConf
               PROVE  /\ call' \in CallRecords(Len(dev))
                      /\ call' = NoCall \/ (Goes("resolve") /\ call.op = "wait")
    OBVIOUS
  <2>1. CASE call.op = "stop"
    <3>1. call' = NoCall
      BY <2>1 DEF ResetConf
    <3>2. NoCall \in CallRecords(Len(dev))
      BY <1>1, NoCallIs
    <3> QED BY <3>1, <3>2
  <2>2. CASE call.op # "stop"
    <3>1. call' = [call EXCEPT !.at = "resolve"] /\ call.at = "reset_conf"
      BY <2>2 DEF ResetConf
    <3>2. call.op = "wait"
      <4>1. call.op # "none" /\ call.op # "start"
        BY <1>2, <3>1 DEF CallInv, NoCall, Launching
      <4>2. call.op \in {"none", "start", "stop", "wait"}
        BY <1>1 DEF CallRecords
      <4> QED BY <2>2, <4>1, <4>2
    <3> QED BY <1>1, <3>1, <3>2 DEF CallRecords, CallPlaces, Goes
  <2> QED BY <2>1, <2>2
<1> QED BY <1>3, <1>4, <1>5, <1>6, <1>7, <1>8, <1>9

\* A call that waits, and how calls end.
LEMMA WaitFields ==
    ASSUME ShapeInv
    PROVE  /\ WaitCall =>
                 /\ call' \in CallRecords(Len(dev)) /\ call'.op = "wait"
                 /\ call'.at = "wait"
           /\ Dequeue \/ ResolveFails \/ SensorThrows =>
                 call' \in CallRecords(Len(dev)) /\ call' = NoCall
           /\ WaitTimesOut =>
                 /\ call' \in CallRecords(Len(dev))
                 /\ \/ call' = NoCall
                    \/ /\ call.at = "wait" /\ Gone(active)
                       /\ call'.op = call.op /\ call'.at = "halt"
                       /\ call'.lost = active /\ call'.conf = prev_conf
                       /\ prev_conf # NoConf
<1>1. /\ call \in CallRecords(Len(dev)) /\ Len(dev) \in Nat /\ active \in 0 .. Len(dev)
      /\ NoCall \in CallRecords(Len(dev)) /\ prev_conf \in Configs \cup {NoConf}
  BY CallTypes, NoCallIs DEF ShapeInv, PipelineTypeOK
<1>2. WaitCall =>
         call' \in CallRecords(Len(dev)) /\ call'.op = "wait" /\ call'.at = "wait"
  BY <1>1 DEF WaitCall, CallRecords, CallPlaces
<1>3. Dequeue \/ ResolveFails \/ SensorThrows => call' = NoCall
  BY DEF Dequeue, ResolveFails, SensorThrows
<1>4. ASSUME WaitTimesOut, ~(call.at = "wait" /\ Gone(active))
      PROVE  call' = NoCall
  BY <1>4 DEF WaitTimesOut
<1>5. ASSUME WaitTimesOut, call.at = "wait" /\ Gone(active)
      PROVE  /\ call' \in CallRecords(Len(dev))
             /\ call'.op = call.op /\ call'.at = "halt"
             /\ call'.lost = active /\ call'.conf = prev_conf
             /\ prev_conf # NoConf
  <2>1. call' = [call EXCEPT !.at = "halt", !.lost = active, !.conf = prev_conf]
    BY <1>5 DEF WaitTimesOut
  <2>2. prev_conf # NoConf
    BY <1>5 DEF ShapeInv, CallInv, ConfInv
  <2>3. prev_conf \in Configs /\ "halt" \in CallPlaces
    BY <1>1, <2>2 DEF CallPlaces
  <2> QED BY <1>1, <2>1, <2>2, <2>3 DEF CallRecords
<1> QED BY <1>1, <1>2, <1>3, <1>4, <1>5

\* The steps of the program's calls; every other step leaves the calls alone.
CallSteps ==
    \/ StartCall \/ Resolve \/ ResolveFails \/ OnStart \/ OpenSensor \/ StartSensor
    \/ SensorThrows \/ SetActive \/ SetConf \/ StopCall \/ Halt \/ StopSensor
    \/ CloseSensor \/ StopThrows \/ StopDispatcher \/ Reset \/ ResetConf
    \/ WaitCall \/ Dequeue \/ WaitTimesOut

\* Next to the calls nothing they use changes, but the user's configuration.
LEMMA StepsBeside ==
    ASSUME [PipelineNext]_pipelineVars
    PROVE  \/ CallSteps
           \/ /\ UNCHANGED <<call, active, prev_conf, callback, starts, faults>>
              /\ \/ UNCHANGED user_conf
                 \/ call = NoCall /\ user_conf' \in Confs
<1>1. CASE UNCHANGED pipelineVars
  BY <1>1 DEF pipelineVars, bounds, conf
<1>2. CASE CallStep
  BY <1>2 DEF CallStep, CallSteps
<1>3. CASE Configure
  BY <1>3 DEF Configure, bounds
<1>4. CASE Unplug \/ PlugIn \/ InvokeRepeat \/ TakeItem \/ ItemRuns
  BY <1>4 DEF bounds, conf, Unplug, PlugIn, InvokeRepeat, TakeItem, ItemRuns, ReadActive,
              ReadConf, ReopenSensor, RestartSensor
<1>5. CASE \E d \in DOMAIN dev : \/ Destroyed(d) \/ EndOfFile(d)
                                 \/ \E set \in (SUBSET dev[d].on) \ {{}} : Deliver(d, set)
  BY <1>5 DEF bounds, conf, Deliver, Destroyed, EndOfFile
<1>6. CASE StartCall \/ StopCall \/ WaitCall \/ Dequeue
  BY <1>6 DEF CallSteps
<1> QED BY <1>1, <1>2, <1>3, <1>4, <1>5, <1>6 DEF PipelineNext

\* The active profile is set at the end of a start and dropped by a stop.
LEMMA ActiveSteps ==
    ASSUME [PipelineNext]_pipelineVars
    PROVE  \/ UNCHANGED active
           \/ SetActive /\ active' = call.dev
           \/ Reset /\ active' = 0
<1>1. CASE CallSteps
  BY <1>1 DEF CallSteps, conf, StartCall, Resolve, ResolveFails, OnStart, OpenSensor,
              StartSensor, SensorThrows, SetActive, SetConf, StopCall, Halt, StopSensor,
              CloseSensor, StopThrows, StopDispatcher, Reset, ResetConf, WaitCall, Dequeue,
              WaitTimesOut
<1> QED BY <1>1, StepsBeside

\* Where a call is says what it has left to do, in every step.
LEMMA CallInvStep ==
    ASSUME ShapeInv, [PipelineNext]_pipelineVars
    PROVE  CallInv'
<1>1. PipelineTypeOK /\ CallInv
  BY DEF ShapeInv
<1>2. /\ DOMAIN dev = 1 .. Len(dev)
      /\ call.dev # 0 => call.dev \in DOMAIN dev
      /\ active # 0 => active \in DOMAIN dev
  BY <1>1, CallTypes
<1>3. /\ kind' = kind
      /\ \A d \in DOMAIN dev : dev'[d].streams = dev[d].streams
  BY CableSteps, GoneStays
<1>4. ASSUME UNCHANGED <<call, active>>
      PROVE  CallInv'
  BY <1>1, <1>2, <1>3, <1>4 DEF CallInv, Launching, Stopping
<1>5. ASSUME call' = NoCall, UNCHANGED active
      PROVE  CallInv'
  BY <1>1, <1>2, <1>3, <1>5, NoCallIs DEF CallInv, Launching, Stopping
<1>6. CASE StartCall
  <2>1. /\ call'.op = "start" /\ call'.at = "resolve" /\ active' = active /\ active = 0
    BY <1>6, LaunchFields DEF StartCall
  <2> QED BY <2>1 DEF CallInv, Launching, Stopping
<1>7. CASE Resolve
  <2>1. /\ call.at = "resolve" /\ call'.op = call.op /\ call'.at = "on_start"
        /\ call'.dev # 0 /\ active' = active
    <3>1. call'.dev = IF call.conf.cached # 0 THEN call.conf.cached ELSE Len(dev) + 1
      BY <1>7, ResolveFields
    <3>2. Len(dev) + 1 # 0
      BY <1>1, CallTypes
    <3> QED BY <1>7, <3>1, <3>2, ResolveFields DEF Resolve
  <2>2. call.op = "start" \/ call.op = "wait"
    BY <2>1, ResolveIs
  <2> QED BY <1>1, <1>3, <2>1, <2>2 DEF CallInv, Launching, Stopping
<1>8. CASE OnStart
  <2>1. /\ call.at = "on_start" /\ Goes("open") /\ call'.todo = dev[call.dev].streams
        /\ dev[call.dev].streams # {} /\ active' = active
    BY <1>8, LaunchFields DEF OnStart
  <2> QED BY <1>1, <1>2, <1>3, <2>1 DEF CallInv, Launching, Stopping, Goes, NoCall
<1>9. CASE OpenSensor
  <2>1. /\ call.at = "open" /\ active' = active /\ call'.todo # {}
        /\ Goes("start") \/ Goes("open")
        /\ call'.todo \subseteq dev[call.dev].streams
    BY <1>1, <1>9, LaunchFields DEF OpenSensor, CallInv, Launching, conf
  <2> QED BY <1>1, <1>2, <1>3, <2>1 DEF CallInv, Launching, Stopping, Goes, NoCall
<1>10. CASE StartSensor
  <2>1. /\ call.at = "start" /\ active' = active
        /\ \/ Goes("set_active")
           \/ /\ Goes("start") /\ call'.todo # {}
              /\ call'.todo \subseteq dev[call.dev].streams
    BY <1>1, <1>10, LaunchFields DEF StartSensor, CallInv, Launching, conf
  <2> QED BY <1>1, <1>2, <1>3, <2>1 DEF CallInv, Launching, Stopping, Goes, NoCall
<1>11. CASE SetActive
  <2>1. /\ call.at = "set_active" /\ Goes("set_conf") /\ active' = call.dev
    BY <1>11, LaunchFields DEF SetActive
  <2> QED BY <1>1, <1>2, <1>3, <2>1 DEF CallInv, Launching, Stopping, Goes, NoCall
<1>12. CASE SetConf
  <2>1. call.at = "set_conf" /\ UNCHANGED active
    BY <1>12 DEF SetConf
  <2>2. CASE call' = NoCall
    BY <1>5, <2>1, <2>2
  <2>3. CASE Goes("rewait") /\ call.op = "wait"
    BY <1>1, <1>2, <1>3, <2>1, <2>3 DEF CallInv, Launching, Stopping, Goes, NoCall
  <2> QED BY <1>12, <2>2, <2>3, LaunchFields
<1>13. CASE StopCall
  <2>1. call'.op = "stop" /\ call'.at = "halt" /\ active' = active /\ active # 0
    BY <1>13, HaltFields DEF StopCall
  <2> QED BY <1>1, <1>2, <1>3, <2>1 DEF CallInv, Launching, Stopping
<1>14. CASE Halt
  <2>1. /\ call.at = "halt" /\ call'.op = call.op /\ call'.at = "stop" /\ call'.dev = active
        /\ active' = active /\ call'.todo = dev[active].streams
    BY <1>14, HaltFields DEF Halt
  <2> QED BY <1>1, <1>2, <1>3, <2>1 DEF CallInv, Launching, Stopping, NoCall
<1>15. CASE StopSensor
  <2>1. /\ call.at = "stop" /\ active' = active /\ call'.todo # {}
        /\ Goes("close") \/ Goes("stop")
        /\ call'.todo \subseteq dev[call.dev].streams
    <3>1. call.todo # {} /\ call.todo \subseteq dev[call.dev].streams
      BY <1>1, <1>15 DEF StopSensor, CallInv
    <3> QED BY <3>1, <1>15, HaltFields DEF StopSensor, conf
  <2> QED BY <1>1, <1>2, <1>3, <2>1 DEF CallInv, Launching, Stopping, Goes, NoCall
<1>16. CASE CloseSensor
  <2>1. /\ call.at = "close" /\ active' = active
        /\ \/ Goes("stop_dispatcher")
           \/ /\ Goes("close") /\ call'.todo # {}
              /\ call'.todo \subseteq dev[call.dev].streams
    BY <1>1, <1>16, HaltFields DEF CloseSensor, CallInv, conf
  <2> QED BY <1>1, <1>2, <1>3, <2>1 DEF CallInv, Launching, Stopping, Goes, NoCall
<1>17. CASE StopThrows \/ StopDispatcher
  <2>1. call.at \in {"stop", "close", "stop_dispatcher"} /\ active' = active /\ Goes("reset")
    BY <1>17, HaltFields DEF StopThrows, StopDispatcher
  <2> QED BY <1>1, <1>2, <1>3, <2>1 DEF CallInv, Launching, Stopping, Goes, NoCall
<1>18. CASE Reset
  <2>1. call.at = "reset" /\ active' = 0 /\ Goes("reset_conf")
    BY <1>18, HaltFields DEF Reset
  <2> QED BY <1>1, <1>2, <1>3, <2>1 DEF CallInv, Launching, Stopping, Goes, NoCall
<1>19. CASE ResetConf
  <2>1. call.at = "reset_conf" /\ UNCHANGED active
    BY <1>19 DEF ResetConf
  <2>2. CASE call' = NoCall
    BY <1>5, <2>1, <2>2
  <2>3. CASE Goes("resolve") /\ call.op = "wait"
    BY <1>1, <1>2, <1>3, <2>1, <2>3 DEF CallInv, Launching, Stopping, Goes, NoCall
  <2> QED BY <1>19, <2>2, <2>3, HaltFields
<1>20. CASE WaitCall
  <2>1. call'.op = "wait" /\ call'.at = "wait" /\ active' = active /\ active # 0
    BY <1>20, WaitFields DEF WaitCall, MayAsk
  <2> QED BY <1>1, <1>2, <1>3, <2>1 DEF CallInv, Launching, Stopping
<1>21. CASE Dequeue \/ ResolveFails \/ SensorThrows
  BY <1>5, <1>21 DEF Dequeue, ResolveFails, SensorThrows
<1>22. CASE WaitTimesOut
  <2>1. UNCHANGED active
    BY <1>22 DEF WaitTimesOut
  <2>2. CASE call' = NoCall
    BY <1>5, <2>1, <2>2
  <2>3. CASE /\ call.at = "wait" /\ Gone(active)
             /\ call'.op = call.op /\ call'.at = "halt"
    <3>1. call.op = "wait"
      <4>1. call.op \in {"none", "start", "stop", "wait"}
        BY <1>1, CallTypes DEF CallRecords
      <4> QED BY <1>1, <2>3, <4>1 DEF CallInv, NoCall, Launching, Stopping
    <3>2. kind = "camera" /\ active # 0
      BY <1>1, <2>3 DEF Gone, CallInv
    <3> QED BY <1>1, <1>2, <1>3, <2>1, <2>3, <3>1, <3>2 DEF CallInv, Launching, Stopping
  <2> QED BY <1>22, <2>2, <2>3, WaitFields
<1> QED BY <1>4, <1>6, <1>7, <1>8, <1>9, <1>10, <1>11, <1>12, <1>13, <1>14, <1>15, <1>16,
           <1>17, <1>18, <1>19, <1>20, <1>21, <1>22, StepsBeside DEF CallSteps

-----------------------------------------------------------------------------
(* The repeat of a file.                                                   *)

\* The actions there can be next to n device objects.
ItemRecords(n) ==
    [at : {"none", "taken", "conf", "open", "start"}, dev : 0 .. n,
     todo : SUBSET Streams]

DispatcherQueues == [items : Seq({"repeat"}), accepting : BOOLEAN]

\* The steps that change the dispatcher, its action and its subscription.
LEMMA RepeatSteps ==
    ASSUME [PipelineNext]_pipelineVars
    PROVE  /\ \/ UNCHANGED <<item, crashed>>
              \/ TakeItem \/ ItemRuns
           /\ \/ UNCHANGED dispatcher
              \/ OnStart \/ StopDispatcher \/ TakeItem \/ InvokeRepeat
           /\ \/ UNCHANGED raising
              \/ InvokeRepeat \/ \E d \in DOMAIN dev : EndOfFile(d)
           /\ \/ UNCHANGED subscribed
              \/ OnStart \/ Halt
<1>1. CASE UNCHANGED pipelineVars
  BY <1>1 DEF pipelineVars, repeat
<1>2. CASE CallSteps
  BY <1>2 DEF CallSteps, repeat, StartCall, Resolve, ResolveFails, OnStart, OpenSensor,
              StartSensor, SensorThrows, SetActive, SetConf, StopCall, Halt, StopSensor,
              CloseSensor, StopThrows, StopDispatcher, Reset, ResetConf, WaitCall, Dequeue,
              WaitTimesOut
<1>3. CASE Configure \/ Unplug \/ PlugIn \/ InvokeRepeat \/ TakeItem \/ ItemRuns
  BY <1>3 DEF repeat, Configure, Unplug, PlugIn, InvokeRepeat, TakeItem, ItemRuns,
              ReadActive, ReadConf, ReopenSensor, RestartSensor
<1>4. CASE \E d \in DOMAIN dev : \/ Destroyed(d) \/ EndOfFile(d)
                                 \/ \E set \in (SUBSET dev[d].on) \ {{}} : Deliver(d, set)
  BY <1>4 DEF repeat, Destroyed, EndOfFile, Deliver
<1> QED BY <1>1, <1>2, <1>3, <1>4 DEF PipelineNext, CallStep, CallSteps

\* What an action of the dispatcher leaves to do, and when it meets a null
\* pointer.
LEMMA ItemFields ==
    ASSUME ShapeInv, [PipelineNext]_pipelineVars
    PROVE  /\ item' \in ItemRecords(Len(dev)) /\ crashed' \in BOOLEAN
           /\ item'.at \in {"open", "start"} =>
                 \/ UNCHANGED item
                 \/ /\ item'.dev = item.dev /\ item.at = item'.at
                    /\ item'.todo # {} /\ item'.todo \subseteq item.todo
                 \/ /\ active # 0 /\ item'.dev = active
                    /\ item'.todo = dev[active].streams
           /\ kind = "camera" => item'.at = "none"
           /\ crashed' => crashed \/ active = 0 \/ prev_conf = NoConf
<1>1. /\ item \in ItemRecords(Len(dev)) /\ crashed \in BOOLEAN /\ Len(dev) \in Nat
      /\ active \in 0 .. Len(dev) /\ PipelineTypeOK
  BY CallTypes DEF ShapeInv, PipelineTypeOK, ItemRecords
<1>2. ItemInv
  BY DEF ShapeInv
<1>3. NoItem \in ItemRecords(Len(dev)) /\ NoItem.at = "none"
  BY <1>1 DEF NoItem, ItemRecords
<1>4. active # 0 => dev[active].streams \in SUBSET Streams
  BY <1>1, CallTypes
<1>5. CASE UNCHANGED <<item, crashed>>
  BY <1>1, <1>2, <1>5 DEF ItemInv
<1>6. CASE TakeItem
  <2>1. item' = [item EXCEPT !.at = "taken"] /\ crashed' = crashed
    BY <1>6 DEF TakeItem
  <2>2. item' \in ItemRecords(Len(dev)) /\ item'.at = "taken"
    BY <1>1, <2>1 DEF ItemRecords
  <2>3. kind # "camera"
    BY <1>2, <1>6 DEF ItemInv, TakeItem
  <2> QED BY <1>1, <2>1, <2>2, <2>3
<1>7. CASE ReadActive
  <2>1. /\ item.at = "taken" /\ crashed' = FALSE
        /\ item' = IF active = 0 THEN NoItem ELSE [item EXCEPT !.at = "conf"]
    BY <1>7 DEF ReadActive, ItemStep
  <2>2. item' \in ItemRecords(Len(dev)) /\ item'.at \in {"none", "conf"}
    BY <1>1, <1>3, <2>1 DEF ItemRecords
  <2>3. kind # "camera"
    BY <1>2, <2>1 DEF ItemInv
  <2> QED BY <2>1, <2>2, <2>3
<1>8. CASE ReadConf
  <2> DEFINE ok == prev_conf # NoConf /\ (kind = "once" \/ active # 0)
  <2>1. /\ item.at = "conf" /\ crashed' = ~ok
        /\ item' = IF ok THEN IF kind = "once" THEN NoItem
                              ELSE [at |-> "open", dev |-> active,
                                    todo |-> dev[active].streams]
                   ELSE NoItem
    BY <1>8 DEF ReadConf, ItemStep
  <2>2. \/ item' = NoItem
        \/ /\ active # 0
           /\ item' = [at |-> "open", dev |-> active, todo |-> dev[active].streams]
    BY <2>1
  <2>3. item' \in ItemRecords(Len(dev))
    BY <1>1, <1>3, <1>4, <2>2 DEF ItemRecords
  <2>4. item'.at \in {"open", "start"} =>
           active # 0 /\ item'.dev = active /\ item'.todo = dev[active].streams
    BY <1>3, <2>2
  <2>5. kind # "camera"
    BY <1>2, <2>1 DEF ItemInv
  <2>6. crashed' \in BOOLEAN /\ (crashed' => crashed \/ active = 0 \/ prev_conf = NoConf)
    BY <2>1
  <2> QED BY <2>3, <2>4, <2>5, <2>6
<1>9. CASE ReopenSensor
  <2> DEFINE s == Max(item.todo)
             more == item.todo # {s}
             next == IF more THEN [item EXCEPT !.todo = item.todo \ {s}]
                     ELSE [at |-> "start", dev |-> active, todo |-> dev[active].streams]
  <2>1. /\ item.at = "open" /\ crashed' = ~(more \/ active # 0)
        /\ item' = IF more \/ active # 0 THEN next ELSE NoItem
    BY <1>9 DEF ReopenSensor, ItemStep
  <2>2. item.todo # {} /\ kind # "camera"
    BY <1>2, <2>1 DEF ItemInv
  <2>3. CASE more
    <3>1. item' = [item EXCEPT !.todo = item.todo \ {s}] /\ crashed' = FALSE
      BY <2>1, <2>3
    <3>2. /\ item' \in ItemRecords(Len(dev)) /\ item'.dev = item.dev
          /\ item'.at = item.at /\ item'.todo = item.todo \ {s}
      BY <1>1, <3>1 DEF ItemRecords
    <3>3. item'.todo # {}
      BY <2>2, <2>3, <3>2
    <3> QED BY <2>2, <3>1, <3>2, <3>3
  <2>4. CASE ~more /\ active # 0
    <3>1. /\ item' = [at |-> "start", dev |-> active, todo |-> dev[active].streams]
          /\ crashed' = FALSE
      BY <2>1, <2>4
    <3>2. item' \in ItemRecords(Len(dev))
      BY <1>1, <1>4, <2>4, <3>1 DEF ItemRecords
    <3> QED BY <2>2, <2>4, <3>1, <3>2
  <2>5. CASE ~more /\ active = 0
    <3>1. item' = NoItem /\ crashed' = TRUE
      BY <2>1, <2>5
    <3> QED BY <1>3, <2>5, <3>1
  <2> QED BY <2>3, <2>4, <2>5
<1>10. CASE RestartSensor
  <2> DEFINE s == Min(item.todo)
  <2>1. /\ item.at = "start" /\ crashed' = FALSE
        /\ item' = IF item.todo # {s} THEN [item EXCEPT !.todo = item.todo \ {s}] ELSE NoItem
    BY <1>10 DEF RestartSensor, ItemStep
  <2>2. item.todo # {} /\ kind # "camera"
    BY <1>2, <2>1 DEF ItemInv
  <2>3. CASE item.todo # {s}
    <3>1. item' = [item EXCEPT !.todo = item.todo \ {s}]
      BY <2>1, <2>3
    <3>2. /\ item' \in ItemRecords(Len(dev)) /\ item'.dev = item.dev
          /\ item'.at = item.at /\ item'.todo = item.todo \ {s}
      BY <1>1, <3>1 DEF ItemRecords
    <3>3. item'.todo # {}
      BY <2>2, <2>3, <3>2
    <3> QED BY <2>1, <2>2, <3>2, <3>3
  <2>4. CASE item.todo = {s}
    <3>1. item' = NoItem
      BY <2>1, <2>4
    <3> QED BY <1>3, <2>1, <3>1
  <2> QED BY <2>3, <2>4
<1> QED BY <1>5, <1>6, <1>7, <1>8, <1>9, <1>10, RepeatSteps DEF ItemRuns

\* The dispatcher's queue holds repeats, and none for a camera.
LEMMA DispatcherFields ==
    ASSUME ShapeInv, [PipelineNext]_pipelineVars
    PROVE  /\ dispatcher' \in DispatcherQueues /\ raising' \in BOOLEAN
           /\ subscribed' \in 0 .. Len(dev)
           /\ kind = "camera" => dispatcher'.items = <<>> /\ ~raising'
<1>1. /\ dispatcher \in DispatcherQueues /\ raising \in BOOLEAN
      /\ subscribed \in 0 .. Len(dev) /\ call.dev \in 0 .. Len(dev)
      /\ Len(dev) \in Nat
  BY CallTypes DEF ShapeInv, PipelineTypeOK, DispatcherQueues
<1>2. ItemInv
  BY DEF ShapeInv
<1>3. dispatcher' \in DispatcherQueues /\ (kind = "camera" => dispatcher'.items = <<>>)
  <2>1. CASE UNCHANGED dispatcher
    BY <1>1, <1>2, <2>1 DEF ItemInv
  <2>2. CASE OnStart
    BY <1>1, <1>2, <2>2 DEF OnStart, Started, ItemInv, DispatcherQueues
  <2>3. CASE StopDispatcher
    <3>1. dispatcher' = [items |-> <<>>, accepting |-> FALSE]
      BY <2>3 DEF StopDispatcher, Stopped
    <3>2. <<>> \in Seq({"repeat"})
      OBVIOUS
    <3> QED BY <3>1, <3>2 DEF DispatcherQueues
  <2>4. CASE TakeItem
    <3>1. /\ dispatcher' = [dispatcher EXCEPT !.items = Tail(dispatcher.items)]
          /\ dispatcher.items # <<>>
      BY <2>4 DEF TakeItem, Dequeued
    <3>2. dispatcher.items \in Seq({"repeat"})
      BY <1>1 DEF DispatcherQueues
    <3>3. Tail(dispatcher.items) \in Seq({"repeat"})
      BY <3>1, <3>2, HeadTailProperties
    <3> QED BY <1>1, <1>2, <3>1, <3>3 DEF DispatcherQueues, ItemInv
  <2>5. CASE InvokeRepeat
    <3>1. dispatcher' = Enqueued(dispatcher, 10, "repeat") /\ raising
      BY <2>5 DEF InvokeRepeat
    <3> DEFINE q == dispatcher.items
               t == IF Len(q) < 10 THEN Append(q, "repeat") ELSE Append(Tail(q), "repeat")
    <3>2. q \in Seq({"repeat"}) /\ Len(q) \in Nat
      BY <1>1, LenProperties DEF DispatcherQueues
    <3>3. t \in Seq({"repeat"})
      <4>1. CASE Len(q) < 10
        BY <3>2, <4>1, AppendProperties
      <4>2. CASE ~(Len(q) < 10)
        <5>1. q # <<>>
          BY <3>2, <4>2, EmptySeq
        <5>2. Tail(q) \in Seq({"repeat"})
          BY <3>2, <5>1, HeadTailProperties
        <5>3. Append(Tail(q), "repeat") \in Seq({"repeat"})
          BY <5>2, AppendProperties
        <5> QED BY <4>2, <5>3
      <4> QED BY <4>1, <4>2
    <3>4. \/ dispatcher' = dispatcher
          \/ dispatcher' = [dispatcher EXCEPT !.items = t]
      BY <3>1 DEF Enqueued, HasRoom
    <3>5. kind # "camera"
      BY <1>2, <3>1 DEF ItemInv
    <3> HIDE DEF t
    <3> QED BY <1>1, <3>3, <3>4, <3>5 DEF DispatcherQueues
  <2> QED BY <2>1, <2>2, <2>3, <2>4, <2>5, RepeatSteps
<1>4. raising' \in BOOLEAN /\ (kind = "camera" => ~raising')
  <2>1. CASE UNCHANGED raising
    BY <1>1, <1>2, <2>1 DEF ItemInv
  <2>2. CASE InvokeRepeat
    BY <2>2 DEF InvokeRepeat
  <2>3. CASE \E d \in DOMAIN dev : EndOfFile(d)
    BY <2>3 DEF EndOfFile, IsFile
  <2> QED BY <2>1, <2>2, <2>3, RepeatSteps
<1>5. subscribed' \in 0 .. Len(dev)
  <2>1. CASE UNCHANGED subscribed
    BY <1>1, <2>1
  <2>2. CASE OnStart
    BY <1>1, <2>2 DEF OnStart
  <2>3. CASE Halt
    BY <1>1, <2>3 DEF Halt
  <2> QED BY <2>1, <2>2, <2>3, RepeatSteps
<1> QED BY <1>3, <1>4, <1>5

\* The repeat has sensors of its object left to handle, in every step.
LEMMA ItemInvStep ==
    ASSUME ShapeInv, [PipelineNext]_pipelineVars
    PROVE  ItemInv'
<1>1. PipelineTypeOK /\ CallInv /\ ItemInv
  BY DEF ShapeInv
<1>2. \A d \in DOMAIN dev : dev'[d].streams = dev[d].streams
  BY GoneStays
<1>3. active # 0 => active \in DOMAIN dev /\ dev[active].streams # {}
  BY <1>1, CallTypes DEF CallInv
<1>4. item.at \in {"open", "start"} =>
         item.dev # 0 /\ item.dev \in DOMAIN dev /\ item.todo \subseteq dev[item.dev].streams
         /\ item.todo # {}
  BY <1>1, SensorsLeft DEF ItemInv
<1>5. item'.at \in {"open", "start"} =>
         /\ item'.dev # 0 /\ item'.todo # {}
         /\ item'.todo \subseteq dev'[item'.dev].streams
  <2> SUFFICES ASSUME item'.at \in {"open", "start"}
               PROVE  /\ item'.dev # 0 /\ item'.todo # {}
                      /\ item'.todo \subseteq dev'[item'.dev].streams
    OBVIOUS
  <2>1. CASE UNCHANGED item
    BY <1>2, <1>4, <2>1
  <2>2. CASE /\ item'.dev = item.dev /\ item.at = item'.at
             /\ item'.todo # {} /\ item'.todo \subseteq item.todo
    BY <1>2, <1>4, <2>2
  <2>3. CASE active # 0 /\ item'.dev = active /\ item'.todo = dev[active].streams
    <3>1. dev'[active].streams = dev[active].streams
      BY <1>2, <1>3, <2>3
    <3> QED BY <1>3, <2>3, <3>1
  <2> QED BY <2>1, <2>2, <2>3, ItemFields
<1>6. kind' = "camera" => item'.at = "none" /\ dispatcher'.items = <<>> /\ ~raising'
  BY CableSteps, ItemFields, DispatcherFields
<1> QED BY <1>5, <1>6 DEF ItemInv

-----------------------------------------------------------------------------
(* The configurations.                                                     *)

\* What a configuration asks for does not depend on the profile resolved for it.
LEMMA ResolvedIs ==
    ASSUME NEW c \in Configs, NEW n
    PROVE  /\ Resolved([c EXCEPT !.cached = n]) = Resolved(c)
           /\ [c EXCEPT !.cached = n].cached = n
           /\ Copied(c) \in Configs /\ Copied(c) # NoConf
           /\ Copied(c).cached = 0 /\ Copied(c).disabled = {} /\ Copied(c).want = c.want
           /\ c.want # {} => Resolved(c) = c.want
<1>1. /\ c.want \in SUBSET Streams /\ c.disabled \in SUBSET Streams
      /\ c = [want |-> c.want, disabled |-> c.disabled, cached |-> c.cached]
  BY DEF Configs
<1>2. 0 \notin Streams
  BY PipelineAssumption
<1>3. c.want # {0}
  BY <1>1, <1>2
<1>4. /\ Copied(c) \in Configs
      /\ Copied(c).cached = 0 /\ Copied(c).disabled = {} /\ Copied(c).want = c.want
  BY DEF Copied, Configs
<1>5. Copied(c) # NoConf
  BY <1>3, <1>4 DEF NoConf
<1>6. /\ Resolved([c EXCEPT !.cached = n]) = Resolved(c)
      /\ [c EXCEPT !.cached = n].cached = n
  BY DEF Resolved, Configs
<1> QED BY <1>4, <1>5, <1>6 DEF Resolved

\* The user's configuration is changed by the user, or a start() writes the
\* profile it resolved into it.
LEMMA UserConfSteps ==
    ASSUME [PipelineNext]_pipelineVars
    PROVE  UNCHANGED user_conf \/ user_conf' \in Confs \/ Resolve
<1>1. CASE CallSteps
  BY <1>1 DEF CallSteps, conf, StartCall, Resolve, ResolveFails, OnStart, OpenSensor,
              StartSensor, SensorThrows, SetActive, SetConf, StopCall, Halt, StopSensor,
              CloseSensor, StopThrows, StopDispatcher, Reset, ResetConf, WaitCall, Dequeue,
              WaitTimesOut
<1> QED BY <1>1, StepsBeside

\* The profile the user's configuration remembers has the streams it asks for.
LEMMA UserConfStep ==
    ASSUME ShapeInv, [PipelineNext]_pipelineVars
    PROVE  /\ user_conf' \in Configs
           /\ user_conf'.cached # 0 => user_conf'.cached \in DOMAIN dev'
           /\ user_conf'.cached # 0 => dev'[user_conf'.cached].streams = Resolved(user_conf')
<1>1. /\ PipelineTypeOK /\ user_conf \in Configs /\ Len(dev) \in Nat
      /\ DOMAIN dev = 1 .. Len(dev) /\ call.conf \in Configs
  BY CallTypes DEF ShapeInv
<1>2. user_conf.cached \in Nat /\ user_conf.cached <= Len(dev)
  <2>1. user_conf.cached \in Objects \cup {0} /\ user_conf.cached <= Len(dev)
    BY <1>1 DEF Configs, ShapeInv, ConfInv
  <2> QED BY <2>1, PipelineAssumption DEF Objects
<1>3. user_conf.cached # 0 => /\ user_conf.cached \in DOMAIN dev
                              /\ dev[user_conf.cached].streams = Resolved(user_conf)
  BY <1>1, <1>2 DEF ShapeInv, ConfInv
<1>4. \A d \in DOMAIN dev : d \in DOMAIN dev' /\ dev'[d].streams = dev[d].streams
  BY GoneStays
<1>5. CASE UNCHANGED user_conf
  BY <1>1, <1>3, <1>4, <1>5
<1>6. CASE user_conf' \in Confs
  <2>1. user_conf' \in [want : SUBSET Streams, disabled : SUBSET Streams, cached : {0}]
    BY <1>6, PipelineAssumption
  <2> QED BY <2>1 DEF Configs
<1>7. CASE Resolve /\ ~UNCHANGED user_conf
  <2>1. /\ user_conf' = [user_conf EXCEPT !.cached = Len(dev) + 1]
        /\ call.conf.cached = 0 /\ call.op = "start"
    BY <1>7, ResolveFields
  <2>2. call.conf = user_conf
    BY <2>1 DEF ShapeInv, ConfInv
  <2>3. Len(dev) + 1 \in Objects
    BY <1>7, <2>1, ResolveCounts
  <2>4. user_conf' \in Configs /\ user_conf'.cached = Len(dev) + 1
    BY <1>1, <2>1, <2>3 DEF Configs
  <2>5. Resolved(user_conf') = Resolved(user_conf)
    BY <1>1, <2>1, ResolvedIs
  <2>6. Len(dev) + 1 \in DOMAIN dev' /\ dev'[Len(dev) + 1].streams = Resolved(call.conf)
    <3>1. ~UNCHANGED dev
      <4>1. dev' = Append(dev, [inc |-> plugged, streams |-> Resolved(call.conf),
                                open |-> {}, on |-> {}])
        BY <1>7, <2>1 DEF Resolve
      <4>2. Len(dev') = Len(dev) + 1
        BY <1>7, <2>1, ObjectResolved, <4>1
      <4> QED BY <1>1, <4>2
    <3> QED BY <1>1, <1>7, <2>1, <3>1, ObjectResolved
  <2> QED BY <2>2, <2>4, <2>5, <2>6
<1> QED BY <1>5, <1>6, <1>7, UserConfSteps

\* The configuration a call starts with asks for the streams of its profile, in
\* every step.
LEMMA ConfInvStep ==
    ASSUME ShapeInv, [PipelineNext]_pipelineVars
    PROVE  ConfInv'
<1>1. PipelineTypeOK /\ CallInv /\ ConfInv
  BY DEF ShapeInv
<1>2. /\ DOMAIN dev = 1 .. Len(dev) /\ Len(dev) \in Nat
      /\ call \in CallRecords(Len(dev)) /\ call.conf \in Configs
      /\ call.dev # 0 => call.dev \in DOMAIN dev
      /\ call.lost # 0 => call.lost \in DOMAIN dev
      /\ active # 0 => active \in DOMAIN dev
  BY <1>1, CallTypes
<1>3. \A d \in DOMAIN dev : d \in DOMAIN dev' /\ dev'[d].streams = dev[d].streams
  BY GoneStays
<1>4. Len(dev') \in Nat /\ Len(dev') >= Len(dev) /\ DOMAIN dev' = 1 .. Len(dev')
  <2>1. CASE SameObjects
    BY <1>2, <2>1, LenProperties DEF SameObjects
  <2>2. CASE Resolve
    BY <1>2, <2>2, ObjectResolved
  <2> QED BY <2>1, <2>2, ObjectsStay
<1>5. /\ user_conf'.cached <= Len(dev')
      /\ user_conf'.cached # 0 => dev'[user_conf'.cached].streams = Resolved(user_conf')
  <2>1. user_conf'.cached # 0 => user_conf'.cached \in 1 .. Len(dev')
    BY <1>4, UserConfStep
  <2> QED BY <1>4, <2>1, UserConfStep
<1>6. call.conf.cached \in Nat /\ call.conf.cached <= Len(dev)
  <2>1. call.conf.cached \in Objects \cup {0} /\ call.conf.cached <= Len(dev)
    BY <1>1, <1>2 DEF Configs, ConfInv
  <2> QED BY <2>1, PipelineAssumption DEF Objects
<1>7. call.conf.cached <= Len(dev')
  BY <1>2, <1>4, <1>6
<1>8. active # 0 => active \in DOMAIN dev /\ dev'[active].streams = dev[active].streams
  BY <1>2, <1>3
<1>9. call.dev # 0 => dev'[call.dev].streams = dev[call.dev].streams
  BY <1>2, <1>3
<1>10. call.lost # 0 => dev'[call.lost].streams = dev[call.lost].streams
  BY <1>2, <1>3
<1>11. ASSUME UNCHANGED <<active, prev_conf>>, call'.op = call.op, call'.conf = call.conf,
              call'.lost = call.lost, UNCHANGED user_conf \/ call.op # "start",
              call'.at \in Launching \cup {"set_conf"} =>
                 call.at \in Launching \cup {"set_conf"} /\ call'.dev = call.dev,
              call'.at = "set_conf" <=> call.at = "set_conf",
              Reconnecting' => Reconnecting
       PROVE  ConfInv'
  <2>1. call'.at \in Launching \cup {"set_conf"} => call'.dev # 0
    BY <1>1, <1>11 DEF CallInv
  <2>2. /\ call'.conf.cached <= Len(dev')
        /\ call'.op = "start" => call'.conf = user_conf'
        /\ call'.at \in Launching \cup {"set_conf"} =>
              /\ call'.conf.cached = call'.dev
              /\ dev'[call'.dev].streams = Resolved(call'.conf)
    BY <1>1, <1>7, <1>9, <1>11, <2>1 DEF ConfInv
  <2>3. active' # 0 /\ call'.at # "set_conf" =>
           /\ prev_conf' # NoConf /\ prev_conf'.cached = 0 /\ prev_conf'.disabled = {}
           /\ prev_conf'.want # {} => dev'[active'].streams = prev_conf'.want
    BY <1>1, <1>8, <1>11 DEF ConfInv
  <2>4. Reconnecting' =>
           /\ call'.lost # 0 /\ call'.conf.cached = 0 /\ call'.conf.disabled = {}
           /\ call'.conf.want # {} => dev'[call'.lost].streams = call'.conf.want
    BY <1>1, <1>10, <1>11 DEF ConfInv
  <2> QED BY <1>5, <2>2, <2>3, <2>4 DEF ConfInv
<1>12. ASSUME call' = NoCall, UNCHANGED active,
              active # 0 => UNCHANGED prev_conf /\ call.at # "set_conf"
       PROVE  ConfInv'
  <2>1. /\ call'.op = "none" /\ call'.at = "none" /\ call'.conf.cached = 0
        /\ call'.at \notin Launching \cup {"set_conf"} /\ ~Reconnecting'
    BY <1>12, NoCallIs DEF Launching, Reconnecting
  <2>2. active' # 0 =>
           /\ prev_conf' # NoConf /\ prev_conf'.cached = 0 /\ prev_conf'.disabled = {}
           /\ prev_conf'.want # {} => dev'[active'].streams = prev_conf'.want
    BY <1>1, <1>8, <1>12 DEF ConfInv
  <2> QED BY <1>4, <1>5, <2>1, <2>2 DEF ConfInv
<1>13. CASE /\ UNCHANGED <<call, active, prev_conf>>
            /\ UNCHANGED user_conf \/ call = NoCall
  BY <1>11, <1>13, NoCallIs DEF Reconnecting
<1>14. CASE StartCall
  <2>1. /\ call'.op = "start" /\ call'.at = "resolve" /\ call'.conf = user_conf
        /\ active' = 0 /\ UNCHANGED user_conf
    BY <1>14, LaunchFields DEF StartCall, conf
  <2>2. call'.at \notin Launching \cup {"set_conf"} /\ ~Reconnecting'
    BY <2>1 DEF Launching, Reconnecting
  <2> QED BY <1>5, <2>1, <2>2 DEF ConfInv
<1>15. CASE Resolve
  <2>1. /\ call.at = "resolve" /\ call'.op = call.op /\ call'.at = "on_start"
        /\ call'.conf = [call.conf EXCEPT !.cached = call'.dev]
        /\ UNCHANGED active
    BY <1>15, ResolveFields DEF Resolve
  <2>2. active = 0 /\ ~Reconnecting'
    BY <1>1, <2>1 DEF CallInv, Reconnecting, Stopping
  <2>3. call'.conf.cached = call'.dev /\ Resolved(call'.conf) = Resolved(call.conf)
    <3>1. /\ Resolved([call.conf EXCEPT !.cached = call'.dev]) = Resolved(call.conf)
          /\ [call.conf EXCEPT !.cached = call'.dev].cached = call'.dev
      BY <1>2, ResolvedIs
    <3> QED BY <2>1, <3>1
  <2>4. call'.op = "start" => call'.conf = user_conf'
    <3>1. call.op = "start" => call.conf = user_conf
      BY <1>1 DEF ConfInv
    <3>2. CASE call.conf.cached # 0
      <4>1. call'.dev = call.conf.cached /\ user_conf' = user_conf
        BY <1>15, <3>2, ResolveFields
      <4>2. [call.conf EXCEPT !.cached = call.conf.cached] = call.conf
        BY <1>2 DEF Configs
      <4> QED BY <2>1, <3>1, <4>1, <4>2
    <3>3. CASE call.conf.cached = 0
      BY <1>15, <2>1, <3>1, <3>3, ResolveFields
    <3> QED BY <3>2, <3>3
  <2>5. dev'[call'.dev].streams = Resolved(call.conf) /\ call'.dev <= Len(dev')
    <3>1. CASE call.conf.cached # 0
      <4>1. call'.dev = call.conf.cached /\ UNCHANGED dev /\ call.conf.cached \in DOMAIN dev
        BY <1>15, <3>1, ResolveFields, ObjectResolved
      <4>2. call.op = "start"
        BY <1>1, <2>1, <3>1, ResolveIs DEF ConfInv
      <4>3. dev[call.conf.cached].streams = Resolved(call.conf)
        BY <1>1, <3>1, <4>2 DEF ConfInv
      <4> QED BY <1>7, <4>1, <4>3
    <3>2. CASE call.conf.cached = 0
      <4>1. call'.dev = Len(dev) + 1 /\ dev' = Append(dev,
               [inc |-> plugged, streams |-> Resolved(call.conf), open |-> {}, on |-> {}])
        BY <1>15, <3>2, ResolveFields DEF Resolve
      <4>2. Len(dev') = Len(dev) + 1 /\ dev'[Len(dev) + 1].streams = Resolved(call.conf)
        BY <1>2, <4>1, ObjectTypes, AppendProperties DEF ShapeInv
      <4> QED BY <1>2, <4>1, <4>2
    <3> QED BY <3>1, <3>2
  <2> QED BY <1>5, <2>1, <2>2, <2>3, <2>4, <2>5 DEF ConfInv
<1>16. CASE OnStart \/ OpenSensor \/ StartSensor
  <2>1. /\ UNCHANGED <<active, prev_conf, user_conf>> /\ call.at \in {"on_start", "open", "start"}
        /\ Goes("open") \/ Goes("start") \/ Goes("set_active")
    BY <1>16, LaunchFields DEF OnStart, OpenSensor, StartSensor, conf
  <2> QED BY <1>11, <2>1 DEF Goes, Launching, Reconnecting, Stopping
<1>17. CASE SetActive
  <2>1. /\ UNCHANGED <<prev_conf, user_conf>> /\ call.at = "set_active" /\ Goes("set_conf")
    BY <1>17, LaunchFields DEF SetActive, conf
  <2>2. /\ call.conf.cached = call.dev /\ dev[call.dev].streams = Resolved(call.conf)
        /\ call.dev # 0 /\ ~Reconnecting'
    BY <1>1, <2>1 DEF ConfInv, CallInv, Launching, Goes, Reconnecting, Stopping
  <2>3. call'.op = "start" => call'.conf = user_conf'
    BY <1>1, <2>1 DEF ConfInv, Goes
  <2> QED BY <1>5, <1>7, <1>9, <2>1, <2>2, <2>3 DEF ConfInv, Goes
<1>18. CASE SetConf
  <2>1. /\ UNCHANGED <<active, user_conf>> /\ call.at = "set_conf"
        /\ prev_conf' = Copied(call.conf)
    BY <1>18 DEF SetConf
  <2>2. call.dev = active /\ dev[active].streams = Resolved(call.conf) /\ active # 0
    BY <1>1, <2>1 DEF CallInv, ConfInv
  <2>3. /\ prev_conf' # NoConf /\ prev_conf'.cached = 0 /\ prev_conf'.disabled = {}
        /\ prev_conf'.want # {} => dev'[active'].streams = prev_conf'.want
    BY <1>2, <1>8, <2>1, <2>2, ResolvedIs
  <2>4. /\ call'.conf.cached <= Len(dev') /\ call'.op # "start"
        /\ call'.at \notin Launching \cup {"set_conf"} /\ ~Reconnecting'
    <3>1. CASE call' = NoCall
      BY <1>4, <3>1, NoCallIs DEF Launching, Reconnecting
    <3>2. CASE Goes("rewait") /\ call.op = "wait"
      BY <1>7, <3>2 DEF Goes, Launching, Reconnecting, Stopping
    <3> QED BY <1>18, <3>1, <3>2, LaunchFields
  <2> QED BY <1>5, <2>3, <2>4 DEF ConfInv
<1>19. CASE StopCall \/ WaitCall
  <2>1. /\ UNCHANGED <<active, prev_conf, user_conf>> /\ call = NoCall
        /\ call'.op \in {"stop", "wait"} /\ call'.at \in {"halt", "wait"}
        /\ call'.op = "wait" => call'.at = "wait"
        /\ call'.conf = NoCall.conf
    BY <1>19, HaltFields, WaitFields DEF StopCall, WaitCall, conf, NoCall, MayAsk
  <2>2. call.at # "set_conf" /\ call'.conf.cached = 0
    BY <2>1, NoCallIs
  <2>3. call'.at \notin Launching \cup {"set_conf"} /\ ~Reconnecting' /\ call'.op # "start"
    BY <2>1 DEF Launching, Reconnecting, Stopping
  <2>4. active' # 0 =>
           /\ prev_conf' # NoConf /\ prev_conf'.cached = 0 /\ prev_conf'.disabled = {}
           /\ prev_conf'.want # {} => dev'[active'].streams = prev_conf'.want
    BY <1>1, <1>8, <2>1, <2>2 DEF ConfInv
  <2> QED BY <1>4, <1>5, <2>2, <2>3, <2>4 DEF ConfInv
<1>20. CASE Halt
  <2>1. /\ UNCHANGED <<active, prev_conf, user_conf>> /\ call.at = "halt"
        /\ call'.op = call.op /\ call'.at = "stop" /\ call'.lost = call.lost
        /\ call'.conf = call.conf
    BY <1>20, HaltFields DEF Halt, conf
  <2> QED BY <1>11, <2>1 DEF Launching, Reconnecting, Stopping
<1>21. CASE StopSensor \/ CloseSensor \/ StopThrows \/ StopDispatcher
  <2>1. /\ UNCHANGED <<active, prev_conf, user_conf>>
        /\ call.at \in {"stop", "close", "stop_dispatcher"}
        /\ Goes("stop") \/ Goes("close") \/ Goes("stop_dispatcher") \/ Goes("reset")
    BY <1>21, HaltFields DEF StopSensor, CloseSensor, StopThrows, StopDispatcher, conf
  <2> QED BY <1>11, <2>1 DEF Goes, Launching, Reconnecting, Stopping
<1>22. CASE Reset
  <2>1. /\ UNCHANGED <<prev_conf, user_conf>> /\ call.at = "reset" /\ active' = 0
        /\ Goes("reset_conf")
    BY <1>22, HaltFields DEF Reset, conf
  <2>2. call'.at \notin Launching \cup {"set_conf"} /\ (Reconnecting' => Reconnecting)
    BY <2>1 DEF Launching, Reconnecting, Stopping, Goes
  <2>3. Reconnecting' =>
           /\ call'.lost # 0 /\ call'.conf.cached = 0 /\ call'.conf.disabled = {}
           /\ call'.conf.want # {} => dev'[call'.lost].streams = call'.conf.want
    BY <1>1, <1>10, <2>1, <2>2 DEF ConfInv, Goes
  <2>4. call'.op = "start" => call'.conf = user_conf'
    BY <1>1, <2>1 DEF ConfInv, Goes
  <2> QED BY <1>5, <1>7, <2>1, <2>2, <2>3, <2>4 DEF ConfInv, Goes
<1>23. CASE ResetConf
  <2>1. UNCHANGED <<active, user_conf>> /\ call.at = "reset_conf" /\ active = 0
    BY <1>1, <1>23 DEF ResetConf, CallInv
  <2>2. CASE call' = NoCall
    BY <1>12, <2>1, <2>2
  <2>3. CASE Goes("resolve") /\ call.op = "wait"
    <3>1. /\ call'.at \notin Launching \cup {"set_conf"} /\ Reconnecting
          /\ call'.op # "start"
      BY <2>1, <2>3 DEF Launching, Reconnecting, Goes
    <3>2. /\ call'.lost # 0 /\ call'.conf.cached = 0 /\ call'.conf.disabled = {}
          /\ call'.conf.want # {} => dev'[call'.lost].streams = call'.conf.want
      BY <1>1, <1>10, <2>3, <3>1 DEF ConfInv, Goes
    <3> QED BY <1>4, <1>5, <2>1, <3>1, <3>2 DEF ConfInv
  <2> QED BY <1>23, <2>2, <2>3, HaltFields
<1>24. CASE Dequeue \/ ResolveFails \/ SensorThrows
  <2>1. /\ call' = NoCall /\ UNCHANGED <<active, prev_conf>> /\ call.at # "set_conf"
    BY <1>24, NoCallIs DEF Dequeue, ResolveFails, SensorThrows, MayAsk, conf
  <2> QED BY <1>12, <2>1
<1>25. CASE WaitTimesOut
  <2>1. UNCHANGED <<active, prev_conf, user_conf>> /\ call.at \in {"wait", "rewait"}
    BY <1>25 DEF WaitTimesOut, conf
  <2>2. CASE call' = NoCall
    BY <1>12, <2>1, <2>2
  <2>3. CASE /\ call'.op = call.op /\ call'.at = "halt" /\ call'.lost = active
             /\ call'.conf = prev_conf
    <3>1. active # 0 /\ call.op # "start"
      BY <1>1, <2>1 DEF CallInv, Launching
    <3>2. /\ prev_conf' # NoConf /\ prev_conf'.cached = 0 /\ prev_conf'.disabled = {}
          /\ prev_conf'.want # {} => dev'[active'].streams = prev_conf'.want
      BY <1>1, <1>8, <2>1, <3>1 DEF ConfInv
    <3>3. call'.at \notin Launching \cup {"set_conf"} /\ call'.op # "start"
      BY <2>3, <3>1 DEF Launching
    <3> QED BY <1>4, <1>5, <2>1, <2>3, <3>1, <3>2, <3>3 DEF ConfInv
  <2> QED BY <1>25, <2>2, <2>3, WaitFields
<1> QED BY <1>13, <1>14, <1>15, <1>16, <1>17, <1>18, <1>19, <1>20, <1>21, <1>22, <1>23,
           <1>24, <1>25, StepsBeside DEF CallSteps

-----------------------------------------------------------------------------
(* How many device objects there are.                                      *)

\* Where a call can come from: a start from one that resolved its profile, a
\* reconnection from a wait that found its camera gone.
LEMMA CallWays ==
    ASSUME ShapeInv, [PipelineNext]_pipelineVars, ~Resolve
    PROVE  /\ call'.op = "start" /\ call'.at = "resolve" => StartCall \/ UNCHANGED call
           /\ call'.at \in Launching =>
                 /\ call.at \in Launching /\ call'.op = call.op /\ call'.dev = call.dev
                 /\ call'.conf = call.conf
           /\ call'.at \in {"start", "set_active"} =>
                 call.at \in {"start", "set_active"} \/ OpenSensor
           /\ Reconnecting' =>
                 \/ Reconnecting /\ call'.lost = call.lost
                 \/ call.at = "wait" /\ Gone(active) /\ call'.lost = active
<1>1. CallInv
  BY DEF ShapeInv
<1> DEFINE Ways ==
      /\ call'.op = "start" /\ call'.at = "resolve" => StartCall \/ UNCHANGED call
      /\ call'.at \in Launching =>
            /\ call.at \in Launching /\ call'.op = call.op /\ call'.dev = call.dev
            /\ call'.conf = call.conf
      /\ call'.at \in {"start", "set_active"} =>
            call.at \in {"start", "set_active"} \/ OpenSensor
      /\ Reconnecting' =>
            \/ Reconnecting /\ call'.lost = call.lost
            \/ call.at = "wait" /\ Gone(active) /\ call'.lost = active
<1>2. ASSUME call' = NoCall
      PROVE  Ways
  BY <1>2, NoCallIs DEF Launching, Reconnecting
<1>3. ASSUME UNCHANGED call
      PROVE  Ways
  BY <1>3 DEF Reconnecting
<1>4. CASE StartCall
  BY <1>4, LaunchFields DEF Launching, Reconnecting
<1>5. CASE OnStart \/ StartSensor
  <2>1. /\ call.at \in {"on_start", "start"}
        /\ \/ Goes("open") /\ call.at = "on_start"
           \/ Goes("start") /\ call.at = "start"
           \/ Goes("set_active") /\ call.at = "start"
    BY <1>5, LaunchFields DEF OnStart, StartSensor
  <2> QED BY <2>1 DEF Goes, Launching, Reconnecting, Stopping
<1>6. CASE OpenSensor
  <2>1. call.at = "open" /\ (Goes("start") \/ Goes("open"))
    BY <1>6, LaunchFields DEF OpenSensor
  <2> QED BY <1>6, <2>1 DEF Goes, Launching, Reconnecting, Stopping
<1>7. CASE SetActive
  <2>1. Goes("set_conf")
    BY <1>7, LaunchFields
  <2> QED BY <2>1 DEF Goes, Launching, Reconnecting, Stopping
<1>8. CASE SetConf
  <2>1. CASE Goes("rewait")
    BY <2>1 DEF Goes, Launching, Reconnecting, Stopping
  <2> QED BY <1>2, <1>8, <2>1, LaunchFields
<1>9. CASE StopCall \/ WaitCall
  <2>1. /\ call'.op \in {"stop", "wait"} /\ call'.at \in {"halt", "wait"}
        /\ call'.op = "wait" => call'.at = "wait"
    BY <1>9, HaltFields, WaitFields DEF StopCall, WaitCall, NoCall
  <2> QED BY <2>1 DEF Launching, Reconnecting, Stopping
<1>10. CASE Halt
  <2>1. /\ call.at = "halt" /\ call'.op = call.op /\ call'.at = "stop"
        /\ call'.lost = call.lost
    BY <1>10, HaltFields DEF Halt
  <2> QED BY <2>1 DEF Launching, Reconnecting, Stopping
<1>11. CASE StopSensor \/ CloseSensor \/ StopThrows \/ StopDispatcher \/ Reset
  <2>1. /\ call.at \in {"stop", "close", "stop_dispatcher", "reset"}
        /\ Goes("stop") \/ Goes("close") \/ Goes("stop_dispatcher") \/ Goes("reset")
           \/ Goes("reset_conf")
    BY <1>11, HaltFields DEF StopSensor, CloseSensor, StopThrows, StopDispatcher, Reset
  <2> QED BY <2>1 DEF Goes, Launching, Reconnecting, Stopping
<1>12. CASE ResetConf
  <2>1. CASE Goes("resolve") /\ call.op = "wait"
    <3>1. call.at = "reset_conf"
      BY <1>12 DEF ResetConf
    <3> QED BY <2>1, <3>1 DEF Goes, Launching, Reconnecting, Stopping
  <2> QED BY <1>2, <1>12, <2>1, HaltFields
<1>13. CASE Dequeue \/ ResolveFails \/ SensorThrows
  BY <1>2, <1>13, WaitFields
<1>14. CASE WaitTimesOut
  <2>1. CASE call.at = "wait" /\ Gone(active) /\ call'.at = "halt" /\ call'.lost = active
             /\ call'.op = call.op
    <3>1. call.op # "start"
      BY <1>1, <2>1 DEF CallInv, Launching
    <3> QED BY <2>1, <3>1 DEF Launching, Reconnecting, Stopping
  <2> QED BY <1>2, <1>14, <2>1, WaitFields
<1> QED BY <1>3, <1>4, <1>5, <1>6, <1>7, <1>8, <1>9, <1>10, <1>11, <1>12, <1>13, <1>14,
           StepsBeside DEF CallSteps

\* The camera of the last object is the latest an object was made for, and
\* stays so.
LEMMA LastCamera ==
    ASSUME ShapeInv
    PROVE  /\ LastInc \in Nat /\ LastInc <= plugs
           /\ \A d \in DOMAIN dev : dev[d].inc \in Nat /\ dev[d].inc <= LastInc
           /\ \A d \in DOMAIN dev : LastInc = dev[Len(dev)].inc
           /\ SameObjects => LastInc' = LastInc
<1>1. PipelineTypeOK /\ DevInv /\ plugs \in Nat
  BY PlugTypes DEF ShapeInv
<1>2. DOMAIN dev = 1 .. Len(dev) /\ Len(dev) \in Nat /\ dev \in Seq(DeviceObjects)
  BY <1>1, ObjectTypes
<1>3. CASE dev = <<>>
  <2>1. DOMAIN dev = {} /\ LastInc = 0 /\ Len(dev) = 0
    BY <1>2, <1>3 DEF LastInc
  <2>2. SameObjects => dev' = <<>>
    BY <2>1, EmptySeq DEF SameObjects
  <2> QED BY <1>1, <2>1, <2>2 DEF LastInc
<1>4. CASE dev # <<>>
  <2>1. Len(dev) \in DOMAIN dev /\ LastInc = dev[Len(dev)].inc
    BY <1>2, <1>4, EmptySeq DEF LastInc
  <2>2. \A d \in DOMAIN dev : dev[d].inc \in 1 .. plugs
    BY <1>1 DEF DevInv
  <2>3. \A d \in DOMAIN dev : d <= Len(dev)
    BY <1>2
  <2>4. \A d \in DOMAIN dev : dev[d].inc <= LastInc
    BY <1>1, <2>1, <2>3 DEF DevInv
  <2>5. SameObjects => LastInc' = LastInc
    <3> SUFFICES ASSUME SameObjects
                 PROVE  LastInc' = LastInc
      OBVIOUS
    <3>1. dev' # <<>> /\ dev'[Len(dev')].inc = dev[Len(dev)].inc
      BY <1>2, <2>1, EmptySeq DEF SameObjects
    <3> QED BY <2>1, <3>1 DEF LastInc
  <2>6. LastInc \in Nat /\ LastInc <= plugs
    BY <1>1, <2>1, <2>2
  <2>7. \A d \in DOMAIN dev : dev[d].inc \in Nat
    BY <1>1, <2>2
  <2> QED BY <2>1, <2>4, <2>5, <2>6, <2>7
<1> QED BY <1>3, <1>4

\* Objects are made for a start() or another camera, in every step.
LEMMA CountInvStep ==
    ASSUME ShapeInv, [PipelineNext]_pipelineVars
    PROVE  CountInv'
<1>1. PipelineTypeOK /\ CallInv /\ ConfInv /\ CountInv /\ DevInv
  BY DEF ShapeInv
<1>2. /\ DOMAIN dev = 1 .. Len(dev) /\ Len(dev) \in Nat
      /\ call.dev # 0 => call.dev \in DOMAIN dev
      /\ call.lost # 0 => call.lost \in DOMAIN dev
      /\ active # 0 => active \in DOMAIN dev
  BY <1>1, CallTypes
<1>3. starts \in Nat
  <2>1. starts \in 0 .. MaxStarts /\ MaxStarts \in Nat
    BY <1>1, PipelineAssumption DEF PipelineTypeOK
  <2> QED BY <2>1
<1>4. starts' \in Nat /\ starts' >= starts /\ (StartCall => starts' = starts + 1)
  <2>1. StartCall => starts' = starts + 1
    BY DEF StartCall
  <2>2. UNCHANGED starts \/ StartCall
    <3>1. CASE CallSteps
      BY <3>1 DEF CallSteps, bounds, StartCall, Resolve, ResolveFails, OnStart, OpenSensor,
                  StartSensor, SensorThrows, SetActive, SetConf, StopCall, Halt, StopSensor,
                  CloseSensor, StopThrows, StopDispatcher, Reset, ResetConf, WaitCall, Dequeue,
                  WaitTimesOut
    <3> QED BY <3>1, StepsBeside
  <2> QED BY <1>3, <2>1, <2>2
<1>5. kind' = kind /\ LastInc \in Nat /\ LastInc <= plugs
  BY CableSteps, LastCamera
<1>6. CASE ~Resolve
  <2>1. Len(dev') = Len(dev) /\ LastInc' = LastInc
    BY <1>6, ObjectsStay, LastCamera DEF SameObjects
  <2>2. Len(dev') + (IF call'.op = "start" /\ call'.at = "resolve" /\ call'.conf.cached = 0
                     THEN 1 ELSE 0) <= starts' + LastInc'
    <3>1. Len(dev) <= starts + LastInc
      <4>1. CASE call.op = "start" /\ call.at = "resolve" /\ call.conf.cached = 0
        <5>1. Len(dev) + 1 <= starts + LastInc
          BY <1>1, <4>1 DEF CountInv
        <5> QED BY <1>2, <1>3, <1>5, <5>1
      <4>2. CASE ~(call.op = "start" /\ call.at = "resolve" /\ call.conf.cached = 0)
        <5>1. Len(dev) + 0 <= starts + LastInc
          BY <1>1, <4>2 DEF CountInv
        <5> QED BY <1>2, <5>1
      <4> QED BY <4>1, <4>2
    <3>2. CASE ~(call'.op = "start" /\ call'.at = "resolve" /\ call'.conf.cached = 0)
      <4>1. Len(dev) + 0 <= starts' + LastInc
        BY <1>2, <1>3, <1>4, <1>5, <3>1
      <4> QED BY <2>1, <3>2, <4>1
    <3>3. CASE call'.op = "start" /\ call'.at = "resolve" /\ call'.conf.cached = 0
      <4>1. Len(dev) + 1 <= starts' + LastInc
        <5>1. CASE StartCall
          BY <1>2, <1>3, <1>4, <1>5, <3>1, <5>1
        <5>2. CASE UNCHANGED call
          <6>1. Len(dev) + 1 <= starts + LastInc
            BY <1>1, <3>3, <5>2 DEF CountInv
          <6> QED BY <1>2, <1>3, <1>4, <1>5, <6>1
        <5> QED BY <1>6, <3>3, <5>1, <5>2, CallWays
      <4> QED BY <2>1, <3>3, <4>1
    <3> QED BY <3>2, <3>3
  <2>3. user_conf'.cached # 0 =>
           user_conf'.cached = Len(dev') \/ dev'[user_conf'.cached].inc < LastInc'
    <3>1. CASE UNCHANGED user_conf
      <4>1. user_conf'.cached # 0 => user_conf.cached \in DOMAIN dev
        BY <1>6, <3>1, ObjectsStay, UserConfStep DEF SameObjects
      <4> QED BY <1>1, <2>1, <3>1, <4>1, GoneStays DEF CountInv
    <3>2. CASE user_conf' \in Confs
      BY <3>2, PipelineAssumption
    <3> QED BY <1>6, <3>1, <3>2, UserConfSteps
  <2>4. call'.op = "wait" /\ call'.at \in Launching => call'.dev = Len(dev')
    BY <1>1, <1>6, <2>1, CallWays DEF CountInv
  <2>5. kind' = "camera" /\ call'.at \in {"start", "set_active"} => call'.dev = Len(dev')
    <3> SUFFICES ASSUME kind = "camera", call'.at \in {"start", "set_active"}
                 PROVE  call'.dev = Len(dev')
      BY <1>5
    <3>1. /\ call.at \in {"start", "set_active"} \/ OpenSensor
          /\ call'.dev = call.dev /\ call.at \in Launching
      BY <1>6, CallWays DEF Launching
    <3>2. CASE call.at \in {"start", "set_active"}
      BY <1>1, <2>1, <3>1, <3>2 DEF CountInv
    <3>3. CASE OpenSensor
      <4>1. call.at = "open" /\ ~Gone(call.dev)
        BY <3>3 DEF OpenSensor, MayOpen, IsFile
      <4>2. CASE call.op = "wait"
        BY <1>1, <2>1, <3>1, <4>1, <4>2 DEF CountInv
      <4>3. CASE call.op = "start"
        <5>1. /\ user_conf.cached = call.dev /\ call.dev # 0
              /\ user_conf.cached = Len(dev) \/ dev[user_conf.cached].inc < LastInc
          BY <1>1, <4>1, <4>3 DEF ConfInv, CallInv, CountInv, Launching
        <5>2. dev[call.dev].inc = plugged /\ plugged = plugs /\ plugs \in Nat
          <6>1. dev[call.dev].inc \in 1 .. plugs /\ dev[call.dev].inc = plugged
            BY <1>1, <1>2, <4>1, <5>1 DEF DevInv, Gone
          <6> QED BY <1>1, <6>1, PlugTypes
        <5>3. ~(dev[call.dev].inc < LastInc)
          BY <1>5, <5>2
        <5> QED BY <2>1, <3>1, <5>1, <5>3
      <4>4. call.op \in {"wait", "start"}
        <5>1. call.op \in {"none", "start", "stop", "wait"}
          BY <1>1, CallTypes DEF CallRecords
        <5> QED BY <1>1, <4>1, <5>1 DEF CallInv, NoCall, Stopping
      <4> QED BY <4>2, <4>3, <4>4
    <3> QED BY <3>1, <3>2, <3>3
  <2>6. kind' = "camera" /\ active' # 0 => active' = Len(dev')
    <3>1. SetActive => call.at = "set_active"
      BY DEF SetActive
    <3> QED BY <1>1, <1>5, <2>1, <3>1, ActiveSteps DEF CountInv
  <2>7. Reconnecting' => call'.lost = Len(dev') /\ Gone(call.lost)' 
    <3> SUFFICES ASSUME Reconnecting'
                 PROVE  call'.lost = Len(dev') /\ Gone(call.lost)'
      OBVIOUS
    <3>1. /\ call'.lost = Len(dev) /\ call'.lost \in DOMAIN dev /\ Gone(call'.lost)
      <4>1. CASE Reconnecting /\ call'.lost = call.lost
        BY <1>1, <1>2, <4>1 DEF CountInv, ConfInv
      <4>2. CASE call.at = "wait" /\ Gone(active) /\ call'.lost = active
        BY <1>1, <1>2, <4>2 DEF CallInv, CountInv, Gone
      <4> QED BY <1>6, <4>1, <4>2, CallWays
    <3>2. /\ kind = "camera" /\ dev[call'.lost].inc # plugged
      BY <3>1 DEF Gone
    <3>3. PICK d \in DOMAIN dev : d = call'.lost
      BY <3>1
    <3>4. Gone(d) /\ Gone(d)'
      BY <3>2, <3>3, GoneStays DEF Gone
    <3> QED BY <2>1, <3>1, <3>3, <3>4 DEF Gone
  <2> QED BY <2>2, <2>3, <2>4, <2>5, <2>6, <2>7 DEF CountInv
<1>7. CASE Resolve /\ call.conf.cached # 0
  <2>1. /\ UNCHANGED <<dev, user_conf, active>> /\ call.at = "resolve"
        /\ call'.at = "on_start" /\ call'.op = call.op
    BY <1>7, ResolveFields DEF Resolve
  <2>2. active = 0 /\ call.op # "wait"
    BY <1>1, <1>7, <2>1 DEF CallInv, ConfInv, Reconnecting
  <2>3. Len(dev') = Len(dev) /\ LastInc' = LastInc
    BY <2>1 DEF LastInc
  <2>4. Len(dev) + 0 <= starts + LastInc
    BY <1>1, <1>7 DEF CountInv
  <2>5. Len(dev) <= starts' + LastInc
    BY <1>2, <1>3, <1>4, <1>5, <2>4
  <2>6. Len(dev') + (IF call'.op = "start" /\ call'.at = "resolve" /\ call'.conf.cached = 0
                     THEN 1 ELSE 0) <= starts' + LastInc'
    BY <1>2, <2>1, <2>3, <2>5
  <2>7. user_conf'.cached # 0 =>
           user_conf'.cached = Len(dev') \/ dev'[user_conf'.cached].inc < LastInc'
    BY <1>1, <2>1, <2>3 DEF CountInv
  <2>8. ~Reconnecting'
    BY <2>1 DEF Reconnecting, Stopping
  <2> QED BY <2>1, <2>2, <2>6, <2>7, <2>8 DEF CountInv
<1>8. CASE Resolve /\ call.conf.cached = 0
  <2>1. /\ dev' = Append(dev, [inc |-> plugged, streams |-> Resolved(call.conf),
                               open |-> {}, on |-> {}])
        /\ call.at = "resolve" /\ call'.at = "on_start" /\ call'.op = call.op
        /\ UNCHANGED active /\ call'.dev = Len(dev) + 1
        /\ user_conf' = IF call.op # "start" THEN user_conf
                        ELSE [user_conf EXCEPT !.cached = Len(dev) + 1]
    BY <1>8, ResolveFields DEF Resolve
  <2>2. active = 0 /\ ~Reconnecting'
    BY <1>1, <2>1 DEF CallInv, Reconnecting, Stopping
  <2>3. /\ Len(dev') = Len(dev) + 1
        /\ \A d \in DOMAIN dev : dev'[d] = dev[d]
        /\ dev'[Len(dev) + 1].inc = plugged
    BY <1>1, <1>2, <2>1, ObjectTypes, AppendProperties
  <2>4. LastInc' = plugged
    <3>1. Len(dev') # 0
      BY <1>2, <2>3
    <3>2. dev' # <<>>
      BY <3>1, EmptySeq
    <3> QED BY <2>3, <3>2 DEF LastInc
  <2>5. Len(dev) + 1 <= starts + plugged /\ plugged = plugs /\ plugs \in Nat
    <3>1. plugged # 0
      BY <1>1, <1>8 DEF Resolve, IsFile, DevInv
    <3> QED BY <1>1, <1>8, <3>1, ResolveCounts, PlugTypes
  <2>6. Len(dev') + (IF call'.op = "start" /\ call'.at = "resolve" /\ call'.conf.cached = 0
                     THEN 1 ELSE 0) <= starts' + LastInc'
    <3>1. Len(dev) + 1 <= starts' + plugged /\ Len(dev) + 1 \in Nat
      BY <1>2, <1>3, <1>4, <2>5
    <3>2. Len(dev') <= starts' + LastInc' /\ Len(dev') + 0 = Len(dev')
      BY <2>3, <2>4, <3>1
    <3> QED BY <2>1, <3>2
  <2>7. user_conf'.cached # 0 =>
           user_conf'.cached = Len(dev') \/ dev'[user_conf'.cached].inc < LastInc'
    <3>1. CASE call.op = "start"
      <4>1. user_conf \in Configs
        BY <1>1, CallTypes
      <4>2. user_conf'.cached = Len(dev) + 1
        BY <2>1, <3>1, <4>1 DEF Configs
      <4> QED BY <2>3, <4>2
    <3>2. CASE call.op # "start"
      <4>1. Reconnecting
        BY <2>1, <3>2, ResolveIs
      <4>2. call.lost = Len(dev) /\ Gone(call.lost) /\ call.lost # 0
        BY <1>1, <4>1 DEF CountInv, ConfInv
      <4>3. LastInc # plugged
        BY <1>2, <4>2, LastCamera DEF Gone
      <4>4. LastInc < plugged
        BY <1>5, <2>5, <4>3
      <4>5. user_conf' = user_conf
        BY <2>1, <3>2
      <4>6. user_conf.cached # 0 => user_conf.cached \in DOMAIN dev
        <5>1. user_conf.cached \in Objects \cup {0} /\ user_conf.cached <= Len(dev)
          BY <1>1, CallTypes DEF Configs, ConfInv
        <5> QED BY <1>2, <5>1, PipelineAssumption DEF Objects
      <4>7. ASSUME user_conf.cached # 0
            PROVE  dev'[user_conf.cached].inc < plugged
        <5>1. /\ dev'[user_conf.cached].inc = dev[user_conf.cached].inc
              /\ dev[user_conf.cached].inc \in Nat /\ dev[user_conf.cached].inc <= LastInc
          BY <2>3, <4>6, <4>7, LastCamera
        <5> QED BY <1>5, <2>5, <4>4, <5>1
      <4> QED BY <2>4, <4>5, <4>7
    <3> QED BY <3>1, <3>2
  <2> QED BY <2>1, <2>2, <2>3, <2>6, <2>7 DEF CountInv
<1> QED BY <1>6, <1>7, <1>8

-----------------------------------------------------------------------------
(* The aggregator.                                                         *)

\* The aggregators there can be next to n device objects.
FrameQueues == [items : Seq(Framesets), accepting : BOOLEAN]
AggRecords(n) ==
    [accepting : BOOLEAN, dev : 0 .. n, streams : SUBSET Streams, last : Framesets,
     strays : SUBSET ((1 .. n) \X Streams), queue : FrameQueues]

\* The steps that change frames: the aggregator is made by a start and stopped
\* by a stop, a device delivers into it, a frameset is taken out of it.
LEMMA FrameSteps ==
    ASSUME [PipelineNext]_pipelineVars
    PROVE  \/ UNCHANGED <<agg, sent, base, shown>>
           \/ /\ OnStart \/ Halt
              /\ UNCHANGED <<sent, shown>>
           \/ Dequeue /\ UNCHANGED <<sent, base>>
           \/ \E d \in DOMAIN dev : \E set \in (SUBSET dev[d].on) \ {{}} : Deliver(d, set)
<1>1. CASE UNCHANGED pipelineVars
  BY <1>1 DEF pipelineVars, history
<1>2. CASE CallSteps
  BY <1>2 DEF CallSteps, history, StartCall, Resolve, ResolveFails, OnStart, OpenSensor,
              StartSensor, SensorThrows, SetActive, SetConf, StopCall, Halt, StopSensor,
              CloseSensor, StopThrows, StopDispatcher, Reset, ResetConf, WaitCall, Dequeue,
              WaitTimesOut
<1>3. CASE Configure \/ Unplug \/ PlugIn \/ InvokeRepeat \/ TakeItem \/ ItemRuns
  BY <1>3 DEF history, Configure, Unplug, PlugIn, InvokeRepeat, TakeItem, ItemRuns,
              ReadActive, ReadConf, ReopenSensor, RestartSensor
<1>4. CASE \E d \in DOMAIN dev : Destroyed(d)
  BY <1>4 DEF Destroyed, history
<1>5. CASE \E d \in DOMAIN dev : EndOfFile(d)
  BY <1>5 DEF EndOfFile, history
<1> QED BY <1>1, <1>2, <1>3, <1>4, <1>5 DEF PipelineNext, CallStep, CallSteps

\* The frames of the aggregator, with their types.
LEMMA FrameTypes ==
    ASSUME PipelineTypeOK
    PROVE  /\ agg \in AggRecords(Len(dev)) /\ Len(agg.queue.items) <= 1
           /\ agg.queue \in FrameQueues /\ agg.queue.items \in Seq(Framesets)
           /\ DOMAIN agg.queue.items = 1 .. Len(agg.queue.items)
           /\ Len(agg.queue.items) \in Nat
           /\ \A i \in DOMAIN agg.queue.items : agg.queue.items[i] \in Framesets
           /\ agg.last \in Framesets /\ agg.streams \in SUBSET Streams
           /\ agg.strays \in SUBSET ((1 .. Len(dev)) \X Streams)
           /\ agg.dev \in 0 .. Len(dev)
           /\ sent \in Framesets /\ base \in Framesets /\ shown \in Framesets
           /\ MaxFrames \in Nat
           /\ \A f \in Framesets : \A s \in Streams : f[s] \in Nat /\ f[s] <= MaxFrames
<1>1. /\ agg \in AggRecords(Len(dev)) /\ Len(agg.queue.items) <= 1
      /\ sent \in Framesets /\ base \in Framesets /\ shown \in Framesets
  BY DEF PipelineTypeOK, AggRecords, FrameQueues
<1>2. /\ agg.queue \in FrameQueues /\ agg.last \in Framesets /\ agg.dev \in 0 .. Len(dev)
      /\ agg.streams \in SUBSET Streams
      /\ agg.strays \in SUBSET ((1 .. Len(dev)) \X Streams)
  BY <1>1 DEF AggRecords
<1>3. agg.queue.items \in Seq(Framesets)
  BY <1>2 DEF FrameQueues
<1>4. /\ DOMAIN agg.queue.items = 1 .. Len(agg.queue.items)
      /\ Len(agg.queue.items) \in Nat
      /\ \A i \in DOMAIN agg.queue.items : agg.queue.items[i] \in Framesets
  BY <1>3, LenProperties, ElementOfSeq
<1>5. MaxFrames \in Nat
  BY PipelineAssumption
<1>6. \A f \in Framesets : \A s \in Streams : f[s] \in Nat /\ f[s] <= MaxFrames
  BY <1>5 DEF Framesets
<1> QED BY <1>1, <1>2, <1>3, <1>4, <1>5, <1>6

\* The streams of which there is a frame.
Present(frames) == {s \in Streams : frames[s] # 0}

\* The frames that are there with those of set go out as one frameset.
PassedOn(set) ==
    /\ Len(agg'.queue.items) = 1 /\ agg'.queue.items[1] = agg'.last
    /\ IF set \subseteq Synced
       THEN \A s \in agg.streams : agg'.last[s] # 0
       ELSE /\ agg.streams \cap Synced = {}
            /\ Cardinality(Present(agg'.last))
                  + Cardinality(agg'.strays) = Cardinality(agg.streams)

\* What a delivery leaves in the aggregator: the frames of its own object, and
\* a frameset when it counted as many entries as it has streams.
LEMMA DeliverIs ==
    ASSUME ShapeInv, NEW d \in DOMAIN dev, NEW set \in SUBSET dev[d].on, Deliver(d, set)
    PROVE  /\ set \subseteq dev[d].streams /\ set \in SUBSET Streams
           /\ sent' \in Framesets
           /\ \A s \in Streams : sent'[s] = IF s \in set THEN sent[s] + 1 ELSE sent[s]
           /\ UNCHANGED <<base, shown, dev>>
           /\ agg' \in AggRecords(Len(dev)) /\ Len(agg'.queue.items) <= 1
           /\ ~agg.accepting => agg' = agg
           /\ agg.accepting =>
                /\ agg'.accepting = agg.accepting /\ agg'.dev = agg.dev
                /\ agg'.streams = agg.streams
                /\ agg'.strays = agg.strays \cup (IF d = agg.dev THEN {} ELSE {d} \X set)
                /\ \A s \in Streams :
                      agg'.last[s] = IF d = agg.dev /\ s \in set THEN sent[s] + 1
                                     ELSE agg.last[s]
                /\ agg'.queue = agg.queue \/ PassedOn(set)
<1>1. PipelineTypeOK
  BY DEF ShapeInv
<1>2. /\ agg \in AggRecords(Len(dev)) /\ Len(agg.queue.items) <= 1
      /\ agg.queue \in FrameQueues
      /\ agg.last \in Framesets /\ agg.streams \in SUBSET Streams
      /\ agg.strays \in SUBSET ((1 .. Len(dev)) \X Streams)
      /\ sent \in Framesets /\ MaxFrames \in Nat
      /\ \A s \in Streams : sent[s] \in Nat
  BY <1>1, FrameTypes
<1>3. set \subseteq dev[d].streams /\ set \in SUBSET Streams /\ d \in 1 .. Len(dev)
  <2>1. dev[d].on \subseteq dev[d].streams
    BY DEF ShapeInv, DevInv
  <2>2. dev[d].streams \in SUBSET Streams /\ DOMAIN dev = 1 .. Len(dev)
    BY <1>1, CallTypes
  <2> QED BY <2>1, <2>2
<1>4. \A s \in Streams : sent'[s] = IF s \in set THEN sent[s] + 1 ELSE sent[s]
  BY DEF Deliver
<1>5. sent' \in Framesets
  <2>1. \A s \in Streams : (IF s \in set THEN sent[s] + 1 ELSE sent[s]) \in 0 .. MaxFrames
    <3> SUFFICES ASSUME NEW s \in Streams
                 PROVE  (IF s \in set THEN sent[s] + 1 ELSE sent[s]) \in 0 .. MaxFrames
      OBVIOUS
    <3>1. s \in set => sent[s] < MaxFrames
      BY DEF Deliver
    <3>2. sent[s] \in 0 .. MaxFrames
      BY <1>2 DEF Framesets
    <3> QED BY <1>2, <3>1, <3>2
  <2>2. sent' = [s \in Streams |-> IF s \in set THEN sent[s] + 1 ELSE sent[s]]
    BY DEF Deliver
  <2> QED BY <2>1, <2>2 DEF Framesets
<1>6. UNCHANGED <<base, shown, dev>>
  BY DEF Deliver, history, device
<1>7. ASSUME ~agg.accepting
      PROVE  agg' = agg
  BY <1>7 DEF Deliver
<1>8. ASSUME agg.accepting
      PROVE  /\ agg' \in AggRecords(Len(dev)) /\ Len(agg'.queue.items) <= 1
             /\ agg'.accepting = agg.accepting /\ agg'.dev = agg.dev
             /\ agg'.streams = agg.streams
             /\ agg'.strays = agg.strays \cup (IF d = agg.dev THEN {} ELSE {d} \X set)
             /\ \A s \in Streams :
                   agg'.last[s] = IF d = agg.dev /\ s \in set THEN sent[s] + 1
                                  ELSE agg.last[s]
             /\ agg'.queue = agg.queue \/ PassedOn(set)
  <2> DEFINE new == [s \in set |-> sent'[s]]
             last == [s \in Streams |-> IF d = agg.dev /\ s \in set THEN new[s]
                                        ELSE agg.last[s]]
             strays == agg.strays \cup (IF d = agg.dev THEN {} ELSE {d} \X set)
             whole == IF set \subseteq Synced THEN \A s \in agg.streams : last[s] # 0
                      ELSE /\ agg.streams \cap Synced = {}
                           /\ Cardinality({s \in Streams : last[s] # 0})
                                 + Cardinality(strays) = Cardinality(agg.streams)
             queue == IF whole THEN Enqueued(agg.queue, 1, last) ELSE agg.queue
  <2>1. agg' = [agg EXCEPT !.last = last, !.strays = strays, !.queue = queue]
    <3>1. agg' = Aggregated(d, new, set \subseteq Synced)
      BY <1>8 DEF Deliver
    <3>2. DOMAIN new = set
      OBVIOUS
    <3> HIDE DEF new
    <3> QED BY <3>1, <3>2 DEF Aggregated
  <2>2. \A s \in Streams : last[s] = IF d = agg.dev /\ s \in set THEN sent[s] + 1
                                     ELSE agg.last[s]
    BY <1>4
  <2>3. last \in Framesets
    <3>1. \A s \in Streams : (IF d = agg.dev /\ s \in set THEN new[s] ELSE agg.last[s])
                                \in 0 .. MaxFrames
      BY <1>2, <1>5 DEF Framesets
    <3> HIDE DEF new
    <3> QED BY <3>1 DEF Framesets
  <2>4. strays \in SUBSET ((1 .. Len(dev)) \X Streams)
    BY <1>2, <1>3
  <2> HIDE DEF last
  <2>5. /\ queue \in FrameQueues
        /\ \/ queue = agg.queue
           \/ whole /\ Len(queue.items) = 1 /\ queue.items[1] = last
    <3> HIDE DEF whole
    <3>1. /\ Enqueued(agg.queue, 1, last) \in FrameQueues
          /\ \/ Enqueued(agg.queue, 1, last) = agg.queue
             \/ /\ Len(Enqueued(agg.queue, 1, last).items) = 1
                /\ Enqueued(agg.queue, 1, last).items[1] = last
      BY <1>2, <2>3, EnqueuedOne DEF FrameQueues
    <3> QED BY <1>2, <3>1
  <2>6. Len(queue.items) <= 1
    <3> HIDE DEF queue, whole
    <3>1. CASE queue = agg.queue
      BY <1>2, <3>1
    <3>2. CASE Len(queue.items) = 1
      BY <3>2
    <3> QED BY <2>5, <3>1, <3>2
  <2> HIDE DEF strays, queue
  <2>7. /\ agg' \in AggRecords(Len(dev)) /\ agg'.queue = queue
        /\ agg'.last = last /\ agg'.strays = strays
        /\ agg'.accepting = agg.accepting /\ agg'.dev = agg.dev
        /\ agg'.streams = agg.streams
    BY <1>2, <2>1, <2>3, <2>4, <2>5 DEF AggRecords
  <2>8. agg'.queue = agg.queue \/ PassedOn(set)
    BY <2>5, <2>7 DEF Present, PassedOn
  <2>9. /\ Len(agg'.queue.items) <= 1
        /\ agg'.strays = agg.strays \cup (IF d = agg.dev THEN {} ELSE {d} \X set)
        /\ \A s \in Streams :
              agg'.last[s] = IF d = agg.dev /\ s \in set THEN sent[s] + 1
                             ELSE agg.last[s]
    BY <2>2, <2>6, <2>7 DEF strays
  <2> QED BY <2>7, <2>8, <2>9
<1> QED BY <1>2, <1>3, <1>4, <1>5, <1>6, <1>7, <1>8

\* The type of every variable is kept.
LEMMA TypesStep ==
    ASSUME ShapeInv, [PipelineNext]_pipelineVars
    PROVE  PipelineTypeOK'
<1>1. PipelineTypeOK /\ DevInv
  BY DEF ShapeInv
<1>2. /\ Len(dev) \in Nat /\ DOMAIN dev = 1 .. Len(dev) /\ dev \in Seq(DeviceObjects)
      /\ call \in CallRecords(Len(dev)) /\ call.conf \in Configs /\ call.dev \in Nat
      /\ call.dev <= Len(dev) /\ active \in Nat /\ active <= Len(dev)
  BY <1>1, CallTypes, ObjectTypes
<1>3. {MaxStarts, MaxFaults, MaxEnds, MaxPlugs} \subseteq Nat
  BY PipelineAssumption
<1>4. kind' \in Kinds /\ plugs' \in 0 .. MaxPlugs /\ plugged' \in {0, plugs'}
  <2>1. kind' \in Kinds
    BY <1>1, CableSteps DEF PipelineTypeOK
  <2>2. CASE UNCHANGED <<plugged, plugs>>
    BY <1>1, <2>1, <2>2 DEF PipelineTypeOK
  <2>3. CASE Unplug /\ plugged' = 0 /\ plugs' = plugs
    BY <1>1, <2>1, <2>3 DEF PipelineTypeOK
  <2>4. CASE PlugIn /\ plugs' = plugs + 1 /\ plugged' = plugs + 1
    <3>1. plugs < MaxPlugs
      BY <1>1, <2>4 DEF PlugIn, DevInv
    <3>2. plugs + 1 \in 0 .. MaxPlugs
      BY <1>1, <3>1, PlugTypes
    <3> QED BY <2>1, <2>4, <3>2
  <2> QED BY <2>2, <2>3, <2>4, CableSteps
<1>5. /\ dev' \in Seq(DeviceObjects) /\ Len(dev') <= MaxStarts + MaxPlugs
      /\ Len(dev') \in Nat /\ Len(dev') >= Len(dev)
  <2>1. Len(dev) <= MaxStarts + MaxPlugs
    BY <1>1 DEF PipelineTypeOK
  <2>2. CASE SameObjects
    BY <1>2, <2>1, <2>2 DEF SameObjects
  <2>3. CASE Resolve
    <3>1. CASE UNCHANGED dev
      BY <1>2, <2>1, <3>1
    <3>2. CASE ~UNCHANGED dev
      <4>1. Len(dev') = Len(dev) + 1 /\ Len(dev) + 1 \in Objects /\ dev' \in Seq(DeviceObjects)
        BY <2>3, <3>2, ObjectResolved, ResolveCounts
      <4>2. Len(dev) + 1 <= MaxStarts + MaxPlugs
        BY <4>1 DEF Objects
      <4> QED BY <1>2, <4>1, <4>2
    <3> QED BY <3>1, <3>2
  <2> QED BY <2>2, <2>3, ObjectsStay
<1>6. \A n \in 0 .. Len(dev) : n \in 0 .. Len(dev')
  BY <1>2, <1>5
<1>7. prev_conf' \in Configs \cup {NoConf}
  <2>1. CASE UNCHANGED prev_conf
    BY <1>1, <2>1 DEF PipelineTypeOK
  <2>2. CASE SetConf
    BY <1>2, <2>2, ResolvedIs DEF SetConf
  <2>3. CASE ResetConf
    BY <2>3 DEF ResetConf
  <2>4. UNCHANGED prev_conf \/ SetConf \/ ResetConf
    <3>1. CASE CallSteps
      BY <3>1 DEF CallSteps, conf, StartCall, Resolve, ResolveFails, OnStart, OpenSensor,
              StartSensor, SensorThrows, SetActive, SetConf, StopCall, Halt, StopSensor,
              CloseSensor, StopThrows, StopDispatcher, Reset, ResetConf, WaitCall, Dequeue,
              WaitTimesOut
    <3> QED BY <3>1, StepsBeside
  <2> QED BY <2>1, <2>2, <2>3, <2>4
<1>8. active' \in 0 .. Len(dev')
  <2>1. active' \in 0 .. Len(dev)
    BY <1>2, ActiveSteps
  <2> QED BY <1>6, <2>1
<1>9. callback' \in BOOLEAN
  <2>1. callback \in BOOLEAN
    BY <1>1 DEF PipelineTypeOK
  <2>2. CASE CallSteps
    BY <2>1, <2>2 DEF CallSteps, StartCall, Resolve, ResolveFails, OnStart, OpenSensor,
              StartSensor, SensorThrows, SetActive, SetConf, StopCall, Halt, StopSensor,
              CloseSensor, StopThrows, StopDispatcher, Reset, ResetConf, WaitCall, Dequeue,
              WaitTimesOut
  <2> QED BY <2>1, <2>2, StepsBeside
<1>10. call' \in CallRecords(Len(dev'))
  <2>1. CASE Resolve
    BY <2>1, ResolveFields
  <2>2. CASE ~Resolve
    <3>1. call' \in CallRecords(Len(dev))
      <4>1. CASE UNCHANGED call
        BY <1>2, <4>1
      <4>2. CASE CallSteps
        BY <2>2, <4>2, LaunchFields, HaltFields, WaitFields DEF CallSteps
      <4> QED BY <4>1, <4>2, StepsBeside
    <3>2. Len(dev') = Len(dev)
      BY <2>2, ObjectsStay DEF SameObjects
    <3> QED BY <3>1, <3>2
  <2> QED BY <2>1, <2>2
<1>11. /\ agg' \in AggRecords(Len(dev')) /\ Len(agg'.queue.items) <= 1
       /\ sent' \in Framesets /\ base' \in Framesets /\ shown' \in Framesets
  <2>1. /\ agg \in AggRecords(Len(dev)) /\ Len(agg.queue.items) <= 1
        /\ agg.queue \in FrameQueues /\ agg.queue.items \in Seq(Framesets)
        /\ sent \in Framesets /\ base \in Framesets /\ shown \in Framesets
    BY <1>1, FrameTypes
  <2>2. <<>> \in Seq(Framesets) /\ Len(<<>>) = 0 /\ 0 <= 1
    BY EmptySeq
  <2>3. ASSUME agg' \in AggRecords(Len(dev))
        PROVE  agg' \in AggRecords(Len(dev'))
    <3>1. (1 .. Len(dev)) \X Streams \subseteq (1 .. Len(dev')) \X Streams
      BY <1>2, <1>5
    <3>2. 0 .. Len(dev) \subseteq 0 .. Len(dev')
      BY <1>6
    <3>3. SUBSET ((1 .. Len(dev)) \X Streams) \subseteq SUBSET ((1 .. Len(dev')) \X Streams)
      BY <3>1
    <3> QED BY <2>3, <3>2, <3>3 DEF AggRecords
  <2>4. CASE UNCHANGED <<agg, sent, base, shown>>
    BY <2>1, <2>3, <2>4
  <2>5. CASE OnStart /\ UNCHANGED <<sent, shown>>
    <3>1. /\ agg' = [accepting |-> TRUE, dev |-> call.dev, streams |-> dev[call.dev].streams,
                     last |-> NoFrames, strays |-> {},
                     queue |-> [items |-> <<>>, accepting |-> TRUE]]
          /\ base' = sent /\ call.at = "on_start"
      BY <2>5 DEF OnStart, OpenQueue
    <3>2. dev[call.dev].streams \in SUBSET Streams /\ call.dev \in 0 .. Len(dev)
      BY <1>1, <1>2, <3>1, CallTypes DEF ShapeInv, CallInv, Launching
    <3>3. NoFrames \in Framesets
      <4>1. 0 \in 0 .. MaxFrames
        BY <1>1, FrameTypes
      <4> QED BY <4>1 DEF NoFrames, Framesets
    <3>4. [items |-> <<>>, accepting |-> TRUE] \in FrameQueues
      BY <2>2 DEF FrameQueues
    <3>5. agg' \in AggRecords(Len(dev)) /\ agg'.queue.items = <<>>
      BY <3>1, <3>2, <3>3, <3>4 DEF AggRecords
    <3> QED BY <2>1, <2>2, <2>3, <2>5, <3>1, <3>5
  <2>6. CASE Halt /\ UNCHANGED <<sent, shown>>
    <3>1. /\ agg' = [agg EXCEPT !.accepting = FALSE,
                               !.queue = [items |-> <<>>, accepting |-> FALSE]]
          /\ base' = base
      BY <2>6 DEF Halt, Stopped, history
    <3>2. [items |-> <<>>, accepting |-> FALSE] \in FrameQueues
      BY <2>2 DEF FrameQueues
    <3>3. agg' \in AggRecords(Len(dev)) /\ agg'.queue.items = <<>>
      BY <2>1, <3>1, <3>2 DEF AggRecords
    <3> QED BY <2>1, <2>2, <2>3, <2>6, <3>1, <3>3
  <2>7. CASE Dequeue /\ UNCHANGED <<sent, base>>
    <3>1. /\ agg' = [agg EXCEPT !.queue = [agg.queue EXCEPT !.items = Tail(agg.queue.items)]]
          /\ agg.queue.items # <<>> /\ shown' = Head(agg.queue.items)
      BY <2>7 DEF Dequeue, Dequeued
    <3>2. /\ Head(agg.queue.items) \in Framesets /\ Tail(agg.queue.items) \in Seq(Framesets)
          /\ Len(Tail(agg.queue.items)) = Len(agg.queue.items) - 1
          /\ Len(agg.queue.items) \in Nat
      BY <2>1, <3>1, HeadTailProperties, LenProperties
    <3>3. [agg.queue EXCEPT !.items = Tail(agg.queue.items)] \in FrameQueues
          /\ [agg.queue EXCEPT !.items = Tail(agg.queue.items)].items = Tail(agg.queue.items)
      BY <2>1, <3>2 DEF FrameQueues
    <3>4. agg' \in AggRecords(Len(dev)) /\ agg'.queue.items = Tail(agg.queue.items)
      BY <2>1, <3>1, <3>3 DEF AggRecords
    <3>5. Len(agg'.queue.items) <= 1
      BY <2>1, <3>2, <3>4
    <3> QED BY <2>1, <2>3, <2>7, <3>1, <3>2, <3>4, <3>5
  <2>8. CASE \E d \in DOMAIN dev : \E set \in (SUBSET dev[d].on) \ {{}} : Deliver(d, set)
    BY <2>1, <2>3, <2>8, DeliverIs
  <2> QED BY <2>4, <2>5, <2>6, <2>7, <2>8, FrameSteps
<1>12. /\ dispatcher' \in DispatcherQueues /\ raising' \in BOOLEAN
       /\ subscribed' \in 0 .. Len(dev') /\ crashed' \in BOOLEAN
       /\ item' \in ItemRecords(Len(dev'))
  <2>1. /\ dispatcher' \in DispatcherQueues /\ raising' \in BOOLEAN /\ crashed' \in BOOLEAN
        /\ subscribed' \in 0 .. Len(dev')
    BY <1>6, DispatcherFields, ItemFields
  <2>2. item' \in ItemRecords(Len(dev)) /\ 0 .. Len(dev) \subseteq 0 .. Len(dev')
    BY <1>6, ItemFields
  <2>3. item' \in ItemRecords(Len(dev'))
    BY <2>2 DEF ItemRecords
  <2> QED BY <2>1, <2>3
<1>13. starts' \in 0 .. MaxStarts /\ faults' \in 0 .. MaxFaults /\ ends' \in 0 .. MaxEnds
  <2>1. starts \in 0 .. MaxStarts /\ faults \in 0 .. MaxFaults /\ ends \in 0 .. MaxEnds
    BY <1>1 DEF PipelineTypeOK
  <2>2. CASE UNCHANGED pipelineVars
    BY <2>1, <2>2 DEF pipelineVars, bounds
  <2>3. CASE StartCall
    BY <1>3, <2>1, <2>3 DEF StartCall
  <2>4. CASE SensorThrows
    <3>1. UNCHANGED <<starts, ends>> /\ 
          (UNCHANGED faults \/ (faults < MaxFaults /\ faults' = faults + 1))
      BY <2>4 DEF SensorThrows
    <3> QED BY <1>3, <2>1, <3>1
  <2>5. CASE \E d \in DOMAIN dev : EndOfFile(d)
    <3>1. UNCHANGED <<starts, faults>> /\ ends < MaxEnds /\ ends' = ends + 1
      BY <2>5 DEF EndOfFile
    <3> QED BY <1>3, <2>1, <3>1
  <2>6. UNCHANGED bounds \/ StartCall \/ SensorThrows \/ \E d \in DOMAIN dev : EndOfFile(d)
    <3>1. CASE UNCHANGED pipelineVars
      BY <3>1 DEF pipelineVars
    <3>2. CASE CallSteps
      BY <3>2 DEF CallSteps, StartCall, Resolve, ResolveFails, OnStart, OpenSensor,
              StartSensor, SensorThrows, SetActive, SetConf, StopCall, Halt, StopSensor,
              CloseSensor, StopThrows, StopDispatcher, Reset, ResetConf, WaitCall, Dequeue,
              WaitTimesOut
    <3>3. CASE Configure \/ Unplug \/ PlugIn \/ InvokeRepeat \/ TakeItem \/ ItemRuns
      BY <3>3 DEF Configure, Unplug, PlugIn, InvokeRepeat, TakeItem, ItemRuns,
              ReadActive, ReadConf, ReopenSensor, RestartSensor
    <3>4. CASE \E d \in DOMAIN dev : \/ Destroyed(d)
                 \/ \E set \in (SUBSET dev[d].on) \ {{}} : Deliver(d, set)
      BY <3>4 DEF Destroyed, Deliver
    <3> QED BY <3>1, <3>2, <3>3, <3>4 DEF PipelineNext, CallStep, CallSteps
  <2>7. CASE UNCHANGED bounds
    BY <2>1, <2>7 DEF bounds
  <2> QED BY <2>3, <2>4, <2>5, <2>6, <2>7
<1>14. user_conf' \in Configs
  BY UserConfStep
<1> QED BY <1>4, <1>5, <1>7, <1>8, <1>9, <1>10, <1>11, <1>12, <1>13, <1>14
    DEF PipelineTypeOK, DeviceObjects, CallRecords, AggRecords, FrameQueues,
        DispatcherQueues, ItemRecords

\* At first there is no device object, no call and no active profile.
LEMMA ShapeInvInit ==
    ASSUME PipelineInit
    PROVE  ShapeInv
<1>1. /\ {MaxStarts, MaxFrames, MaxFaults, MaxEnds, MaxPlugs} \subseteq Nat /\ MaxPlugs >= 1
      /\ Confs \subseteq [want : SUBSET Streams, disabled : SUBSET Streams, cached : {0}]
  BY PipelineAssumption
<1>2. dev = <<>> /\ Len(dev) = 0 /\ DOMAIN dev = {} /\ 1 .. Len(dev) = {}
  BY EmptySeq DEF PipelineInit
<1>3. user_conf \in Configs /\ user_conf.cached = 0
  BY <1>1 DEF PipelineInit, Configs
<1>4. /\ call \in CallRecords(0) /\ call.op = "none" /\ call.at = "none" /\ call.dev = 0
      /\ call.conf.cached = 0
  BY NoCallIs DEF PipelineInit
<1>5. NoFrames \in Framesets
  <2>1. 0 \in 0 .. MaxFrames
    BY <1>1
  <2> QED BY <2>1 DEF NoFrames, Framesets
<1>6. agg \in AggRecords(0) /\ agg.queue.items = <<>>
  <2>1. agg = [accepting |-> FALSE, dev |-> 0, streams |-> {}, last |-> NoFrames,
               strays |-> {}, queue |-> [items |-> <<>>, accepting |-> TRUE]]
    BY DEF PipelineInit, OpenQueue
  <2>2. [items |-> <<>>, accepting |-> TRUE] \in FrameQueues
    BY DEF FrameQueues
  <2>3. {} \in SUBSET ((1 .. 0) \X Streams) /\ {} \in SUBSET Streams /\ 0 \in 0 .. 0
    OBVIOUS
  <2> QED BY <1>5, <2>1, <2>2, <2>3 DEF AggRecords
<1>7. dispatcher \in DispatcherQueues /\ dispatcher.items = <<>>
  <2>1. dispatcher = [items |-> <<>>, accepting |-> FALSE]
    BY DEF PipelineInit, Stopped
  <2> QED BY <2>1 DEF DispatcherQueues
<1>8. item \in ItemRecords(0) /\ item.at = "none"
  BY DEF PipelineInit, NoItem, ItemRecords
<1>9. /\ plugs \in 0 .. MaxPlugs /\ starts \in 0 .. MaxStarts /\ faults \in 0 .. MaxFaults
      /\ ends \in 0 .. MaxEnds /\ Len(dev) <= MaxStarts + MaxPlugs
  BY <1>1, <1>2 DEF PipelineInit
<1>10. PipelineTypeOK
  <2>1. /\ kind \in Kinds /\ plugged \in {0, plugs} /\ prev_conf \in Configs \cup {NoConf}
        /\ active \in 0 .. Len(dev) /\ subscribed \in 0 .. Len(dev)
        /\ callback \in BOOLEAN /\ raising \in BOOLEAN /\ crashed \in BOOLEAN
        /\ sent \in Framesets /\ base \in Framesets /\ shown \in Framesets
    <3>1. active \in 0 .. Len(dev) /\ subscribed \in 0 .. Len(dev)
      BY <1>2 DEF PipelineInit
    <3>2. plugged \in {0, plugs} /\ prev_conf \in Configs \cup {NoConf} /\ kind \in Kinds
      BY DEF PipelineInit
    <3>3. callback \in BOOLEAN /\ raising \in BOOLEAN /\ crashed \in BOOLEAN
      BY DEF PipelineInit
    <3>4. sent \in Framesets /\ base \in Framesets /\ shown \in Framesets
      BY <1>5 DEF PipelineInit
    <3> QED BY <3>1, <3>2, <3>3, <3>4
  <2>2. dev \in Seq(DeviceObjects) /\ Len(agg.queue.items) <= 1
    BY <1>2, <1>6
  <2> QED BY <1>2, <1>3, <1>4, <1>6, <1>7, <1>8, <1>9, <2>1, <2>2
          DEF PipelineTypeOK, DeviceObjects, CallRecords, AggRecords, FrameQueues,
              DispatcherQueues, ItemRecords
<1>11. CallInv
  BY <1>4 DEF CallInv, Launching, Stopping, PipelineInit
<1>12. DevInv
  BY <1>2, <1>1 DEF DevInv, PipelineInit
<1>13. ItemInv
  BY <1>7, <1>8 DEF ItemInv, PipelineInit
<1>14. ConfInv
  BY <1>2, <1>3, <1>4 DEF ConfInv, PipelineInit, Launching, Reconnecting
<1>15. CountInv
  BY <1>2, <1>3, <1>4 DEF CountInv, PipelineInit, Launching, Reconnecting, LastInc
<1> QED BY <1>10, <1>11, <1>12, <1>13, <1>14, <1>15 DEF ShapeInv

LEMMA ShapeInvStep == ShapeInv /\ [PipelineNext]_pipelineVars => ShapeInv'
BY TypesStep, CallInvStep, DevInvStep, ItemInvStep, ConfInvStep, CountInvStep DEF ShapeInv

\* Which places a call of pipeline.cpp passes with which device object, profile
\* and configuration, over every call, reconnection and repeat of a file; and the
\* types.
THEOREM ShapeInvariant == PipelineSpec => []ShapeInv
<1>1. PipelineInit => ShapeInv
  BY ShapeInvInit
<1> QED BY <1>1, ShapeInvStep, PTL DEF PipelineSpec

-----------------------------------------------------------------------------
(* The streams that are on.                                                *)

\* What a step does to the sensors of one object of a camera.
LEMMA OnSteps ==
    ASSUME ShapeInv, [PipelineNext]_pipelineVars, kind = "camera", NEW e \in DOMAIN dev
    PROVE  \/ dev'[e].on = dev[e].on /\ dev'[e].open = dev[e].open
           \/ /\ OpenSensor /\ e = call.dev /\ dev'[e].on = dev[e].on
              /\ dev'[e].open = dev[e].open \cup {Max(call.todo)}
           \/ /\ StartSensor /\ e = call.dev /\ dev'[e].open = dev[e].open
              /\ dev'[e].on = dev[e].on \cup {Min(call.todo)}
           \/ /\ StopSensor /\ e = call.dev
              /\ dev'[e].on = dev[e].on \ {Min(call.todo)}
           \/ CloseSensor /\ e = call.dev /\ dev'[e].on = dev[e].on
           \/ e \notin {active, call.dev} /\ dev'[e].on = {}
<1>1. PipelineTypeOK /\ item.at = "none"
  BY DEF ShapeInv, ItemInv
<1>2. CASE UNCHANGED dev
  BY <1>2
<1>3. CASE Resolve
  BY <1>2, <1>3, ObjectResolved
<1>4. CASE OpenSensor
  <2>1. call.at = "open" /\ dev' = Opened(call.dev, Max(call.todo))
    BY <1>4 DEF OpenSensor
  <2>2. call.dev \in DOMAIN dev /\ Max(call.todo) \in dev[call.dev].streams
    BY <2>1, SensorsLeft
  <2> QED BY <1>1, <1>4, <2>1, <2>2, SensorChange
<1>5. CASE StartSensor
  <2>1. call.at = "start" /\ dev' = On(call.dev, Min(call.todo))
    BY <1>5 DEF StartSensor
  <2>2. call.dev \in DOMAIN dev /\ Min(call.todo) \in dev[call.dev].streams
    BY <2>1, SensorsLeft
  <2> QED BY <1>1, <1>5, <2>1, <2>2, SensorChange
<1>6. CASE StopSensor
  <2>1. call.at = "stop" /\ dev' = Off(call.dev, Min(call.todo))
    BY <1>6 DEF StopSensor
  <2>2. call.dev \in DOMAIN dev /\ Min(call.todo) \in dev[call.dev].streams
    BY <2>1, SensorsLeft
  <2> QED BY <1>1, <1>6, <2>1, <2>2, SensorChange
<1>7. CASE CloseSensor
  <2>1. call.at = "close" /\ dev' = Closed(call.dev, Min(call.todo))
    BY <1>7 DEF CloseSensor
  <2>2. call.dev \in DOMAIN dev /\ Min(call.todo) \in dev[call.dev].streams
    BY <2>1, SensorsLeft
  <2> QED BY <1>1, <1>7, <2>1, <2>2, SensorChange
<1>8. ASSUME NEW d \in DOMAIN dev, Destroyed(d)
      PROVE  \/ dev'[e].on = dev[e].on /\ dev'[e].open = dev[e].open
             \/ e \notin {active, call.dev} /\ dev'[e].on = {}
  <2>1. d \notin {active, call.dev}
    BY <1>8 DEF Destroyed
  <2> QED BY <1>1, <1>8, <2>1, ObjectStops
<1>9. ~ReopenSensor /\ ~RestartSensor /\ \A d \in DOMAIN dev : ~EndOfFile(d)
  BY <1>1 DEF ReopenSensor, RestartSensor, ItemStep, EndOfFile, IsFile
<1> QED BY <1>2, <1>3, <1>4, <1>5, <1>6, <1>7, <1>8, <1>9, ObjectSteps

\* The streams that are on are those a call has started and not stopped, in
\* every step.
LEMMA SensorInvStep ==
    ASSUME ShapeInv, SensorInv, [PipelineNext]_pipelineVars
    PROVE  SensorInv'
<1>1. PipelineTypeOK /\ CallInv /\ DevInv /\ kind' = kind
  BY CableSteps DEF ShapeInv
<1> SUFFICES ASSUME kind = "camera"
             PROVE  SensorInv'
  BY <1>1 DEF SensorInv
<1>2. /\ active # 0 => active \in DOMAIN dev
      /\ call.dev # 0 => call.dev \in DOMAIN dev
  BY <1>1, CallTypes
<1>3. \A d \in DOMAIN dev : /\ dev'[d].streams = dev[d].streams
                            /\ Gone(d) => Gone(d)'
  BY GoneStays
<1>4. /\ active # 0 /\ call.at \notin Stopping => dev[active].on = dev[active].streams
      /\ call.at = "start" => dev[call.dev].streams \ call.todo \subseteq dev[call.dev].on
      /\ call.at = "set_active" => dev[call.dev].on = dev[call.dev].streams
      /\ call.at = "stop" => dev[call.dev].on = call.todo
      /\ call.at \in {"close", "stop_dispatcher"} => dev[call.dev].on = {}
      /\ call.at = "reset" => Gone(call.dev) \/ dev[call.dev].on = {}
  BY DEF SensorInv
<1>5. ASSUME UNCHANGED dev \/ UNCHANGED call \/ call.at \notin {"start", "stop"}
      PROVE  \A d \in {active, call.dev} :
                d # 0 => /\ dev'[d].on = dev[d].on /\ dev'[d].streams = dev[d].streams
                         /\ Gone(d) => Gone(d)'
  <2>1. CASE UNCHANGED dev
    BY <1>2, <1>3, <2>1
  <2>2. CASE ~StartSensor /\ ~StopSensor
    BY <1>2, <1>3, <2>2, OnSteps
  <2>3. StartSensor => call.at = "start" /\ ~UNCHANGED call
    <3>1. StartSensor => call.at = "start" /\ Min(call.todo) \in call.todo
      BY SensorsLeft DEF StartSensor
    <3> QED BY <3>1, LaunchFields DEF Goes
  <2>4. StopSensor => call.at = "stop" /\ ~UNCHANGED call
    <3>1. StopSensor => call.at = "stop" /\ Min(call.todo) \in call.todo
      BY SensorsLeft DEF StopSensor
    <3> QED BY <3>1, HaltFields DEF Goes
  <2> QED BY <1>5, <2>1, <2>2, <2>3, <2>4
<1>6. ASSUME kind' = "camera",
             active' # 0 /\ call'.at \notin Stopping => dev'[active'].on = dev'[active'].streams,
             call'.at = "start" =>
                dev'[call'.dev].streams \ call'.todo \subseteq dev'[call'.dev].on,
             call'.at = "set_active" => dev'[call'.dev].on = dev'[call'.dev].streams,
             call'.at = "stop" => dev'[call'.dev].on = call'.todo,
             call'.at \in {"close", "stop_dispatcher"} => dev'[call'.dev].on = {},
             call'.at = "reset" => Gone(call.dev)' \/ dev'[call'.dev].on = {}
      PROVE  SensorInv'
  BY <1>6 DEF SensorInv
<1>7. CASE UNCHANGED <<call, active>>
  <2>1. call.at \in Stopping \cup Launching => call.dev # 0
    BY <1>1 DEF CallInv
  <2>2. call'.at = "reset" => Gone(call.dev)' \/ dev'[call'.dev].on = {}
    BY <1>4, <1>5, <1>7, <2>1 DEF Stopping
  <2>3. /\ active' # 0 /\ call'.at \notin Stopping => dev'[active'].on = dev'[active'].streams
        /\ call'.at = "start" =>
              dev'[call'.dev].streams \ call'.todo \subseteq dev'[call'.dev].on
        /\ call'.at = "set_active" => dev'[call'.dev].on = dev'[call'.dev].streams
        /\ call'.at = "stop" => dev'[call'.dev].on = call'.todo
        /\ call'.at \in {"close", "stop_dispatcher"} => dev'[call'.dev].on = {}
    BY <1>4, <1>5, <1>7, <2>1 DEF Stopping, Launching
  <2> QED BY <1>1, <1>6, <2>2, <2>3
<1>8. ASSUME call'.at \notin Stopping \cup {"start", "set_active"}, UNCHANGED active,
             active # 0 => /\ UNCHANGED dev \/ call.at \notin {"start", "stop"}
                           /\ call.at \notin Stopping
      PROVE  SensorInv'
  <2>1. active' # 0 => dev'[active'].on = dev'[active'].streams
    BY <1>4, <1>5, <1>8
  <2>2. /\ call'.at \notin {"start", "set_active", "stop", "close", "stop_dispatcher", "reset"}
    BY <1>8 DEF Stopping
  <2> QED BY <1>1, <1>6, <2>1, <2>2
<1>9. CASE StartCall \/ Resolve \/ OnStart
  <2>1. call'.at \in {"resolve", "on_start", "open"} /\ UNCHANGED active /\ active = 0
    BY <1>1, <1>9, LaunchFields, ResolveFields
       DEF StartCall, Resolve, OnStart, CallInv, Launching, Goes
  <2> QED BY <1>8, <2>1 DEF Stopping
<1>10. CASE Dequeue \/ ResolveFails \/ SensorThrows \/ SetConf \/ StopCall \/ WaitCall
            \/ WaitTimesOut
  <2>1. call'.at \in {"none", "rewait", "halt", "wait"}
    BY <1>10, LaunchFields, HaltFields, WaitFields, NoCallIs DEF Goes
  <2>2. UNCHANGED <<active, dev>>
    BY <1>10 DEF Dequeue, ResolveFails, SensorThrows, SetConf, StopCall, WaitCall,
                 WaitTimesOut, device
  <2>3. active # 0 => call.at \notin Stopping
    BY <1>1, <1>10, NoCallIs
       DEF Dequeue, ResolveFails, SensorThrows, SetConf, StopCall, WaitCall, WaitTimesOut,
           MayAsk, CallInv, Launching, Stopping
  <2> QED BY <1>8, <2>1, <2>2, <2>3 DEF Stopping
<1>11. CASE OpenSensor
  <2>1. /\ call.at = "open" /\ active = 0 /\ UNCHANGED active
        /\ \/ Goes("open")
           \/ Goes("start") /\ call'.todo = dev[call.dev].streams
    BY <1>1, <1>11, LaunchFields DEF OpenSensor, CallInv, Launching
  <2>2. dev'[call.dev].streams = dev[call.dev].streams
    BY <1>1, <1>2, <1>3, <2>1 DEF CallInv, Launching
  <2> QED BY <1>1, <1>6, <2>1, <2>2 DEF Goes, Stopping
<1>12. CASE StartSensor
  <2> DEFINE s == Min(call.todo)
  <2>1. /\ call.at = "start" /\ active = 0 /\ UNCHANGED active
        /\ \/ Goes("set_active") /\ call.todo = {s}
           \/ Goes("start") /\ call'.todo = call.todo \ {s}
    BY <1>1, <1>12, LaunchFields DEF StartSensor, CallInv, Launching
  <2>2. call.dev \in DOMAIN dev
    BY <1>1, <1>2, <2>1 DEF CallInv, Launching
  <2>3. dev'[call.dev].on = dev[call.dev].on \cup {s}
    <3>1. dev' = On(call.dev, s) /\ s \in dev[call.dev].streams
      BY <1>12, <2>1, SensorsLeft DEF StartSensor
    <3> QED BY <1>1, <2>2, <3>1, SensorChange
  <2>4. dev'[call.dev].streams = dev[call.dev].streams
        /\ dev'[call.dev].on \subseteq dev'[call.dev].streams
    <3>1. DevInv' /\ call.dev \in DOMAIN dev'
      BY <2>2, DevInvStep, GoneStays
    <3> QED BY <1>3, <2>2, <3>1 DEF DevInv
  <2>5. dev[call.dev].streams \ call.todo \subseteq dev[call.dev].on
    BY <1>4, <2>1
  <2> HIDE DEF s
  <2>6. CASE Goes("set_active") /\ call.todo = {s}
    <3>1. dev'[call.dev].on = dev'[call.dev].streams
      BY <2>3, <2>4, <2>5, <2>6
    <3> QED BY <1>1, <1>6, <2>1, <2>6, <3>1 DEF Goes, Stopping
  <2>7. CASE Goes("start") /\ call'.todo = call.todo \ {s}
    <3>1. dev'[call.dev].streams \ call'.todo \subseteq dev'[call.dev].on
      BY <2>3, <2>4, <2>5, <2>7
    <3> QED BY <1>1, <1>6, <2>1, <2>7, <3>1 DEF Goes, Stopping
  <2> QED BY <2>1, <2>6, <2>7
<1>13. CASE SetActive
  <2>1. /\ call.at = "set_active" /\ active' = call.dev /\ Goes("set_conf") /\ UNCHANGED dev
    BY <1>13, LaunchFields DEF SetActive, device
  <2> QED BY <1>1, <1>4, <1>6, <2>1 DEF Goes, Stopping
<1>14. CASE Halt
  <2>1. /\ call.at = "halt" /\ call'.at = "stop" /\ call'.dev = active /\ UNCHANGED <<active, dev>>
        /\ call'.todo = dev[active].streams
    BY <1>14, HaltFields DEF Halt, device
  <2>2. dev[active].on = dev[active].streams
    BY <1>1, <1>4, <2>1 DEF CallInv, Stopping
  <2> QED BY <1>1, <1>6, <2>1, <2>2 DEF Stopping
<1>15. CASE StopSensor
  <2> DEFINE s == Min(call.todo)
  <2>1. /\ call.at = "stop"
        /\ \/ Goes("close") /\ call.todo = {s}
           \/ Goes("stop") /\ call'.todo = call.todo \ {s}
    BY <1>15, HaltFields DEF StopSensor
  <2>2. call.dev \in DOMAIN dev /\ dev[call.dev].on = call.todo
    BY <1>1, <1>2, <1>4, <2>1 DEF CallInv, Stopping
  <2>3. dev'[call.dev].on = dev[call.dev].on \ {s}
    <3>1. dev' = Off(call.dev, s) /\ s \in dev[call.dev].streams
      BY <1>15, <2>1, SensorsLeft DEF StopSensor
    <3> QED BY <1>1, <2>2, <3>1, SensorChange
  <2> HIDE DEF s
  <2>4. call'.dev = call.dev /\ call'.at \in {"stop", "close"} /\
        dev'[call.dev].on = IF call'.at = "stop" THEN call'.todo ELSE {}
    BY <2>1, <2>2, <2>3 DEF Goes
  <2> QED BY <1>1, <1>6, <2>4 DEF Stopping
<1>16. CASE CloseSensor
  <2>1. /\ call.at = "close" /\ (Goes("close") \/ Goes("stop_dispatcher"))
    BY <1>16, HaltFields DEF CloseSensor
  <2>2. dev'[call.dev].on = {}
    BY <1>1, <1>4, <1>5, <2>1 DEF CallInv, Stopping
  <2> QED BY <1>1, <1>6, <2>1, <2>2 DEF Goes, Stopping
<1>17. CASE StopThrows
  <2>1. /\ Goes("reset") /\ UNCHANGED dev
        /\ \/ call.at = "stop" /\ ~MustStop(call.dev, Min(call.todo))
           \/ call.at = "close" /\ ~MayClose(call.dev, Min(call.todo))
    BY <1>17, HaltFields DEF StopThrows, device
  <2>2. call.dev # 0
    BY <1>1, <2>1 DEF CallInv, Stopping
  <2>3. Gone(call.dev) \/ dev[call.dev].on = {}
    <3>1. CASE call.at = "stop" /\ ~MustStop(call.dev, Min(call.todo))
      <4>1. Min(call.todo) \in dev[call.dev].on
        BY <1>4, <3>1, SensorsLeft
      <4> QED BY <3>1, <4>1 DEF MustStop, MayStop
    <3>2. CASE call.at = "close"
      BY <1>4, <3>2
    <3> QED BY <2>1, <3>1, <3>2
  <2>4. call'.dev = call.dev /\ call'.at = "reset"
    BY <2>1 DEF Goes
  <2>5. Gone(call.dev)' \/ dev'[call'.dev].on = {}
    <3>1. CASE Gone(call.dev)
      <4>1. kind' = "camera" /\ dev'[call.dev].inc # plugged'
        BY <1>5, <2>1, <2>2, <3>1 DEF Gone
      <4> QED BY <2>4, <4>1 DEF Gone
    <3>2. CASE dev[call.dev].on = {}
      BY <2>1, <2>4, <3>2
    <3> QED BY <2>3, <3>1, <3>2
  <2> QED BY <1>1, <1>6, <2>4, <2>5 DEF Stopping
<1>18. CASE StopDispatcher
  <2>1. Goes("reset") /\ UNCHANGED dev /\ call.at = "stop_dispatcher"
    BY <1>18, HaltFields DEF StopDispatcher, device
  <2> QED BY <1>1, <1>4, <1>6, <2>1 DEF Goes, Stopping
<1>19. CASE Reset
  <2>1. Goes("reset_conf") /\ active' = 0
    BY <1>19, HaltFields DEF Reset
  <2> QED BY <1>1, <1>6, <2>1 DEF Goes
<1>20. CASE ResetConf
  <2>1. call'.at \in {"none", "resolve"} /\ active = 0 /\ UNCHANGED active
    BY <1>1, <1>20, HaltFields, NoCallIs DEF ResetConf, CallInv, Goes
  <2> QED BY <1>8, <2>1 DEF Stopping
<1> QED BY <1>7, <1>9, <1>10, <1>11, <1>12, <1>13, <1>14, <1>15, <1>16, <1>17, <1>18,
           <1>19, <1>20, StepsBeside DEF CallSteps

\* Without a fault nothing is on but what the active profile or the profile that
\* is being started asks for, in every step.
LEMMA QuietInvStep ==
    ASSUME ShapeInv, SensorInv, QuietInv, [PipelineNext]_pipelineVars
    PROVE  QuietInv'
<1>1. PipelineTypeOK /\ CallInv /\ DevInv /\ kind' = kind
  BY CableSteps DEF ShapeInv
<1>2. faults' = 0 => faults = 0 /\ UNCHANGED faults
  <2>1. faults \in Nat
    <3>1. faults \in 0 .. MaxFaults /\ MaxFaults \in Nat
      BY <1>1, PipelineAssumption DEF PipelineTypeOK
    <3> QED BY <3>1
  <2>2. CASE UNCHANGED faults
    BY <2>2
  <2>3. CASE SensorThrows /\ ~UNCHANGED faults
    BY <2>1, <2>3 DEF SensorThrows
  <2>4. CASE CallSteps /\ ~SensorThrows
    BY <2>2, <2>4 DEF CallSteps, bounds, StartCall, Resolve, ResolveFails, OnStart, OpenSensor,
            StartSensor, SetActive, SetConf, StopCall, Halt, StopSensor,
            CloseSensor, StopThrows, StopDispatcher, Reset, ResetConf, WaitCall, Dequeue,
            WaitTimesOut
  <2> QED BY <2>2, <2>3, <2>4, StepsBeside
<1> SUFFICES ASSUME kind = "camera", faults = 0, UNCHANGED faults
             PROVE  QuietInv'
  BY <1>1, <1>2 DEF QuietInv
<1>3. /\ active # 0 => active \in DOMAIN dev
      /\ call.dev # 0 => call.dev \in DOMAIN dev
      /\ DOMAIN dev = 1 .. Len(dev) /\ Len(dev) \in Nat
  BY <1>1, CallTypes
<1>4. \A d \in DOMAIN dev : /\ dev'[d].streams = dev[d].streams
                            /\ Gone(d) => Gone(d)'
  BY GoneStays
<1>5. /\ \A d \in DOMAIN dev :
            \/ Gone(d) \/ dev[d].on = {} \/ d = active
            \/ call.at \in {"start", "set_active"} /\ d = call.dev
      /\ call.at = "open" =>
            Gone(call.dev) \/ dev[call.dev].streams \ call.todo \subseteq dev[call.dev].open
      /\ call.at = "start" =>
            \/ Gone(call.dev)
            \/ /\ dev[call.dev].streams \subseteq dev[call.dev].open
               /\ dev[call.dev].on = dev[call.dev].streams \ call.todo
  BY DEF QuietInv
<1> DEFINE Others == \A d \in DOMAIN dev' :
               \/ Gone(d)' \/ dev'[d].on = {} \/ d = active'
               \/ call'.at \in {"start", "set_active"} /\ d = call'.dev
           Opening == call'.at = "open" =>
               \/ kind' = "camera" /\ dev'[call'.dev].inc # plugged'
               \/ dev'[call'.dev].streams \ call'.todo \subseteq dev'[call'.dev].open
           Starting == call'.at = "start" =>
               \/ kind' = "camera" /\ dev'[call'.dev].inc # plugged'
               \/ /\ dev'[call'.dev].streams \subseteq dev'[call'.dev].open
                  /\ dev'[call'.dev].on = dev'[call'.dev].streams \ call'.todo
<1>6. Others /\ Opening /\ Starting => QuietInv'
  BY DEF QuietInv, Gone
(* Objects that are neither used nor being started stay quiet. *)
<1>7. ASSUME \A d \in DOMAIN dev :
                d = active \/ (call.at \in {"start", "set_active"} /\ d = call.dev) =>
                    \/ Gone(d)' \/ dev'[d].on = {} \/ d = active'
                    \/ call'.at \in {"start", "set_active"} /\ d = call'.dev,
             StartSensor => call'.at \in {"start", "set_active"} /\ call'.dev = call.dev
      PROVE  Others
  <2>1. ASSUME NEW d \in DOMAIN dev', d \notin DOMAIN dev
        PROVE  dev'[d].on = {}
    <3>1. Resolve /\ ~UNCHANGED dev
      BY <2>1, ObjectsStay DEF SameObjects
    <3>2. d \in 1 .. Len(dev) + 1
      BY <2>1, <3>1, ObjectResolved
    <3>3. d = Len(dev) + 1
      BY <1>3, <2>1, <3>2
    <3> QED BY <3>1, <3>3, ObjectResolved
  <2>2. ASSUME NEW d \in DOMAIN dev
        PROVE  \/ Gone(d)' \/ dev'[d].on = {} \/ d = active'
               \/ call'.at \in {"start", "set_active"} /\ d = call'.dev
    <3>1. CASE dev[d].on = {}
      <4>1. dev'[d].on = {} \/ (StartSensor /\ d = call.dev)
        BY <3>1, OnSteps
      <4> QED BY <1>7, <4>1
    <3>2. CASE Gone(d)
      BY <1>4, <3>2
    <3>3. CASE d = active \/ (call.at \in {"start", "set_active"} /\ d = call.dev)
      BY <1>7, <3>3
    <3> QED BY <1>5, <3>1, <3>2, <3>3
  <2> QED BY <2>1, <2>2
<1>8. ASSUME call'.at \notin {"open", "start", "set_active"}, UNCHANGED active,
             call.at \notin {"start", "set_active"}
      PROVE  QuietInv'
  <2>1. ~StartSensor
    BY <1>8 DEF StartSensor
  <2>2. Others
    BY <1>7, <1>8, <2>1
  <2> QED BY <1>6, <1>8, <2>2
<1>9. CASE UNCHANGED <<call, active>>
  <2>1. ~StartSensor /\ ~OpenSensor /\ ~StopSensor /\ ~CloseSensor
    <3>1. call.at \in {"open", "start", "stop", "close"} =>
             Min(call.todo) \in call.todo /\ Max(call.todo) \in call.todo
      BY SensorsLeft
    <3>2. ~StartSensor
      BY <1>9, <3>1, LaunchFields DEF StartSensor, Goes
    <3>3. ~OpenSensor
      BY <1>9, <3>1, LaunchFields DEF OpenSensor, Goes
    <3>4. ~StopSensor
      BY <1>9, <3>1, HaltFields DEF StopSensor, Goes
    <3>5. ~CloseSensor
      BY <1>9, <3>1, HaltFields DEF CloseSensor, Goes
    <3> QED BY <3>2, <3>3, <3>4, <3>5
  <2>2. Others
    BY <1>7, <1>9, <2>1
  <2>3. call.at \in {"open", "start"} =>
           /\ call.dev \in DOMAIN dev
           /\ dev'[call.dev].on = dev[call.dev].on /\ dev'[call.dev].open = dev[call.dev].open
           /\ dev'[call.dev].streams = dev[call.dev].streams
           /\ Gone(call.dev) => kind' = "camera" /\ dev'[call.dev].inc # plugged'
    <3> SUFFICES ASSUME call.at \in {"open", "start"}
                 PROVE  /\ call.dev \in DOMAIN dev
                        /\ dev'[call.dev].on = dev[call.dev].on
                        /\ dev'[call.dev].open = dev[call.dev].open
                        /\ dev'[call.dev].streams = dev[call.dev].streams
                        /\ Gone(call.dev) => kind' = "camera" /\ dev'[call.dev].inc # plugged'
      OBVIOUS
    <3>1. call.dev \in DOMAIN dev
      BY <1>1, <1>3 DEF CallInv, Launching
    <3>2. dev'[call.dev].on = dev[call.dev].on /\ dev'[call.dev].open = dev[call.dev].open
      BY <2>1, <3>1, OnSteps
    <3>3. PICK d \in DOMAIN dev : d = call.dev
      BY <3>1
    <3>4. Gone(d) => Gone(d)'
      BY <1>4
    <3> QED BY <1>4, <3>1, <3>2, <3>3, <3>4 DEF Gone
  <2>4. Opening /\ Starting
    BY <1>5, <1>9, <2>3
  <2> QED BY <1>6, <2>2, <2>4
<1>10. CASE StartCall \/ StopCall \/ WaitCall \/ Resolve \/ ResolveFails \/ SetConf \/ Halt
            \/ StopSensor \/ CloseSensor \/ StopThrows \/ StopDispatcher \/ ResetConf
            \/ Dequeue \/ WaitTimesOut
  <2>1. /\ UNCHANGED active
        /\ call.at \notin {"start", "set_active"}
    BY <1>10, NoCallIs
       DEF StartCall, StopCall, WaitCall, Resolve, ResolveFails, SetConf, Halt, StopSensor,
           CloseSensor, StopThrows, StopDispatcher, ResetConf, Dequeue, WaitTimesOut, MayAsk
  <2>2. call'.at \in {"resolve", "on_start", "none", "rewait", "stop", "close",
                     "stop_dispatcher", "reset", "halt", "wait"}
    BY <1>10, LaunchFields, HaltFields, WaitFields, ResolveFields, NoCallIs DEF Goes
  <2> QED BY <1>8, <2>1, <2>2
<1>11. CASE OnStart
  <2>1. /\ call.at = "on_start" /\ Goes("open") /\ UNCHANGED <<active, dev>>
        /\ call'.todo = dev[call.dev].streams
    BY <1>11, LaunchFields DEF OnStart, device
  <2>2. Others
    <3>1. ~StartSensor
      BY <2>1 DEF StartSensor
    <3> QED BY <1>7, <2>1, <3>1
  <2>3. Opening /\ Starting
    BY <2>1 DEF Goes
  <2> QED BY <1>6, <2>2, <2>3
<1>12. CASE OpenSensor
  <2> DEFINE s == Max(call.todo)
  <2>1. /\ call.at = "open" /\ UNCHANGED active /\ active = 0
        /\ call.dev \in DOMAIN dev /\ s \in call.todo
        /\ call.todo \subseteq dev[call.dev].streams
    <3>1. call.at = "open" /\ UNCHANGED active
      BY <1>12 DEF OpenSensor
    <3> QED BY <1>1, <3>1, SensorsLeft DEF CallInv, Launching
  <2>2. /\ dev'[call.dev].on = dev[call.dev].on
        /\ dev'[call.dev].open = dev[call.dev].open \cup {s}
        /\ dev'[call.dev].streams = dev[call.dev].streams
    <3>1. dev' = Opened(call.dev, s) /\ s \in dev[call.dev].streams
      BY <1>12, <2>1 DEF OpenSensor
    <3> QED BY <1>1, <1>4, <2>1, <3>1, SensorChange
  <2>3. Others
    <3>1. ~StartSensor
      BY <2>1 DEF StartSensor
    <3>2. \A d \in DOMAIN dev : d # active
      BY <1>3, <2>1
    <3> QED BY <1>7, <2>1, <3>1, <3>2
  <2>4. Gone(call.dev) \/ dev[call.dev].streams \ call.todo \subseteq dev[call.dev].open
    BY <1>5, <2>1
  <2>5. Gone(call.dev) \/ dev[call.dev].on = {}
    BY <1>3, <1>5, <2>1
  <2>6. Gone(call.dev) => kind' = "camera" /\ dev'[call.dev].inc # plugged'
    <3>1. PICK d \in DOMAIN dev : d = call.dev
      BY <2>1
    <3>2. Gone(d) => Gone(d)'
      BY <1>4
    <3> QED BY <3>1, <3>2 DEF Gone
  <2>7. \/ Goes("start") /\ call'.todo = dev[call.dev].streams /\ call.todo = {s}
        \/ Goes("open") /\ call'.todo = call.todo \ {s}
    BY <1>12, LaunchFields
  <2> HIDE DEF s
  <2>8. CASE Goes("start") /\ call'.todo = dev[call.dev].streams /\ call.todo = {s}
    <3>1. Gone(call.dev) \/ dev'[call.dev].streams \subseteq dev'[call.dev].open
      BY <2>2, <2>4, <2>8
    <3>2. Gone(call.dev) \/ dev'[call.dev].on = dev'[call.dev].streams \ call'.todo
      BY <2>2, <2>5, <2>8
    <3>3. Opening /\ Starting
      BY <2>6, <2>8, <3>1, <3>2 DEF Goes
    <3> QED BY <1>6, <2>3, <3>3
  <2>9. CASE Goes("open") /\ call'.todo = call.todo \ {s}
    <3>1. Gone(call.dev) \/ dev'[call.dev].streams \ call'.todo \subseteq dev'[call.dev].open
      BY <2>2, <2>4, <2>9
    <3>2. Opening /\ Starting
      BY <2>6, <2>9, <3>1 DEF Goes
    <3> QED BY <1>6, <2>3, <3>2
  <2> QED BY <2>7, <2>8, <2>9
<1>13. CASE StartSensor
  <2> DEFINE s == Min(call.todo)
  <2>1. /\ call.at = "start" /\ UNCHANGED active /\ active = 0
        /\ call.dev \in DOMAIN dev /\ s \in call.todo
        /\ call.todo \subseteq dev[call.dev].streams
    <3>1. call.at = "start" /\ UNCHANGED active
      BY <1>13 DEF StartSensor
    <3> QED BY <1>1, <3>1, SensorsLeft DEF CallInv, Launching
  <2>2. /\ dev'[call.dev].on = dev[call.dev].on \cup {s}
        /\ dev'[call.dev].open = dev[call.dev].open
        /\ dev'[call.dev].streams = dev[call.dev].streams
    <3>1. dev' = On(call.dev, s) /\ s \in dev[call.dev].streams
      BY <1>13, <2>1 DEF StartSensor
    <3> QED BY <1>1, <1>4, <2>1, <3>1, SensorChange
  <2>3. /\ call'.dev = call.dev /\ call'.at \in {"start", "set_active"}
        /\ call'.at = "start" => call'.todo = call.todo \ {s}
    BY <1>13, LaunchFields DEF Goes
  <2>4. Others
    <3>1. \A d \in DOMAIN dev : d # active
      BY <1>3, <2>1
    <3> QED BY <1>7, <2>3, <3>1
  <2>5. Gone(call.dev) => kind' = "camera" /\ dev'[call.dev].inc # plugged'
    <3>1. PICK d \in DOMAIN dev : d = call.dev
      BY <2>1
    <3>2. Gone(d) => Gone(d)'
      BY <1>4
    <3> QED BY <3>1, <3>2 DEF Gone
  <2>6. \/ Gone(call.dev)
        \/ /\ dev[call.dev].streams \subseteq dev[call.dev].open
           /\ dev[call.dev].on = dev[call.dev].streams \ call.todo
    BY <1>5, <2>1
  <2> HIDE DEF s
  <2>7. Starting
    <3> SUFFICES ASSUME call'.at = "start", ~Gone(call.dev)
                 PROVE  /\ dev'[call'.dev].streams \subseteq dev'[call'.dev].open
                        /\ dev'[call'.dev].on = dev'[call'.dev].streams \ call'.todo
      BY <2>3, <2>5
    <3>1. dev'[call.dev].on = (dev[call.dev].streams \ call.todo) \cup {s}
      BY <2>2, <2>6
    <3>2. (dev[call.dev].streams \ call.todo) \cup {s} =
             dev[call.dev].streams \ (call.todo \ {s})
      BY <2>1
    <3>3. dev'[call.dev].on = dev'[call.dev].streams \ call'.todo
      BY <2>2, <2>3, <3>1, <3>2
    <3> QED BY <2>2, <2>3, <2>6, <3>3
  <2>8. Opening
    BY <2>3
  <2> QED BY <1>6, <2>4, <2>7, <2>8
<1>14. CASE SensorThrows
  <2>1. /\ call' = NoCall /\ UNCHANGED <<active, dev>>
        /\ \/ call.at = "open"
           \/ call.at = "start" /\ ~MayStart(call.dev, Min(call.todo))
    BY <1>14 DEF SensorThrows, device
  <2>2. CASE call.at = "open"
    BY <1>8, <2>1, <2>2, NoCallIs
  <2>3. CASE call.at = "start" /\ ~MayStart(call.dev, Min(call.todo))
    <3>1. /\ call.dev \in DOMAIN dev /\ Min(call.todo) \in call.todo
          /\ Min(call.todo) \in dev[call.dev].streams
      BY <2>3, SensorsLeft
    <3>2. Gone(call.dev)
      BY <1>5, <2>3, <3>1 DEF MayStart
    <3>3. \A d \in DOMAIN dev : d = call.dev => Gone(d)'
      BY <1>4, <3>2
    <3>4. ~StartSensor
      BY <2>3 DEF StartSensor
    <3>5. Others
      BY <1>7, <2>1, <3>3, <3>4
    <3> QED BY <1>6, <2>1, <3>5, NoCallIs
  <2> QED BY <2>1, <2>2, <2>3
<1>15. CASE SetActive
  <2>1. /\ call.at = "set_active" /\ active' = call.dev /\ Goes("set_conf") /\ active = 0
    BY <1>1, <1>15, LaunchFields DEF SetActive, CallInv, Launching
  <2>2. Others
    <3>1. ~StartSensor
      BY <2>1 DEF StartSensor
    <3>2. \A d \in DOMAIN dev : d # active
      BY <1>3, <2>1
    <3> QED BY <1>7, <2>1, <3>1, <3>2
  <2> QED BY <1>6, <2>1, <2>2 DEF Goes
<1>16. CASE Reset
  <2>1. /\ call.at = "reset" /\ active' = 0 /\ Goes("reset_conf") /\ UNCHANGED dev
        /\ active = call.dev
    BY <1>1, <1>16, HaltFields DEF Reset, device, CallInv, Stopping
  <2>2. Gone(call.dev) \/ dev[call.dev].on = {}
    BY <2>1 DEF SensorInv
  <2>3. \A d \in DOMAIN dev : d = active => Gone(d)' \/ dev'[d].on = {}
    BY <1>4, <2>1, <2>2
  <2>4. Others
    <3>1. ~StartSensor
      BY <2>1 DEF StartSensor
    <3> QED BY <1>7, <2>1, <2>3, <3>1
  <2> QED BY <1>6, <2>1, <2>4 DEF Goes
<1> QED BY <1>9, <1>10, <1>11, <1>12, <1>13, <1>14, <1>15, <1>16, StepsBeside DEF CallSteps

\* stop() of pipeline.cpp stops the streams of a camera that its start() started,
\* and a start() or a reconnection has all of them on when it returns, through
\* every failure, unplugging and later start: for every set of streams,
\* configurations and bounds.
THEOREM StreamsOn == PipelineSpec => []StreamsAsActive
<1> DEFINE Inv == ShapeInv /\ SensorInv /\ QuietInv
<1>1. PipelineInit => Inv
  <2> SUFFICES ASSUME PipelineInit
               PROVE  Inv
    OBVIOUS
  <2>1. /\ DOMAIN dev = {} /\ active = 0 /\ call.at = "none"
    BY NoCallIs, EmptySeq DEF PipelineInit
  <2> QED BY <2>1, ShapeInvInit DEF SensorInv, QuietInv
<1>2. Inv /\ [PipelineNext]_pipelineVars => Inv'
  BY ShapeInvStep, SensorInvStep, QuietInvStep
<1>3. Inv => StreamsAsActive
  <2> SUFFICES ASSUME Inv
               PROVE  StreamsAsActive
    OBVIOUS
  <2>1. SilentWhenStopped
    <3> SUFFICES ASSUME kind = "camera", call = NoCall, active = 0, faults = 0,
                        NEW d \in DOMAIN dev
                 PROVE  Gone(d) \/ dev[d].on = {}
      BY DEF SilentWhenStopped
    <3>1. d # 0
      <4>1. DOMAIN dev = 1 .. Len(dev) /\ Len(dev) \in Nat
        BY ObjectTypes DEF ShapeInv
      <4> QED BY <4>1
    <3> QED BY <3>1, NoCallIs DEF QuietInv
  <2>2. StreamsWhileActive
    BY NoCallIs DEF StreamsWhileActive, SensorInv, Stopping
  <2>3. PipelineTypeOK
    BY DEF ShapeInv
  <2> QED BY <2>1, <2>2, <2>3 DEF StreamsAsActive
<1> QED BY <1>1, <1>2, <1>3, PTL DEF PipelineSpec

-----------------------------------------------------------------------------
(* What the program is shown.                                              *)

\* Of a set of streams as many as there are have a frame, so all have.
LEMMA AllThere ==
    ASSUME NEW all \in SUBSET Streams, NEW there \in SUBSET all,
           Cardinality(there) + Cardinality({}) = Cardinality(all)
    PROVE  there = all
<1>1. IsFiniteSet(all)
  BY PipelineAssumption, FS_Subset
<1>2. Cardinality({}) = 0
  BY FS_EmptySet
<1>3. IsFiniteSet(there) /\ (Cardinality(there) = Cardinality(all) => there = all)
  BY <1>1, FS_Subset
<1>4. Cardinality(there) \in Nat /\ Cardinality(all) \in Nat
  BY <1>1, <1>3, FS_CardinalityType
<1> QED BY <1>2, <1>3, <1>4

\* The aggregator holds frames of its own start, none older than those the program
\* has, in every step.
LEMMA FramesInvStep ==
    ASSUME ShapeInv, FramesInv, [PipelineNext]_pipelineVars
    PROVE  FramesInv'
<1>1. PipelineTypeOK /\ CallInv
  BY DEF ShapeInv
<1>2. /\ agg \in AggRecords(Len(dev)) /\ Len(agg.queue.items) <= 1
      /\ agg.queue.items \in Seq(Framesets)
      /\ DOMAIN agg.queue.items = 1 .. Len(agg.queue.items)
      /\ Len(agg.queue.items) \in Nat
      /\ agg.streams \in SUBSET Streams
  BY <1>1, FrameTypes
<1>3. /\ \A s \in Streams : /\ sent[s] \in Nat /\ base[s] \in Nat /\ shown[s] \in Nat
                            /\ agg.last[s] \in Nat
      /\ \A i \in DOMAIN agg.queue.items : \A s \in Streams : agg.queue.items[i][s] \in Nat
  BY <1>1, FrameTypes
<1>4. /\ \A s \in Streams : /\ base[s] <= sent[s] /\ shown[s] <= sent[s]
                            /\ agg.last[s] <= sent[s]
                            /\ agg.last[s] # 0 => s \in agg.streams /\ agg.last[s] > base[s]
      /\ agg.accepting => agg.dev # 0 /\ agg.streams = dev[agg.dev].streams
      /\ \A s \in agg.streams : shown[s] <= base[s] \/ shown[s] <= agg.last[s]
      /\ \A i \in DOMAIN agg.queue.items :
            /\ \A s \in Streams : agg.queue.items[i][s] <= agg.last[s]
            /\ CountedRight => \A s \in agg.streams : agg.queue.items[i][s] >= shown[s]
            /\ agg.strays = {} => \E s \in agg.streams : agg.queue.items[i][s] > shown[s]
      /\ CountedRight => \A i \in DOMAIN agg.queue.items : \A s \in agg.streams :
                            agg.queue.items[i][s] > base[s]
  BY DEF FramesInv, FramesetsWhole
<1>5. agg.dev # 0 => agg.dev \in DOMAIN dev /\ dev'[agg.dev].streams = dev[agg.dev].streams
  <2>1. agg.dev \in 0 .. Len(dev) /\ DOMAIN dev = 1 .. Len(dev) /\ Len(dev) \in Nat
    BY <1>1, FrameTypes, CallTypes
  <2>2. agg.dev # 0 => agg.dev \in DOMAIN dev
    BY <2>1
  <2> QED BY <2>2, GoneStays
<1>6. CASE UNCHANGED <<agg, sent, base, shown>>
  BY <1>4, <1>5, <1>6 DEF FramesInv, FramesetsWhole, CountedRight
<1>7. CASE OnStart /\ UNCHANGED <<sent, shown>>
  <2>1. /\ agg' = [accepting |-> TRUE, dev |-> call.dev, streams |-> dev[call.dev].streams,
                   last |-> NoFrames, strays |-> {},
                   queue |-> [items |-> <<>>, accepting |-> TRUE]]
        /\ base' = sent /\ UNCHANGED dev /\ call.at = "on_start"
    BY <1>7 DEF OnStart, OpenQueue, device
  <2>2. call.dev # 0
    BY <1>1, <2>1 DEF CallInv, Launching
  <2>3. /\ agg'.accepting = TRUE /\ agg'.dev = call.dev
        /\ agg'.streams = dev[call.dev].streams /\ agg'.last = NoFrames
        /\ agg'.queue.items = <<>> /\ DOMAIN agg'.queue.items = {}
    BY <2>1
  <2>4. agg'.streams \in SUBSET Streams
    BY <1>1, <2>2, <2>3, CallTypes
  <2>5. \A s \in Streams : /\ base'[s] <= sent'[s] /\ shown'[s] <= sent'[s]
                           /\ agg'.last[s] <= sent'[s] /\ agg'.last[s] = 0
                           /\ shown'[s] <= base'[s]
    BY <1>3, <1>4, <1>7, <2>1, <2>3 DEF NoFrames
  <2>6. \A s \in agg'.streams : shown'[s] <= base'[s]
    BY <2>4, <2>5
  <2> QED BY <2>1, <2>2, <2>3, <2>5, <2>6 DEF FramesInv, FramesetsWhole
<1>8. CASE Halt /\ UNCHANGED <<sent, shown>>
  <2>1. /\ agg' = [agg EXCEPT !.accepting = FALSE,
                             !.queue = [items |-> <<>>, accepting |-> FALSE]]
        /\ base' = base
    BY <1>8 DEF Halt, Stopped, history
  <2>2. /\ agg'.accepting = FALSE /\ agg'.last = agg.last /\ agg'.streams = agg.streams
        /\ agg'.queue.items = <<>> /\ DOMAIN agg'.queue.items = {}
    BY <1>2, <2>1 DEF AggRecords
  <2> QED BY <1>4, <1>8, <2>1, <2>2 DEF FramesInv, FramesetsWhole
<1>9. CASE Dequeue /\ UNCHANGED <<sent, base>>
  <2>1. /\ agg' = [agg EXCEPT !.queue = [agg.queue EXCEPT !.items = Tail(agg.queue.items)]]
        /\ agg.queue.items # <<>> /\ shown' = Head(agg.queue.items) /\ UNCHANGED dev
    BY <1>9 DEF Dequeue, Dequeued, device
  <2>2. /\ shown' = agg.queue.items[1] /\ 1 \in DOMAIN agg.queue.items
        /\ Len(Tail(agg.queue.items)) = 0
    <3>1. Len(agg.queue.items) = 1
      <4>1. Len(agg.queue.items) # 0
        BY <1>2, <2>1, EmptySeq
      <4>2. Len(agg.queue.items) \in Nat /\ Len(agg.queue.items) <= 1
        BY <1>2
      <4>3. \A n \in Nat : n # 0 /\ n <= 1 => n = 1
        OBVIOUS
      <4> QED BY <4>1, <4>2, <4>3, Zenon
    <3>2. /\ Len(Tail(agg.queue.items)) = Len(agg.queue.items) - 1
          /\ Head(agg.queue.items) = agg.queue.items[1]
      BY <1>2, <2>1, HeadTailProperties
    <3> QED BY <1>2, <2>1, <3>1, <3>2
  <2>3. agg.queue \in FrameQueues
    BY <1>1, FrameTypes
  <2>4. /\ agg'.accepting = agg.accepting /\ agg'.last = agg.last /\ agg'.streams = agg.streams
        /\ agg'.dev = agg.dev /\ agg'.queue.items = Tail(agg.queue.items)
    BY <1>2, <2>1, <2>3 DEF AggRecords, FrameQueues
  <2>5. DOMAIN agg'.queue.items = {}
    <3>1. Tail(agg.queue.items) \in Seq(Framesets)
      BY <1>2, <2>1, HeadTailProperties
    <3>2. DOMAIN Tail(agg.queue.items) = 1 .. 0
      BY <2>2, <3>1, LenProperties
    <3> QED BY <2>4, <3>2
  <2>6. \A s \in Streams : shown'[s] <= agg.last[s] /\ shown'[s] \in Nat
    BY <1>3, <1>4, <2>2
  <2>7. \A s \in Streams : shown'[s] <= sent[s]
    BY <1>3, <1>4, <2>6
  <2>8. \A s \in agg.streams : shown'[s] <= agg.last[s]
    BY <1>2, <2>6
  <2> QED BY <1>4, <1>9, <2>1, <2>4, <2>5, <2>7, <2>8 DEF FramesInv, FramesetsWhole
<1>10. ASSUME NEW d \in DOMAIN dev, NEW set \in SUBSET dev[d].on, set # {}, Deliver(d, set)
       PROVE  FramesInv'
  <2>1. /\ set \subseteq dev[d].streams /\ set \in SUBSET Streams
        /\ \A s \in Streams : sent'[s] = IF s \in set THEN sent[s] + 1 ELSE sent[s]
        /\ base' = base /\ shown' = shown /\ dev' = dev
        /\ agg' \in AggRecords(Len(dev))
    BY <1>10, DeliverIs
  <2>2. \A s \in Streams : /\ sent'[s] \in Nat /\ sent'[s] >= sent[s]
                           /\ base'[s] <= sent'[s] /\ shown'[s] <= sent'[s]
    BY <1>3, <1>4, <2>1
  <2>3. CASE ~agg.accepting
    <3>1. agg' = agg
      BY <1>10, <2>3, DeliverIs
    <3>2. \A s \in Streams : agg.last[s] <= sent'[s]
      BY <1>3, <1>4, <2>2
    <3> QED BY <1>4, <2>1, <2>2, <2>3, <3>1, <3>2 DEF FramesInv, FramesetsWhole, CountedRight
  <2>4. CASE agg.accepting
    <3>1. /\ agg'.accepting = agg.accepting /\ agg'.dev = agg.dev
          /\ agg'.streams = agg.streams
          /\ agg'.strays = agg.strays \cup (IF d = agg.dev THEN {} ELSE {d} \X set)
          /\ \A s \in Streams :
                agg'.last[s] = IF d = agg.dev /\ s \in set THEN sent[s] + 1
                               ELSE agg.last[s]
      BY <1>10, <2>4, DeliverIs
    <3>2. agg'.queue = agg.queue \/ PassedOn(set)
      BY <1>10, <2>4, DeliverIs
    <3>3. \A s \in Streams : /\ agg'.last[s] \in Nat /\ agg'.last[s] >= agg.last[s]
                             /\ agg'.last[s] <= sent'[s]
      BY <1>3, <1>4, <2>1, <2>2, <3>1
    <3>4. \A s \in Streams : agg'.last[s] # 0 => s \in agg.streams /\ agg'.last[s] > base[s]
      <4> SUFFICES ASSUME NEW s \in Streams, agg'.last[s] # 0
                   PROVE  s \in agg.streams /\ agg'.last[s] > base[s]
        OBVIOUS
      <4>1. CASE d = agg.dev /\ s \in set
        <5>1. s \in agg.streams
          BY <1>4, <2>1, <2>4, <4>1
        <5>2. agg'.last[s] = sent[s] + 1 /\ base[s] <= sent[s]
          BY <1>4, <3>1, <4>1
        <5> QED BY <1>3, <5>1, <5>2
      <4>2. CASE ~(d = agg.dev /\ s \in set)
        BY <1>4, <3>1, <4>2
      <4> QED BY <4>1, <4>2
    <3>5. \A s \in agg.streams : shown[s] <= base[s] \/ shown[s] <= agg'.last[s]
      <4> SUFFICES ASSUME NEW s \in agg.streams
                   PROVE  shown[s] <= base[s] \/ shown[s] <= agg'.last[s]
        OBVIOUS
      <4>1. s \in Streams /\ (shown[s] <= base[s] \/ shown[s] <= agg.last[s])
        BY <1>2, <1>4
      <4> QED BY <1>3, <3>3, <4>1
    <3>6. /\ CountedRight' => CountedRight
          /\ agg'.strays = {} => agg.strays = {} /\ d = agg.dev
      <4>1. agg'.strays = {} => agg.strays = {}
        BY <3>1
      <4>2. {d} \X set # {}
        <5>1. PICK s \in set : TRUE
          BY <1>10
        <5>2. <<d, s>> \in {d} \X set
          BY <5>1
        <5> QED BY <5>2
      <4>3. agg'.strays = {} => d = agg.dev
        BY <3>1, <4>2
      <4> QED BY <3>1, <4>1, <4>3 DEF CountedRight
    <3>7. /\ agg'.accepting => agg'.dev # 0 /\ agg'.streams = dev'[agg'.dev].streams
      BY <1>4, <2>1, <3>1
    <3> DEFINE Items ==
          \A i \in DOMAIN agg'.queue.items :
             /\ \A s \in Streams : agg'.queue.items[i][s] <= agg'.last[s]
             /\ CountedRight' => \A s \in agg.streams : agg'.queue.items[i][s] >= shown[s]
             /\ agg'.strays = {} => \E s \in agg.streams : agg'.queue.items[i][s] > shown[s]
          Whole ==
          CountedRight' => \A i \in DOMAIN agg'.queue.items : \A s \in agg.streams :
                              agg'.queue.items[i][s] > base[s]
    <3>8. CASE agg'.queue = agg.queue
      <4>1. ASSUME NEW i \in DOMAIN agg.queue.items
            PROVE  \A s \in Streams : agg.queue.items[i][s] <= agg'.last[s]
        BY <1>3, <1>4, <3>3
      <4>2. Items
        BY <1>4, <3>6, <3>8, <4>1
      <4>3. Whole
        BY <1>4, <3>6, <3>8
      <4> QED BY <2>1, <2>2, <3>1, <3>3, <3>4, <3>5, <3>7, <4>2, <4>3
              DEF FramesInv, FramesetsWhole
    <3>9. CASE PassedOn(set)
      <4> USE DEF PassedOn
      <4>1. \A i \in DOMAIN agg'.queue.items : i = 1
        <5>1. agg'.queue.items \in Seq(Framesets)
          BY <2>1 DEF AggRecords, FrameQueues
        <5>2. DOMAIN agg'.queue.items = 1 .. 1
          BY <3>9, <5>1, LenProperties
        <5> QED BY <5>2
      <4>2. CountedRight' => \A s \in agg.streams : agg'.last[s] # 0
        <5>1. CASE set \subseteq Synced
          BY <3>9, <5>1
        <5>2. CASE ~(set \subseteq Synced) /\ CountedRight'
          <6> DEFINE there == Present(agg'.last)
          <6>1. agg'.strays = {}
            BY <3>1, <3>9, <5>2 DEF CountedRight
          <6>2. there \in SUBSET agg.streams
            BY <3>4 DEF Present
          <6>3. Cardinality(there) + Cardinality({}) = Cardinality(agg.streams)
            BY <3>9, <5>2, <6>1
          <6>4. there = agg.streams
            <7> HIDE DEF there
            <7> QED BY <1>2, <6>2, <6>3, AllThere
          <6> QED BY <6>4, <1>2 DEF Present
        <5> QED BY <5>1, <5>2
      <4>3. CountedRight' => \A s \in agg.streams : agg'.last[s] > base[s]
        BY <1>2, <3>4, <4>2
      <4>4. CountedRight' => \A s \in agg.streams : agg'.last[s] >= shown[s]
        <5> SUFFICES ASSUME CountedRight', NEW s \in agg.streams
                     PROVE  agg'.last[s] >= shown[s]
          OBVIOUS
        <5>1. agg'.last[s] > base[s] /\ s \in Streams
          BY <1>2, <4>3
        <5> QED BY <1>3, <3>3, <3>5, <5>1
      <4>5. agg'.strays = {} => \E s \in agg.streams : agg'.last[s] > shown[s]
        <5> SUFFICES ASSUME agg'.strays = {}
                     PROVE  \E s \in agg.streams : agg'.last[s] > shown[s]
          OBVIOUS
        <5>1. d = agg.dev
          BY <3>6
        <5>2. PICK s \in set : TRUE
          BY <1>10
        <5>3. s \in agg.streams /\ s \in Streams
          BY <1>4, <2>1, <2>4, <5>1
        <5>4. agg'.last[s] = sent[s] + 1
          BY <3>1, <5>1, <5>3
        <5>5. agg'.last[s] > shown[s]
          BY <1>3, <1>4, <5>3, <5>4
        <5> QED BY <5>3, <5>5
      <4>6. \A s \in Streams : agg'.last[s] <= agg'.last[s]
        BY <3>3
      <4>7. Items
        BY <3>9, <4>1, <4>4, <4>5, <4>6
      <4>8. Whole
        BY <3>9, <4>1, <4>3
      <4> QED BY <2>1, <2>2, <3>1, <3>3, <3>4, <3>5, <3>7, <4>7, <4>8
              DEF FramesInv, FramesetsWhole
    <3> QED BY <3>2, <3>8, <3>9
  <2> QED BY <2>3, <2>4
<1> QED BY <1>6, <1>7, <1>8, <1>9, <1>10, FrameSteps

\* The framesets wait_for_frames, try_wait_for_frames and poll_for_frames of
\* pipeline.cpp return are whole, of this start, never older than the one before
\* and each with something new, for every set of streams and frames.
THEOREM FramesSound == PipelineSpec => FramesetsSound
<1> DEFINE Inv == ShapeInv /\ FramesInv
           Sound == /\ CountedRight' => FramesetsWhole'
                    /\ Dequeue /\ CountedRight =>
                          \A s \in agg.streams : shown'[s] >= shown[s]
                    /\ Dequeue /\ agg.strays = {} =>
                          \E s \in agg.streams : shown'[s] > shown[s]
<1>1. PipelineInit => Inv
  <2> SUFFICES ASSUME PipelineInit
               PROVE  FramesInv
    BY ShapeInvInit
  <2>1. /\ agg = [accepting |-> FALSE, dev |-> 0, streams |-> {}, last |-> NoFrames,
                  strays |-> {}, queue |-> [items |-> <<>>, accepting |-> TRUE]]
        /\ sent = NoFrames /\ base = NoFrames /\ shown = NoFrames
    BY DEF PipelineInit, OpenQueue
  <2>2. DOMAIN agg.queue.items = {} /\ agg.streams = {} /\ agg.last = NoFrames
        /\ agg.accepting = FALSE
    BY <2>1
  <2> QED BY <2>1, <2>2 DEF FramesInv, FramesetsWhole, NoFrames
<1>2. Inv /\ [PipelineNext]_pipelineVars => Inv'
  BY ShapeInvStep, FramesInvStep
<1>3. Inv /\ Inv' /\ [PipelineNext]_pipelineVars => Sound
  <2> SUFFICES ASSUME Inv, FramesInv', [PipelineNext]_pipelineVars
               PROVE  Sound
    OBVIOUS
  <2>1. CountedRight' => FramesetsWhole'
    BY DEF FramesInv
  <2>2. CASE Dequeue
    <3>1. /\ agg.queue.items \in Seq(Framesets) /\ Len(agg.queue.items) \in Nat
          /\ DOMAIN agg.queue.items = 1 .. Len(agg.queue.items)
      BY FrameTypes DEF ShapeInv
    <3>2. agg.queue.items # <<>> /\ shown' = Head(agg.queue.items)
      BY <2>2 DEF Dequeue
    <3>3. 1 \in DOMAIN agg.queue.items /\ shown' = agg.queue.items[1]
      BY <3>1, <3>2, HeadTailProperties, EmptySeq
    <3> QED BY <2>1, <3>3 DEF FramesInv
  <2> QED BY <2>1, <2>2
<1>4. Sound => [Sound]_<<agg, base, shown>>
  OBVIOUS
<1> QED BY <1>1, <1>2, <1>3, PTL DEF PipelineSpec, FramesetsSound

-----------------------------------------------------------------------------
(* A reconnection and the repeat of a file.                                 *)

\* A call that waits makes a device object only to connect again.
LEMMA ReconnectStep ==
    ASSUME ShapeInv, [PipelineNext]_pipelineVars, call.op = "wait", Len(dev') > Len(dev)
    PROVE  LET was == dev[call.lost].streams
               now == dev'[Len(dev')].streams
           IN  was = now \/ (call.conf.want = {} /\ was \subseteq now)
<1>1. PipelineTypeOK /\ ConfInv
  BY DEF ShapeInv
<1>2. Len(dev) \in Nat /\ call.lost \in Nat /\ call.conf \in Configs
  BY <1>1, CallTypes
<1>3. Resolve
  <2> SUFFICES ASSUME ~Resolve
               PROVE  FALSE
    OBVIOUS
  <2>1. Len(dev') = Len(dev)
    BY ObjectsStay DEF SameObjects
  <2> QED BY <1>2, <2>1
<1>4. Reconnecting
  BY <1>3 DEF Resolve, Reconnecting
<1>5. dev'[Len(dev')].streams = Resolved(call.conf)
  <2>1. ~UNCHANGED dev
    BY <1>2
  <2>2. /\ Len(dev') = Len(dev) + 1
        /\ dev'[Len(dev) + 1] = [inc |-> plugged, streams |-> Resolved(call.conf),
                                 open |-> {}, on |-> {}]
    BY <1>3, <2>1, ObjectResolved, Zenon
  <2> QED BY <2>2
<1>6. /\ call.lost # 0 /\ call.conf.disabled = {}
      /\ call.conf.want # {} => dev[call.lost].streams = call.conf.want
  BY <1>1, <1>4 DEF ConfInv
<1>7. dev[call.lost].streams \in SUBSET Streams
  BY <1>1, <1>6, CallTypes
<1>8. Resolved(call.conf) = IF call.conf.want = {} THEN Streams ELSE call.conf.want
  BY <1>6 DEF Resolved
<1>9. CASE call.conf.want = {}
  BY <1>5, <1>7, <1>8, <1>9
<1>10. CASE call.conf.want # {}
  BY <1>5, <1>6, <1>8, <1>10
<1> QED BY <1>9, <1>10

\* wait_for_frames of pipeline.cpp, which stops and starts the pipeline again
\* with _prev_conf once the camera is gone, asks the new camera for the streams
\* of the old one: all that were listed, or every stream when none was.
THEOREM ReconnectsSame == PipelineSpec => ReconnectsAsItWas
<1> DEFINE Same ==
             call.op = "wait" /\ Len(dev') > Len(dev) =>
                LET was == dev[call.lost].streams
                    now == dev'[Len(dev')].streams
                IN  was = now \/ (call.conf.want = {} /\ was \subseteq now)
<1>1. ShapeInv /\ [PipelineNext]_pipelineVars => [Same]_dev
  BY ReconnectStep
<1> HIDE DEF Same
<1>2. PipelineSpec => [][Same]_dev
  BY <1>1, ShapeInvInit, ShapeInvStep, PTL DEF PipelineSpec
<1> USE DEF Same
<1> QED BY <1>2 DEF ReconnectsAsItWas

\* The action the dispatcher runs at the end of a file (pipeline.cpp, unsafe_start)
\* reads _active_profile and _prev_conf without _mtx; it finds one of them null
\* only when none is active or start() has not stored the configuration yet.
THEOREM RepeatCrash == PipelineSpec => CrashNeedsOverlap
<1> DEFINE Overlap == crashed' /\ ~crashed => call.at = "set_conf" \/ active = 0
<1>1. ShapeInv /\ [PipelineNext]_pipelineVars => [Overlap]_crashed
  <2> SUFFICES ASSUME ShapeInv, [PipelineNext]_pipelineVars
               PROVE  Overlap
    OBVIOUS
  <2>1. crashed' => crashed \/ active = 0 \/ prev_conf = NoConf
    BY ItemFields
  <2>2. active # 0 /\ call.at # "set_conf" => prev_conf # NoConf
    BY DEF ShapeInv, ConfInv
  <2> QED BY <2>1, <2>2
<1> HIDE DEF Overlap
<1>2. PipelineSpec => [][Overlap]_crashed
  BY <1>1, ShapeInvInit, ShapeInvStep, PTL DEF PipelineSpec
<1> USE DEF Overlap
<1> QED BY <1>2 DEF CrashNeedsOverlap
=============================================================================
