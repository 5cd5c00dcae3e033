------------------------ MODULE CaptureSessionProofs ------------------------
(***************************************************************************)
(* Proofs about the captures on disk, for any cameras, any length of the   *)
(* names, and any captures, faults and tidying: the samples that are       *)
(* calibrated with are the captures that all cameras see, each whole, and  *)
(* a point cloud pairs color and depth of one capture.                     *)
(***************************************************************************)
EXTENDS CaptureSession, FiniteSetTheorems, SequenceTheorems,
        WellFoundedInduction, TLAPS

-----------------------------------------------------------------------------
(* The inductive invariant.                                                *)

\* The images of a folder that can be read are of one capture.
OfOneShot(files) ==
    \A f, g \in DOMAIN files :
        files[f] = Torn \/ files[g] = Torn \/ files[f].shot = files[g].shot

\* A board was seen in captures only, not in what earlier sessions left.
BoardsTaken(files, n) ==
    \A f \in DOMAIN files : files[f].board => files[f].shot \in 1 .. n

\* A pose was saved with the board in every color image.
BoardsSeen(files) ==
    \A f \in DOMAIN files : f[2] = "color" => files[f] = Torn \/ files[f].board

FoldersSound ==
    \A n \in DOMAIN folder :
        /\ n \notin mixed => OfOneShot(folder[n])
        /\ BoardsTaken(folder[n], shots)
        /\ n[1] = "pose" => BoardsSeen(folder[n])

\* The folder that is saved into holds nothing but the capture under way.
OfLastShot(files) == \A f \in DOMAIN files : files[f] = Torn \/ files[f].shot = shots

SavingSound ==
    /\ session.at # "off" => session.cams # <<>>
    /\ session.at = "saving" =>
        /\ shots \in 1 .. MaxShots
        /\ session.name \in DOMAIN folder
        /\ session.name \notin mixed => OfLastShot(folder[session.name])
        /\ session.todo # <<>>
        /\ \A i \in DOMAIN session.todo : session.todo[i][1] \in DOMAIN session.view
        /\ session.name[1] = "pose" => \A c \in DOMAIN session.view : session.view[c]

\* There are no more folders than captures and what was there at first, and
\* the numbers go no further.
Numbered ==
    \A p \in Prefix :
        /\ \A n \in Existing(p) : n = Text \/ n < Limit + shots
        /\ IsFiniteSet(Existing(p)) /\ Cardinality(Existing(p)) <= Limit + shots

DiskInv == TypeOK /\ FoldersSound /\ SavingSound /\ Numbered

\* While no one tidies up the numbers have no gaps, and end at Limit.
Dense ==
    tidies = 0 =>
        /\ mixed \subseteq Prefix \X {Limit}
        /\ \A p \in Prefix : Text \notin Existing(p)
                              /\ \E k \in 0 .. Limit + 1 : Existing(p) = 0 .. k - 1

\* The images that a cloud is merged from are of one capture for each camera.
CloudsOfOneShot ==
    \A n \in DOMAIN clouds \ mixed :
        \A c \in DOMAIN clouds[n] : clouds[n][c][1].shot = clouds[n][c][2].shot

CaptureInv == DiskInv /\ Dense /\ CloudsOfOneShot

-----------------------------------------------------------------------------
(* Numbers.                                                                *)

\* A set of numbers has a least one; this stands in for induction.
LEMMA LeastNumber ==
    ASSUME NEW S \in SUBSET Nat, S # {}
    PROVE  \E n \in S : \A m \in S : n <= m
<1>1. PICK n \in S : \A m \in S : ~ (<<m, n>> \in OpToRel(<, Nat))
  BY NatLessThanWellFounded, WFMin
<1>2. \A m \in S : ~(m < n)
  BY <1>1 DEF OpToRel
<1> QED BY <1>2

\* A finite set of numbers has a greatest: the smallest without one would, less
\* an element, have one.
LEMMA GreatestNumber ==
    ASSUME NEW S \in SUBSET Nat, S # {}, IsFiniteSet(S)
    PROVE  \E n \in S : \A m \in S : m <= n
<1> DEFINE bad == {T \in SUBSET S : T # {} /\ ~\E n \in T : \A m \in T : m <= n}
           sizes == {Cardinality(T) : T \in bad}
<1> SUFFICES ASSUME bad # {}
             PROVE  FALSE
  OBVIOUS
<1>1. \A T \in SUBSET S : IsFiniteSet(T) /\ Cardinality(T) \in Nat
  BY FS_Subset, FS_CardinalityType
<1>2. sizes \in SUBSET Nat /\ sizes # {}
  BY <1>1
<1>3. PICK k \in sizes : \A m \in sizes : k <= m
  <2> HIDE DEF sizes
  <2> QED BY <1>2, LeastNumber
<1>4. PICK T \in bad : Cardinality(T) = k
  BY <1>3
<1>5. PICK x \in T : x \in Nat
  BY <1>4
<1> DEFINE U == T \ {x}
<1>6. /\ U \in SUBSET S /\ IsFiniteSet(T)
      /\ Cardinality(U) = Cardinality(T) - 1 /\ Cardinality(T) \in Nat
  BY <1>1, <1>4, <1>5, FS_RemoveElement
<1>7. U \notin bad
  <2> HIDE DEF bad, U
  <2> QED BY <1>2, <1>3, <1>4, <1>6
<1>8. CASE U = {}
  BY <1>4, <1>5, <1>8
<1>9. CASE U # {}
  <2>1. PICK n \in U : \A m \in U : m <= n
    BY <1>6, <1>7, <1>9
  <2>2. T \subseteq Nat /\ \A m \in T : m = x \/ m \in U
    BY <1>4
  <2>3. CASE x <= n
    BY <1>4, <2>1, <2>2, <2>3
  <2>4. CASE ~(x <= n)
    <3>1. \A m \in T : m <= x
      BY <1>5, <2>1, <2>2, <2>4
    <3> QED BY <1>4, <1>5, <3>1
  <2> QED BY <2>3, <2>4
<1> QED BY <1>8, <1>9

\* The numbers that the constants give.
LEMMA Bounds ==
    /\ Limit \in Nat \ {0} /\ MaxShots \in Nat /\ Text \in Nat /\ Text = Limit + MaxShots
    /\ Base \in Nat
    /\ Numbers \cup {Text} = 0 .. Text
BY CaptureAssumption DEF Limit, Text, Numbers

\* A name sorts by a number.
LEMMA KeyIsNumber ==
    ASSUME NEW n \in Nat
    PROVE  Key(n) \in Nat
<1>1. n * Base \in Nat /\ Base * Limit \in Nat
  BY Bounds
<1> QED BY <1>1 DEF Key

\* The last of some names, in the order of strings.
LEMMA LastName ==
    ASSUME NEW S \in SUBSET Nat, S # {}, IsFiniteSet(S)
    PROVE  \E n \in S : \A m \in S : m = n \/ SortsBefore(m, n)
<1> DEFINE key == [n \in S |-> Key(n)]
           keys == {Key(n) : n \in S}
<1>1. IsFiniteSet(keys)
  <2>1. key \in Surjection(S, keys)
    BY DEF Surjection
  <2> HIDE DEF key, keys
  <2> QED BY <2>1, FS_Surjection
<1>2. keys \in SUBSET Nat /\ keys # {}
  BY KeyIsNumber
<1>3. PICK k \in keys : \A l \in keys : l <= k
  <2> HIDE DEF keys
  <2> QED BY <1>1, <1>2, GreatestNumber
<1> DEFINE T == {n \in S : Key(n) = k}
<1>4. T \in SUBSET Nat /\ T # {} /\ IsFiniteSet(T)
  <2>1. T \in SUBSET S
    OBVIOUS
  <2> QED BY <1>3, <2>1, FS_Subset
<1>5. PICK n \in T : \A m \in T : m <= n
  <2> HIDE DEF T
  <2> QED BY <1>4, GreatestNumber
<1>6. ASSUME NEW m \in S
      PROVE  m = n \/ SortsBefore(m, n)
  <2>1. m \in Nat /\ n \in Nat /\ Key(m) \in Nat /\ Key(n) = k /\ k \in Nat /\ Key(m) <= k
    BY <1>2, <1>3, <1>5, KeyIsNumber
  <2>2. Key(m) = k => m <= n
    BY <1>5
  <2> QED BY <2>1, <2>2 DEF SortsBefore
<1> QED BY <1>5, <1>6

\* next_index gives a number that fits, and a new one where the names sort as
\* their numbers.
LEMMA NextIndexIs ==
    ASSUME TypeOK, Numbered, shots < MaxShots, NEW p \in Prefix
    PROVE  /\ NextIndex(p) \in 0 .. Limit + shots
           /\ <<p, NextIndex(p)>> \in Names
           /\ Unsorted(p) \/ <<p, NextIndex(p)>> \notin DOMAIN folder
<1> DEFINE names == Existing(p)
           last == CHOOSE n \in names : \A m \in names : m = n \/ SortsBefore(m, n)
<1>1. shots \in Nat /\ Limit + shots < Text /\ Limit + shots \in Nat
  BY Bounds DEF TypeOK
<1>2. /\ names \in SUBSET Nat /\ IsFiniteSet(names)
      /\ Cardinality(names) \in Nat /\ Cardinality(names) <= Limit + shots
      /\ \A n \in names : n = Text \/ n < Limit + shots
  BY Bounds, FS_CardinalityType DEF Numbered, Existing
<1>3. CASE names = {}
  <2>1. NextIndex(p) = 0
    BY <1>3 DEF NextIndex
  <2> QED BY <1>1, <1>3, <2>1, Bounds DEF Names, Existing, Numbers
<1>4. CASE names # {}
  <2>1. last \in names /\ \A m \in names : m = last \/ SortsBefore(m, last)
    <3> HIDE DEF names
    <3> QED BY <1>2, <1>4, LastName
  <2>2. NextIndex(p) = IF last = Text THEN Cardinality(names) ELSE last + 1
    BY <1>4 DEF NextIndex
  <2> HIDE DEF last, names
  <2>3. NextIndex(p) \in 0 .. Limit + shots
    BY <1>1, <1>2, <2>1, <2>2
  <2>4. <<p, NextIndex(p)>> \in Names
    <3>1. NextIndex(p) \in 0 .. Text - 1
      BY <1>1, <2>3, Bounds
    <3> QED BY <3>1 DEF Names, Numbers
  <2>5. ASSUME ~Unsorted(p)
        PROVE  NextIndex(p) \notin names
    <3>1. \A n \in names : n \in Nat /\ n < Limit
      BY <1>2, <2>5, Bounds DEF Unsorted, names
    <3>2. NextIndex(p) = last + 1
      <4>1. Limit <= Text
        BY Bounds
      <4> QED BY <2>1, <2>2, <3>1, <4>1, Bounds
    <3>3. last \in Nat /\ last < Limit
      BY <2>1, <3>1
    <3>4. \A m, n \in Nat : m < n => m * Base < n * Base
      BY CaptureAssumption
    <3>5. ASSUME NEW m \in names
          PROVE  m <= last
      <4>1. m \in Nat /\ m < Limit
        BY <3>1
      <4>2. Key(m) = m * Base /\ Key(last) = last * Base
        BY <3>3, <4>1 DEF Key
      <4>3. m * Base \in Nat /\ last * Base \in Nat
        BY <3>3, <4>1, Bounds
      <4>4. m = last \/ m * Base < last * Base \/ m < last
        BY <2>1, <4>2 DEF SortsBefore
      <4>5. last < m => last * Base < m * Base
        BY <3>3, <3>4, <4>1
      <4> DEFINE a == m * Base
                 b == last * Base
      <4> HIDE DEF a, b
      <4> QED BY <3>3, <4>1, <4>3, <4>4, <4>5 DEF a, b
    <3> QED BY <3>2, <3>3, <3>5
  <2>6. Unsorted(p) \/ <<p, NextIndex(p)>> \notin DOMAIN folder
    BY <1>1, <2>3, <2>5, Bounds DEF names, Existing, Numbers
  <2> QED BY <2>3, <2>4, <2>6
<1> QED BY <1>3, <1>4

\* The names without a gap: next_index goes on to Limit, and stays there.
LEMMA NextIndexDense ==
    ASSUME NEW p \in Prefix, NEW k \in 0 .. Limit + 1, Existing(p) = 0 .. k - 1,
           Text \notin Existing(p)
    PROVE  NextIndex(p) = IF k <= Limit THEN k ELSE Limit
<1> DEFINE names == Existing(p)
           last == CHOOSE n \in names : \A m \in names : m = n \/ SortsBefore(m, n)
           top == IF k <= Limit THEN k - 1 ELSE Limit - 1
<1>1. Limit \in Nat /\ 3 <= Limit /\ Text \in Nat /\ Limit <= Text /\ k \in Nat
  BY CaptureAssumption, Bounds DEF Limit
<1>2. CASE k = 0
  <2>1. names = {}
    BY <1>2
  <2> QED BY <1>1, <1>2, <2>1 DEF NextIndex
<1>3. CASE k # 0
  <2>1. top \in names /\ top \in Nat /\ top < Limit /\ top # Text
    BY <1>1, <1>3
  <2>2. \A m, n \in Nat : m < n => m * Base < n * Base
    BY CaptureAssumption
  <2>3. Key(top) = top * Base /\ top * Base \in Nat
    BY <2>1, Bounds DEF Key
  <2>4. ASSUME NEW m \in names, m # top
        PROVE  SortsBefore(m, top) /\ ~SortsBefore(top, m)
    <3>1. m \in Nat /\ m <= Limit
      BY <1>1
    <3>2. CASE m = Limit
      <4>1. top = Limit - 1
        BY <1>1, <3>2
      <4>2. 2 * Limit - 2 <= (Limit - 1) * Base
        BY <1>1, CaptureAssumption
      <4>3. Key(m) = Limit
        BY <1>1, <2>4, <3>2 DEF Key
      <4> DEFINE b == (Limit - 1) * Base
      <4>4. Key(top) = b
        BY <2>3, <4>1
      <4>5. b \in Nat
        BY <2>3, <4>1
      <4> HIDE DEF b, top
      <4> QED BY <1>1, <3>2, <4>1, <4>2, <4>3, <4>4, <4>5 DEF SortsBefore, b
    <3>3. CASE m < top
      <4>1. Key(m) = m * Base /\ m * Base \in Nat
        BY <2>1, <3>1, <3>3, Bounds DEF Key
      <4>2. m * Base < top * Base
        BY <2>1, <2>2, <3>1, <3>3
      <4> DEFINE a == m * Base
                 b == top * Base
      <4> HIDE DEF a, b, top
      <4> QED BY <2>1, <2>3, <3>1, <3>3, <4>1, <4>2 DEF SortsBefore, a, b
    <3> QED BY <1>1, <2>4, <3>1, <3>2, <3>3
  <2>5. last = top
    <3> HIDE DEF top, names
    <3> QED BY <2>1, <2>4
  <2> HIDE DEF last, names
  <2>6. NextIndex(p) = last + 1
    BY <2>1, <2>5 DEF NextIndex, last, names
  <2> QED BY <1>1, <2>5, <2>6
<1> QED BY <1>2, <1>3

-----------------------------------------------------------------------------
(* Types.                                                                  *)

Sessions == [cams : Seq(Cams), at : {"off", "intrinsics", "loop", "saving"},
             name : Names, todo : Seq(Files), view : Views(BOOLEAN)]
Runs == [mode : {"none", "calibrate", "pointcloud", "full"}, at : {"none", "dump", "cloud"},
         serials : SUBSET Cams, samples : SUBSET [of : Names, image : Views(Images)]]

FolderTypes ==
    /\ DOMAIN folder \subseteq Names
    /\ \A n \in DOMAIN folder :
          DOMAIN folder[n] \subseteq Files /\ \A f \in DOMAIN folder[n] : folder[n][f] \in Images

IntrinsicsTypes ==
    /\ DOMAIN intrinsics \subseteq Cams
    /\ \A c \in DOMAIN intrinsics : intrinsics[c] \in {"whole", "torn"}

TypeIs ==
    /\ IntrinsicsTypes /\ FolderTypes
    /\ DOMAIN clouds \subseteq Names
    /\ extrinsics \in [is : {"none", "torn", "whole"}, of : SUBSET Cams]
    /\ session \in Sessions /\ offline \in Runs
    /\ shots \in 0 .. MaxShots /\ faults \in 0 .. MaxFaults
    /\ tidies \in 0 .. MaxTidies /\ mixed \subseteq Names

\* TypeOK and its parts, now and after a step.
LEMMA TypeParts == (TypeOK <=> TypeIs) /\ (TypeOK' <=> TypeIs')
<1>1. TypeOK <=> TypeIs
  <2>1. ASSUME NEW n \in DOMAIN folder
        PROVE  Range(folder[n]) \subseteq Images
                  <=> \A f \in DOMAIN folder[n] : folder[n][f] \in Images
    BY DEF Range
  <2> QED BY <2>1 DEF TypeOK, TypeIs, IntrinsicsTypes, FolderTypes, Sessions, Runs
<1> QED BY <1>1, PTL

\* What stands for nothing, and a torn file, have their types.
LEMMA Nothing ==
    /\ DOMAIN << >> = {}
    /\ NoSession \in Sessions /\ NoSession.at = "off"
    /\ NoRun \in Runs /\ NoRun.at = "none"
    /\ NoFile \in [is : {"none", "torn", "whole"}, of : SUBSET Cams]
    /\ TornFile \in [is : {"none", "torn", "whole"}, of : SUBSET Cams]
    /\ Torn \in Images /\ Old \in Images
<1>1. <<"pose", 0>> \in Names
  BY Bounds DEF Names, Numbers, Prefix
<1>2. << >> \in Views(BOOLEAN)
  <2>1. << >> \in [{} -> BOOLEAN]
    OBVIOUS
  <2> QED BY <2>1 DEF Views
<1>3. NoSession \in Sessions
  BY <1>1, <1>2 DEF NoSession, Sessions
<1> QED BY <1>3, Bounds DEF NoSession, NoRun, Runs, NoFile, TornFile, Torn, Old, Images

\* The cameras of a list are cameras.
LEMMA CamsOf ==
    ASSUME NEW cams \in Seq(Cams)
    PROVE  /\ Range(cams) \subseteq Cams
           /\ DOMAIN cams = 1 .. Len(cams) /\ Len(cams) \in Nat
           /\ \A i \in 1 .. Len(cams) : cams[i] \in Cams
BY DEF Range

\* Nothing is said of what does not change.
LEMMA FoldersStay ==
    ASSUME DiskInv, UNCHANGED <<folder, mixed, shots>>
    PROVE  FoldersSound' /\ Numbered' /\ FolderTypes'
<1>1. FolderTypes
  BY TypeParts DEF DiskInv, TypeIs
<1> QED BY <1>1 DEF DiskInv, FoldersSound, Numbered, Existing, BoardsTaken, BoardsSeen, OfOneShot, FolderTypes

-----------------------------------------------------------------------------
(* The steps that save nothing.                                            *)

\* Starting a session keeps the invariant.
LEMMA StartSessionStep ==
    ASSUME DiskInv, StartSession, clouds' = << >>
    PROVE  DiskInv'
<1>1. PICK cams \in UNION {SetToSeqs(C) : C \in (SUBSET Cams) \ {{}}} :
         session' = [NoSession EXCEPT !.cams = cams, !.at = "intrinsics"]
  BY DEF StartSession
<1>2. PICK C \in (SUBSET Cams) \ {{}} : cams \in SetToSeqs(C)
  BY <1>1
<1>3. cams \in Seq(Cams) /\ cams # <<>>
  <2>1. Cardinality(C) \in Nat \ {0}
    BY CaptureAssumption, FS_Subset, FS_CardinalityType, FS_EmptySet
  <2>2. cams \in [1 .. Cardinality(C) -> C]
    BY <1>2 DEF SetToSeqs
  <2> QED BY <2>1, <2>2
<1>4. session' \in Sessions /\ session'.at = "intrinsics" /\ session'.cams # <<>>
  BY <1>1, <1>3, Nothing DEF Sessions
<1>5. UNCHANGED <<intrinsics, folder, extrinsics, offline, shots, faults, tidies, mixed>>
  BY DEF StartSession, disk, counts
<1>6. TypeOK'
  <2>1. TypeIs
    BY TypeParts DEF DiskInv
  <2>2. TypeIs'
    BY <1>4, <1>5, <2>1, Nothing DEF TypeIs, IntrinsicsTypes, FolderTypes
  <2> QED BY <2>2, TypeParts
<1> QED BY <1>4, <1>5, <1>6, FoldersStay DEF DiskInv, SavingSound

\* So does writing a camera's intrinsics,
LEMMA WriteIntrinsicsStep ==
    ASSUME DiskInv, WriteIntrinsics, clouds' = << >>
    PROVE  DiskInv'
<1>1. TypeIs
  BY TypeParts DEF DiskInv
<1>2. /\ intrinsics' = Written(session.cams)
      /\ session' = [session EXCEPT !.at = "loop"]
      /\ UNCHANGED <<folder, extrinsics, offline, shots, faults, tidies, mixed>>
  BY DEF WriteIntrinsics, counts
<1>3. IntrinsicsTypes'
  <2>1. Range(session.cams) \subseteq Cams
    BY <1>1, CamsOf DEF TypeIs, Sessions
  <2> QED BY <1>1, <1>2, <2>1 DEF TypeIs, IntrinsicsTypes, Written
<1>4. session' \in Sessions /\ session'.at = "loop" /\ session'.cams # <<>>
  BY <1>1, <1>2 DEF TypeIs, Sessions, WriteIntrinsics, DiskInv, SavingSound
<1>5. TypeIs'
  BY <1>1, <1>2, <1>3, <1>4, Nothing DEF TypeIs, FolderTypes
<1> QED BY <1>2, <1>4, <1>5, TypeParts, FoldersStay DEF DiskInv, SavingSound

\* quitting,
LEMMA QuitStep ==
    ASSUME DiskInv, Quit, clouds' = << >>
    PROVE  DiskInv'
<1>1. TypeIs
  BY TypeParts DEF DiskInv
<1>2. /\ session' = NoSession
      /\ UNCHANGED <<intrinsics, folder, extrinsics, offline, shots, faults, tidies, mixed>>
  BY DEF Quit, disk, counts
<1>3. TypeIs'
  BY <1>1, <1>2, Nothing DEF TypeIs, FolderTypes, IntrinsicsTypes
<1> QED BY <1>2, <1>3, Nothing, TypeParts, FoldersStay DEF DiskInv, SavingSound

\* The programs that read the captures change neither them nor the session.
LEMMA ReadersStep ==
    ASSUME DiskInv, UNCHANGED <<intrinsics, folder, session, shots, tidies, mixed>>,
           faults' \in 0 .. MaxFaults, DOMAIN clouds' \subseteq Names,
           offline' \in Runs,
           extrinsics' \in [is : {"none", "torn", "whole"}, of : SUBSET Cams]
    PROVE  DiskInv'
<1>1. TypeIs
  BY TypeParts DEF DiskInv
<1>2. TypeIs'
  BY <1>1 DEF TypeIs, FolderTypes, IntrinsicsTypes
<1>3. SavingSound'
  BY DEF DiskInv, SavingSound, OfLastShot
<1> QED BY <1>2, <1>3, TypeParts, FoldersStay DEF DiskInv

\* A sample has a name and a color image of each camera.
LEMMA SamplesAre ==
    ASSUME TypeIs
    PROVE  Samples \in SUBSET [of : Names, image : Views(Images)]
<1> SUFFICES ASSUME NEW n \in Folders("pose"), \A c \in Serials : Sees(n, c)
             PROVE  /\ n \in Names
                    /\ [c \in Serials |-> folder[n][<<c, "color">>]] \in Views(Images)
  BY DEF Samples
<1>1. n \in DOMAIN folder /\ n \in Names
  BY DEF Folders, TypeIs, FolderTypes
<1>2. \A c \in Serials : folder[n][<<c, "color">>] \in Images
  BY <1>1 DEF Sees, Has, TypeIs, FolderTypes
<1>3. Serials \in SUBSET Cams
  BY DEF TypeIs, IntrinsicsTypes, Serials
<1>4. [c \in Serials |-> folder[n][<<c, "color">>]] \in [Serials -> Images]
  BY <1>2
<1> QED BY <1>1, <1>3, <1>4 DEF Views

\* The offline calibration keeps the invariant;
LEMMA CalibrateStep ==
    ASSUME DiskInv, Calibrate, clouds' = << >>
    PROVE  DiskInv'
<1>1. TypeIs
  BY TypeParts DEF DiskInv
<1>2. PICK mode \in {"calibrate", "full"} :
         offline' = [mode |-> mode, at |-> "dump", serials |-> Serials, samples |-> Samples]
  BY DEF Calibrate
<1>3. offline' \in Runs
  <2>1. Serials \in SUBSET Cams
    BY <1>1 DEF TypeIs, IntrinsicsTypes, Serials
  <2>2. Samples \in SUBSET [of : Names, image : Views(Images)]
    BY <1>1, SamplesAre
  <2> QED BY <1>2, <2>1, <2>2 DEF Runs
<1>4. extrinsics' = TornFile /\ UNCHANGED <<intrinsics, folder, session, shots, faults, tidies, mixed>>
  BY DEF Calibrate, counts
<1> QED BY <1>1, <1>3, <1>4, Nothing, ReadersStep DEF TypeIs

\* so do writing the extrinsics,
LEMMA DumpExtrinsicsStep ==
    ASSUME DiskInv, DumpExtrinsics, clouds' = << >>
    PROVE  DiskInv'
<1>1. TypeIs
  BY TypeParts DEF DiskInv
<1>2. /\ extrinsics' = [is |-> "whole", of |-> Placed(offline.samples)]
      /\ offline' = IF offline.mode = "full"
                    THEN [offline EXCEPT !.at = "cloud", !.samples = {}] ELSE NoRun
      /\ UNCHANGED <<intrinsics, folder, session, shots, faults, tidies, mixed>>
  BY DEF DumpExtrinsics, counts
<1>3. offline' \in Runs
  BY <1>1, <1>2, Nothing DEF TypeIs, Runs
<1>4. Placed(offline.samples) \subseteq Cams
  <2>1. ASSUME NEW s \in offline.samples
        PROVE  DOMAIN s.image \subseteq Cams
    <3>1. s.image \in Views(Images)
      BY <1>1 DEF TypeIs, Runs
    <3>2. PICK C \in SUBSET Cams : s.image \in [C -> Images]
      BY <3>1 DEF Views
    <3> QED BY <3>2
  <2> QED BY <2>1 DEF Placed
<1>5. extrinsics' \in [is : {"none", "torn", "whole"}, of : SUBSET Cams]
  BY <1>2, <1>4
<1> QED BY <1>1, <1>2, <1>3, <1>5, Nothing, ReadersStep DEF TypeIs

\* loading them,
LEMMA LoadExtrinsicsStep ==
    ASSUME DiskInv, LoadExtrinsics, clouds' = << >>
    PROVE  DiskInv'
<1>1. TypeIs
  BY TypeParts DEF DiskInv
<1>2. /\ offline' = [NoRun EXCEPT !.mode = "pointcloud", !.at = "cloud", !.serials = Serials]
      /\ UNCHANGED <<intrinsics, folder, extrinsics, session, shots, faults, tidies, mixed>>
  BY DEF LoadExtrinsics, disk, counts
<1>3. offline' \in Runs
  <2>1. Serials \in SUBSET Cams
    BY <1>1 DEF TypeIs, IntrinsicsTypes, Serials
  <2> QED BY <1>2, <2>1, Nothing DEF Runs
<1> QED BY <1>1, <1>2, <1>3, Nothing, ReadersStep DEF TypeIs

\* killing the offline program,
LEMMA KillOfflineStep ==
    ASSUME DiskInv, KillOffline, clouds' = << >>
    PROVE  DiskInv'
<1>1. TypeIs
  BY TypeParts DEF DiskInv
<1>2. /\ offline' = NoRun /\ faults < MaxFaults /\ faults' = faults + 1
      /\ UNCHANGED <<intrinsics, folder, extrinsics, session, shots, tidies, mixed>>
  BY DEF KillOffline, disk
<1>3. faults' \in 0 .. MaxFaults
  BY <1>1, <1>2, CaptureAssumption DEF TypeIs
<1> QED BY <1>1, <1>2, <1>3, Nothing, ReadersStep DEF TypeIs

\* and merging point clouds, each of one capture.
LEMMA PointCloudsStep ==
    ASSUME DiskInv, PointClouds
    PROVE  DiskInv' /\ CloudsOfOneShot'
<1>1. TypeIs
  BY TypeParts DEF DiskInv
<1> DEFINE all == IF Folders("scene") # {} THEN Folders("scene") ELSE Folders("pose")
           Bad(n) == \E c \in Usable(n) : IsTorn(n, <<c, "color">>) \/ IsTorn(n, <<c, "depth">>)
           Reached(n) == ~\E m \in all : Bad(m) /\ (m = n \/ SortsBefore(m[2], n[2]))
           Cloud(n) == [c \in Usable(n) |-> <<folder[n][<<c, "color">>], folder[n][<<c, "depth">>]>>]
<1>2. /\ clouds' = [n \in {m \in all : Reached(m) /\ Usable(m) # {}} |-> Cloud(n)]
      /\ offline' = NoRun
      /\ UNCHANGED <<intrinsics, folder, extrinsics, session, shots, faults, tidies, mixed>>
  BY DEF PointClouds, counts
<1>3. all \subseteq DOMAIN folder /\ DOMAIN folder \subseteq Names
  BY <1>1 DEF Folders, TypeIs, FolderTypes
<1>4. DOMAIN clouds' \subseteq Names
  BY <1>2, <1>3
<1>5. DiskInv'
  BY <1>1, <1>2, <1>4, Nothing, ReadersStep DEF TypeIs
<1>6. ASSUME NEW n \in DOMAIN clouds' \ mixed, NEW c \in DOMAIN clouds'[n]
      PROVE  clouds'[n][c][1].shot = clouds'[n][c][2].shot
  <2>1. n \in all /\ Reached(n) /\ clouds'[n] = Cloud(n)
    <3> HIDE DEF all, Reached, Cloud
    <3> QED BY <1>2, <1>6
  <2>2. c \in Usable(n)
    BY <2>1
  <2>3. clouds'[n][c] = <<folder[n][<<c, "color">>], folder[n][<<c, "depth">>]>>
    BY <2>1, <2>2
  <2>4. ~Bad(n)
    <3> HIDE DEF all, Bad
    <3> QED BY <2>1
  <2>5. /\ <<c, "color">> \in DOMAIN folder[n] /\ <<c, "depth">> \in DOMAIN folder[n]
        /\ folder[n][<<c, "color">>] # Torn /\ folder[n][<<c, "depth">>] # Torn
    BY <2>2, <2>4 DEF IsTorn, Usable, Has
  <2>6. OfOneShot(folder[n])
    <3> HIDE DEF all
    <3> QED BY <1>3, <1>6, <2>1 DEF DiskInv, FoldersSound
  <2>7. folder[n][<<c, "color">>].shot = folder[n][<<c, "depth">>].shot
    BY <2>5, <2>6 DEF OfOneShot
  <2> QED BY <2>3, <2>7
<1> QED BY <1>2, <1>5, <1>6 DEF CloudsOfOneShot

-----------------------------------------------------------------------------
(* The steps that save.                                                    *)

\* Each camera of a capture has its files.
LEMMA FilesOfCams ==
    ASSUME NEW cams \in Seq(Cams)
    PROVE  /\ FilesOf(cams) \in Seq(Files) /\ DOMAIN FilesOf(cams) = 1 .. 2 * Len(cams)
           /\ \A i \in DOMAIN FilesOf(cams) : FilesOf(cams)[i][1] \in Range(cams)
<1>1. Len(cams) \in Nat /\ \A i \in 1 .. Len(cams) : cams[i] \in Cams /\ cams[i] \in Range(cams)
  BY CamsOf DEF Range
<1>2. ASSUME NEW i \in 1 .. 2 * Len(cams)
      PROVE  (i + 1) \div 2 \in 1 .. Len(cams)
  BY <1>1
<1>3. ASSUME NEW i \in 1 .. 2 * Len(cams)
      PROVE  FilesOf(cams)[i] \in Files /\ FilesOf(cams)[i][1] \in Range(cams)
  <2> DEFINE k == (i + 1) \div 2
             kind == IF i % 2 = 1 THEN "color" ELSE "depth"
  <2>1. FilesOf(cams)[i] = <<cams[k], kind>>
    BY DEF FilesOf
  <2>2. k \in 1 .. Len(cams) /\ kind \in {"color", "depth"}
    BY <1>2
  <2> HIDE DEF k, kind
  <2> QED BY <1>1, <2>1, <2>2 DEF Files
<1>4. 2 * Len(cams) \in Nat /\ FilesOf(cams) = [i \in 1 .. 2 * Len(cams) |-> FilesOf(cams)[i]]
  BY <1>1 DEF FilesOf
<1> QED BY <1>3, <1>4

\* A capture is begun in a folder of the next number.
LEMMA SaveStep ==
    ASSUME DiskInv, NEW p \in Prefix, Save(p), clouds' = << >>
    PROVE  DiskInv'
<1>1. TypeIs /\ FoldersSound /\ Numbered
  BY TypeParts DEF DiskInv
<1> DEFINE name == <<p, NextIndex(p)>>
<1>2. PICK view \in [Range(session.cams) -> BOOLEAN] :
         /\ MaySave(p, view)
         /\ session' = [session EXCEPT !.at = "saving", !.view = view, !.name = name,
                           !.todo = FilesOf(session.cams)]
  BY DEF Save
<1>3. /\ shots < MaxShots /\ shots' = shots + 1 /\ session.at = "loop"
      /\ UNCHANGED <<intrinsics, extrinsics, offline, faults, tidies>>
  BY DEF Save
<1>4. session.cams \in Seq(Cams) /\ session \in Sessions
  BY <1>1 DEF TypeIs, Sessions
<1>5. /\ NextIndex(p) \in 0 .. Limit + shots /\ name \in Names
      /\ Unsorted(p) \/ name \notin DOMAIN folder
  BY <1>1, <1>3, TypeParts, NextIndexIs DEF DiskInv
<1>6. session'.name = name /\ name[1] = p
  BY <1>2, <1>4 DEF Sessions
<1>7. /\ folder' = IF name \in DOMAIN folder THEN folder ELSE With(folder, name, << >>)
      /\ mixed' = mixed \cup IF Unsorted(p) THEN {name} \cap DOMAIN folder ELSE {}
  BY <1>6 DEF Save
<1>8. session' \in Sessions
  <2>1. Range(session.cams) \in SUBSET Cams
    BY <1>4, CamsOf
  <2>2. view \in Views(BOOLEAN)
    BY <1>2, <2>1 DEF Views
  <2>3. FilesOf(session.cams) \in Seq(Files)
    BY <1>4, FilesOfCams
  <2> HIDE DEF name
  <2> QED BY <1>2, <1>4, <1>5, <2>2, <2>3 DEF Sessions
<1>9. shots \in Nat /\ shots' \in 1 .. MaxShots /\ shots' \in Nat
  BY <1>1, <1>3, Bounds DEF TypeIs
<1>10. /\ DOMAIN folder' = DOMAIN folder \cup {name}
       /\ \A n \in DOMAIN folder : folder'[n] = folder[n]
       /\ name \notin DOMAIN folder => folder'[name] = << >>
  <2> HIDE DEF name
  <2> QED BY <1>7 DEF With
<1>11. TypeIs'
  <2>1. FolderTypes'
    <3> HIDE DEF name
    <3> QED BY <1>1, <1>5, <1>10, Nothing DEF TypeIs, FolderTypes
  <2>2. mixed' \subseteq Names
    BY <1>1, <1>5, <1>7 DEF TypeIs
  <2> QED BY <1>1, <1>3, <1>8, <1>9, <2>1, <2>2, Nothing DEF TypeIs, IntrinsicsTypes
<1>12. FoldersSound'
  <2> SUFFICES ASSUME NEW n \in DOMAIN folder'
               PROVE  /\ n \notin mixed' => OfOneShot(folder'[n])
                      /\ BoardsTaken(folder'[n], shots')
                      /\ n[1] = "pose" => BoardsSeen(folder'[n])
    BY DEF FoldersSound
  <2>1. CASE n \in DOMAIN folder
    <3>1. folder'[n] = folder[n] /\ (n \notin mixed' => n \notin mixed)
      BY <1>7, <1>10, <2>1
    <3>2. 1 .. shots \subseteq 1 .. shots'
      BY <1>3, <1>9
    <3> QED BY <1>1, <2>1, <3>1, <3>2 DEF FoldersSound, BoardsTaken
  <2>2. CASE n \notin DOMAIN folder
    <3>1. folder'[n] = << >>
      BY <1>10, <2>2
    <3> QED BY <3>1, Nothing DEF OfOneShot, BoardsTaken, BoardsSeen
  <2> QED BY <2>1, <2>2
<1>13. SavingSound'
  <2>1. name \in DOMAIN folder'
    BY <1>10
  <2>2. ASSUME name \notin mixed', NEW f \in DOMAIN folder'[name]
        PROVE  folder'[name][f] = Torn \/ folder'[name][f].shot = shots'
    <3>1. name \notin DOMAIN folder
      BY <1>5, <1>7, <2>2
    <3>2. folder'[name] = << >>
      BY <1>10, <3>1
    <3> QED BY <2>2, <3>2, Nothing
  <2>3. session'.todo = FilesOf(session.cams) /\ session'.view = view
    BY <1>2, <1>4 DEF Sessions
  <2>4. \A i \in DOMAIN session'.todo : session'.todo[i][1] \in DOMAIN session'.view
    BY <1>2, <1>4, <2>3, FilesOfCams
  <2>5. p = "pose" => \A c \in DOMAIN session'.view : session'.view[c]
    BY <1>2, <2>3 DEF MaySave
  <2>6. session.cams # <<>> /\ session'.cams = session.cams
    BY <1>2, <1>3, <1>4 DEF DiskInv, SavingSound, Sessions
  <2>7. session'.todo # <<>>
    <3>1. 1 \in DOMAIN FilesOf(session.cams)
      <4>1. Len(session.cams) \in Nat \ {0}
        BY <1>4, <2>6, EmptySeq, LenProperties
      <4> QED BY <1>4, <4>1, FilesOfCams
    <3> QED BY <2>3, <3>1
  <2> HIDE DEF name
  <2> QED BY <1>6, <1>9, <2>1, <2>2, <2>4, <2>5, <2>6, <2>7 DEF SavingSound, OfLastShot
<1>14. Numbered'
  <2> SUFFICES ASSUME NEW q \in Prefix
               PROVE  /\ \A n \in Existing(q)' : n = Text \/ n < Limit + shots'
                      /\ IsFiniteSet(Existing(q)')
                      /\ Cardinality(Existing(q)') <= Limit + shots'
    BY DEF Numbered
  <2>1. /\ Existing(q)' \subseteq Existing(q) \cup {NextIndex(p)}
        /\ Existing(q) \subseteq Existing(q)'
    BY <1>5, <1>10 DEF Existing
  <2>2. /\ IsFiniteSet(Existing(q)) /\ Cardinality(Existing(q)) <= Limit + shots
        /\ \A n \in Existing(q) : n = Text \/ n < Limit + shots
    BY <1>1 DEF Numbered
  <2>3. \A n \in Existing(q) : n \in Nat
    BY Bounds DEF Existing
  <2> DEFINE S == Existing(q)
             T == Existing(q)'
             U == S \cup {NextIndex(p)}
  <2>4. Limit \in Nat /\ Text \in Nat
    BY Bounds
  <2>5. IsFiniteSet(U) /\ Cardinality(U) <= Cardinality(S) + 1 /\ Cardinality(S) \in Nat
    <3>1. IsFiniteSet(S)
      BY <2>2
    <3> HIDE DEF S
    <3>2. /\ IsFiniteSet(U)
          /\ Cardinality(U) = IF NextIndex(p) \in S THEN Cardinality(S) ELSE Cardinality(S) + 1
      BY <3>1, FS_AddElement
    <3>3. Cardinality(S) \in Nat
      BY <3>1, FS_CardinalityType
    <3> HIDE DEF U
    <3> QED BY <3>2, <3>3
  <2>6. IsFiniteSet(T) /\ Cardinality(T) <= Cardinality(U)
    <3> HIDE DEF T, U
    <3> QED BY <2>1, <2>5, FS_Subset DEF T, U
  <2>7. \A n \in T : n = Text \/ n < Limit + shots'
    BY <1>3, <1>5, <1>9, <2>1, <2>2, <2>3, <2>4
  <2> HIDE DEF S, T, U
  <2>8. Cardinality(U) \in Nat /\ Cardinality(T) \in Nat
    BY <2>5, <2>6, FS_CardinalityType
  <2> QED BY <1>3, <1>9, <2>2, <2>4, <2>5, <2>6, <2>7, <2>8 DEF S, T
<1> QED BY <1>11, <1>12, <1>13, <1>14, TypeParts DEF DiskInv

\* imwrite puts an image of the capture under way, or damages the file.
LEMMA PutKeeps ==
    ASSUME DiskInv, session.at = "saving", NEW image \in Images,
           image = Torn \/ (image.shot = shots /\ (session.name[1] = "pose" => image.board)),
           folder' = Put(image), UNCHANGED <<mixed, shots>>
    PROVE  /\ FolderTypes' /\ FoldersSound' /\ Numbered'
           /\ DOMAIN folder' = DOMAIN folder
           /\ \A f \in DOMAIN folder'[session.name] : session.name \notin mixed =>
                 folder'[session.name][f] = Torn \/ folder'[session.name][f].shot = shots
<1> DEFINE name == session.name
           file == Head(session.todo)
<1>1. TypeIs /\ FoldersSound /\ Numbered /\ SavingSound
  BY TypeParts DEF DiskInv
<1>2. /\ shots \in 1 .. MaxShots /\ name \in DOMAIN folder
      /\ name \notin mixed => OfLastShot(folder[name])
      /\ session.todo # <<>> /\ session.todo \in Seq(Files)
  BY <1>1 DEF SavingSound, TypeIs, Sessions
<1>3. file \in Files
  BY <1>2
<1>4. /\ DOMAIN folder' = DOMAIN folder
      /\ folder'[name] = With(folder[name], file, image)
      /\ \A n \in DOMAIN folder : n # name => folder'[n] = folder[n]
  BY <1>2 DEF Put
<1>5. /\ DOMAIN folder'[name] = DOMAIN folder[name] \cup {file}
      /\ folder'[name][file] = image
      /\ \A f \in DOMAIN folder[name] : f # file => folder'[name][f] = folder[name][f]
  BY <1>4 DEF With
<1> HIDE DEF file
<1>6. FolderTypes'
  <2> SUFFICES ASSUME NEW n \in DOMAIN folder'
               PROVE  /\ n \in Names /\ DOMAIN folder'[n] \subseteq Files
                      /\ \A f \in DOMAIN folder'[n] : folder'[n][f] \in Images
    BY DEF FolderTypes
  <2>1. n \in Names /\ DOMAIN folder[n] \subseteq Files
        /\ \A f \in DOMAIN folder[n] : folder[n][f] \in Images
    BY <1>1, <1>4 DEF TypeIs, FolderTypes
  <2>2. CASE n = name
    BY <1>3, <1>5, <2>1, <2>2
  <2>3. CASE n # name
    BY <1>4, <2>1, <2>3
  <2> QED BY <2>2, <2>3
<1>7. name \notin mixed => OfLastShot(folder'[name])
  BY <1>2, <1>5 DEF OfLastShot
<1>8. image.board => image.shot \in 1 .. shots
  BY <1>2, Bounds DEF Torn
<1>9. FoldersSound'
  <2> SUFFICES ASSUME NEW n \in DOMAIN folder
               PROVE  /\ n \notin mixed => OfOneShot(folder'[n])
                      /\ BoardsTaken(folder'[n], shots)
                      /\ n[1] = "pose" => BoardsSeen(folder'[n])
    BY <1>4 DEF FoldersSound
  <2>1. /\ n \notin mixed => OfOneShot(folder[n])
        /\ BoardsTaken(folder[n], shots)
        /\ n[1] = "pose" => BoardsSeen(folder[n])
    BY <1>1 DEF FoldersSound
  <2>2. CASE n = name
    <3>1. n \notin mixed => OfOneShot(folder'[n])
      BY <1>7, <2>2 DEF OfLastShot, OfOneShot
    <3>2. BoardsTaken(folder'[n], shots)
      BY <1>5, <1>8, <2>1, <2>2 DEF BoardsTaken
    <3>3. n[1] = "pose" => BoardsSeen(folder'[n])
      BY <1>5, <2>1, <2>2 DEF BoardsSeen
    <3> QED BY <3>1, <3>2, <3>3
  <2>3. CASE n # name
    BY <1>4, <2>1, <2>3
  <2> QED BY <2>2, <2>3
<1>10. Numbered'
  BY <1>1, <1>4 DEF Numbered, Existing
<1>11. \A f \in DOMAIN folder'[name] : name \notin mixed =>
            folder'[name][f] = Torn \/ folder'[name][f].shot = shots
  BY <1>7 DEF OfLastShot
<1> QED BY <1>4, <1>6, <1>9, <1>10, <1>11

\* The next file, or the end of the capture.
LEMMA SavedSound ==
    ASSUME DiskInv, session.at = "saving", Saved, UNCHANGED <<mixed, shots>>,
           DOMAIN folder' = DOMAIN folder,
           \A f \in DOMAIN folder'[session.name] : session.name \notin mixed =>
              folder'[session.name][f] = Torn \/ folder'[session.name][f].shot = shots
    PROVE  session' \in Sessions /\ SavingSound'
<1>1. session \in Sessions /\ SavingSound
  BY TypeParts DEF DiskInv, TypeIs
<1>2. /\ session.todo \in Seq(Files) /\ session.todo # <<>> /\ session.cams # <<>>
      /\ session.cams \in Seq(Cams)
  BY <1>1 DEF SavingSound, Sessions
<1>3. CASE Len(session.todo) = 1
  <2>1. session' = [NoSession EXCEPT !.cams = session.cams, !.at = "loop"]
    BY <1>3 DEF Saved
  <2> QED BY <1>2, <2>1, Nothing DEF Sessions, SavingSound
<1>4. CASE Len(session.todo) # 1
  <2>1. session' = [session EXCEPT !.todo = Tail(session.todo)]
    BY <1>4 DEF Saved
  <2>2. /\ Tail(session.todo) \in Seq(Files) /\ Tail(session.todo) # <<>>
        /\ \A i \in DOMAIN Tail(session.todo) :
             i + 1 \in DOMAIN session.todo /\ Tail(session.todo)[i] = session.todo[i + 1]
    <3>1. Len(session.todo) \in Nat \ {0}
      BY <1>2, EmptySeq, LenProperties
    <3>2. /\ Tail(session.todo) \in Seq(Files) /\ Len(Tail(session.todo)) = Len(session.todo) - 1
          /\ DOMAIN session.todo = 1 .. Len(session.todo)
          /\ DOMAIN Tail(session.todo) = 1 .. Len(session.todo) - 1
      BY <1>2
    <3>3. \A i \in 1 .. Len(session.todo) - 1 : Tail(session.todo)[i] = session.todo[i + 1]
      BY <1>2, <3>1
    <3>4. Tail(session.todo) # <<>>
      <4> DEFINE l == Len(session.todo)
                 rest == Tail(session.todo)
      <4>1. 1 \in DOMAIN rest
        <5>1. l \in Nat \ {0} /\ l # 1 /\ DOMAIN rest = 1 .. l - 1
          BY <1>4, <3>1, <3>2
        <5> HIDE DEF l, rest
        <5> QED BY <5>1
      <4> QED BY <4>1, Nothing
    <3> QED BY <3>1, <3>2, <3>3, <3>4
  <2>3. session' \in Sessions /\ session'.todo = Tail(session.todo)
        /\ session'.name = session.name /\ session'.view = session.view
        /\ session'.at = session.at /\ session'.cams = session.cams
    BY <1>1, <2>1, <2>2 DEF Sessions
  <2>4. \A i \in DOMAIN session'.todo : session'.todo[i][1] \in DOMAIN session'.view
    BY <1>1, <2>2, <2>3 DEF SavingSound
  <2> QED BY <1>1, <2>2, <2>3, <2>4 DEF SavingSound, OfLastShot
<1> QED BY <1>3, <1>4

\* A written file is of the capture under way.
LEMMA WriteStep ==
    ASSUME DiskInv, Write, clouds' = << >>
    PROVE  DiskInv'
<1> DEFINE image == [shot |-> shots, board |-> session.view[Head(session.todo)[1]]]
<1>1. TypeIs /\ SavingSound
  BY TypeParts DEF DiskInv
<1>2. /\ session.at = "saving" /\ folder' = Put(image) /\ Saved
      /\ UNCHANGED <<intrinsics, extrinsics, offline, shots, faults, tidies, mixed>>
  BY DEF Write, counts
<1>3. /\ session.todo \in Seq(Files) /\ session.todo # <<>>
      /\ Head(session.todo)[1] \in DOMAIN session.view
  <2>1. session.todo \in Seq(Files) /\ session.todo # <<>>
    BY <1>1, <1>2 DEF SavingSound, TypeIs, Sessions
  <2>2. 1 \in DOMAIN session.todo /\ Head(session.todo) = session.todo[1]
    BY <2>1, EmptySeq, LenProperties
  <2> QED BY <1>1, <1>2, <2>1, <2>2 DEF SavingSound
<1>4. image.board \in BOOLEAN /\ (session.name[1] = "pose" => image.board)
  <2>1. PICK C \in SUBSET Cams : session.view \in [C -> BOOLEAN]
    BY <1>1 DEF TypeIs, Sessions, Views
  <2> QED BY <1>1, <1>2, <1>3, <2>1 DEF SavingSound
<1>5. image \in Images /\ image.shot = shots
  BY <1>1, <1>4, Bounds DEF Images, TypeIs
<1> HIDE DEF image
<1>6. /\ FolderTypes' /\ FoldersSound' /\ Numbered'
      /\ DOMAIN folder' = DOMAIN folder
      /\ \A f \in DOMAIN folder'[session.name] : session.name \notin mixed =>
            folder'[session.name][f] = Torn \/ folder'[session.name][f].shot = shots
  BY <1>2, <1>4, <1>5, PutKeeps
<1>7. session' \in Sessions /\ SavingSound'
  BY <1>2, <1>6, SavedSound
<1>8. TypeIs'
  BY <1>1, <1>2, <1>6, <1>7, Nothing DEF TypeIs, IntrinsicsTypes
<1> QED BY <1>6, <1>7, <1>8, TypeParts DEF DiskInv

\* Faults are counted up to the bound.
LEMMA FaultCounted ==
    ASSUME TypeIs, faults < MaxFaults, faults' = faults + 1
    PROVE  faults' \in 0 .. MaxFaults
BY CaptureAssumption DEF TypeIs

\* A failed or torn write leaves nothing that can be read.
LEMMA WriteFailsStep ==
    ASSUME DiskInv, WriteFails, clouds' = << >>
    PROVE  DiskInv'
<1>1. TypeIs /\ SavingSound
  BY TypeParts DEF DiskInv
<1>2. /\ session.at = "saving" /\ Saved /\ faults < MaxFaults /\ faults' = faults + 1
      /\ UNCHANGED <<intrinsics, extrinsics, offline, shots, tidies, mixed>>
      /\ folder' = folder \/ folder' = Put(Torn)
  BY DEF WriteFails
<1>3. /\ FolderTypes' /\ FoldersSound' /\ Numbered'
      /\ DOMAIN folder' = DOMAIN folder
      /\ \A f \in DOMAIN folder'[session.name] : session.name \notin mixed =>
            folder'[session.name][f] = Torn \/ folder'[session.name][f].shot = shots
  <2>1. CASE folder' = Put(Torn)
    BY <1>2, <2>1, Nothing, PutKeeps
  <2>2. CASE folder' = folder
    BY <1>1, <1>2, <2>2, FoldersStay DEF SavingSound, OfLastShot
  <2> QED BY <1>2, <2>1, <2>2
<1>4. session' \in Sessions /\ SavingSound'
  BY <1>2, <1>3, SavedSound
<1>5. TypeIs'
  BY <1>1, <1>2, <1>3, <1>4, Nothing, FaultCounted DEF TypeIs, IntrinsicsTypes
<1> QED BY <1>3, <1>4, <1>5, TypeParts DEF DiskInv

\* A kill leaves the folders as they are.
LEMMA KillStep ==
    ASSUME DiskInv, Kill, clouds' = << >>
    PROVE  DiskInv'
<1>1. TypeIs /\ SavingSound
  BY TypeParts DEF DiskInv
<1>2. /\ faults < MaxFaults /\ faults' = faults + 1 /\ session' = NoSession
      /\ UNCHANGED <<extrinsics, offline, shots, tidies, mixed>>
  BY DEF Kill
<1>3. \/ UNCHANGED <<folder, intrinsics>>
      \/ session.at = "saving" /\ folder' = Put(Torn) /\ UNCHANGED intrinsics
      \/ /\ \E i \in DOMAIN session.cams :
              intrinsics' = With(Written(SubSeq(session.cams, 1, i - 1)), session.cams[i], "torn")
         /\ UNCHANGED folder
  BY DEF Kill
<1>4. FolderTypes' /\ FoldersSound' /\ Numbered'
  <2>1. CASE session.at = "saving" /\ folder' = Put(Torn)
    BY <1>2, <2>1, Nothing, PutKeeps
  <2>2. CASE folder' = folder
    BY <1>2, <2>2, FoldersStay
  <2> QED BY <1>3, <2>1, <2>2
<1>5. IntrinsicsTypes'
  <2>1. CASE UNCHANGED intrinsics
    BY <1>1, <2>1 DEF TypeIs, IntrinsicsTypes
  <2>2. ASSUME NEW i \in DOMAIN session.cams,
               intrinsics' = With(Written(SubSeq(session.cams, 1, i - 1)), session.cams[i], "torn")
        PROVE  IntrinsicsTypes'
    <3> DEFINE done == SubSeq(session.cams, 1, i - 1)
    <3>1. session.cams \in Seq(Cams) /\ i \in 1 .. Len(session.cams) /\ Len(session.cams) \in Nat
      BY <1>1, <2>2, CamsOf DEF TypeIs, Sessions
    <3>2. done \in Seq(Cams)
      BY <3>1, SubSeqProperties
    <3>3. Range(done) \subseteq Cams /\ session.cams[i] \in Cams
      <4> HIDE DEF done
      <4> QED BY <3>1, <3>2, CamsOf
    <3> HIDE DEF done
    <3>4. intrinsics' = With(Written(done), session.cams[i], "torn")
      BY <2>2 DEF done
    <3>5. /\ DOMAIN Written(done) \subseteq Cams
          /\ \A c \in DOMAIN Written(done) : Written(done)[c] \in {"whole", "torn"}
      BY <1>1, <3>3 DEF TypeIs, IntrinsicsTypes, Written
    <3> QED BY <3>3, <3>4, <3>5 DEF IntrinsicsTypes, With
  <2> QED BY <1>3, <2>1, <2>2
<1>6. TypeIs' /\ SavingSound'
  BY <1>1, <1>2, <1>4, <1>5, Nothing, FaultCounted DEF TypeIs, SavingSound
<1> QED BY <1>4, <1>6, TypeParts DEF DiskInv

-----------------------------------------------------------------------------
(* The user tidies up.                                                     *)

\* Deleting a folder takes its captures with it.
LEMMA DeleteStep ==
    ASSUME DiskInv, Delete, clouds' = << >>
    PROVE  DiskInv'
<1>1. TypeIs /\ FoldersSound /\ Numbered
  BY TypeParts DEF DiskInv
<1>2. /\ tidies < MaxTidies /\ tidies' = tidies + 1 /\ session = NoSession
      /\ UNCHANGED <<intrinsics, extrinsics, session, offline, shots, faults>>
  BY DEF Delete
<1>3. PICK n \in DOMAIN folder :
         /\ folder' = [m \in DOMAIN folder \ {n} |-> folder[m]]
         /\ mixed' = mixed \ {n}
  BY DEF Delete
<1>4. /\ DOMAIN folder' \subseteq DOMAIN folder \ {n}
      /\ \A m \in DOMAIN folder' : folder'[m] = folder[m]
  BY <1>3
<1>5. TypeIs'
  <2>1. tidies' \in 0 .. MaxTidies
    BY <1>1, <1>2, CaptureAssumption DEF TypeIs
  <2>2. FolderTypes'
    BY <1>1, <1>4 DEF TypeIs, FolderTypes
  <2> QED BY <1>1, <1>2, <1>3, <2>1, <2>2, Nothing DEF TypeIs, IntrinsicsTypes
<1>6. FoldersSound'
  BY <1>1, <1>2, <1>3, <1>4 DEF FoldersSound
<1>7. SavingSound'
  BY <1>2, Nothing DEF SavingSound
<1>8. Numbered'
  <2> SUFFICES ASSUME NEW q \in Prefix
               PROVE  /\ \A k \in Existing(q)' : k = Text \/ k < Limit + shots
                      /\ IsFiniteSet(Existing(q)') /\ Cardinality(Existing(q)') <= Limit + shots
    BY <1>2 DEF Numbered
  <2>1. Existing(q)' \subseteq Existing(q)
    BY <1>4 DEF Existing
  <2>2. /\ IsFiniteSet(Existing(q)) /\ Cardinality(Existing(q)) <= Limit + shots
        /\ \A k \in Existing(q) : k = Text \/ k < Limit + shots
    BY <1>1 DEF Numbered
  <2>3. /\ IsFiniteSet(Existing(q)') /\ Cardinality(Existing(q)') <= Cardinality(Existing(q))
    BY <2>1, <2>2, FS_Subset
  <2>4. Cardinality(Existing(q)) \in Nat /\ Cardinality(Existing(q)') \in Nat
    BY <2>2, <2>3, FS_CardinalityType
  <2>5. Limit + shots \in Nat
    BY <1>1, Bounds DEF TypeIs
  <2> QED BY <2>1, <2>2, <2>3, <2>4, <2>5
<1> QED BY <1>5, <1>6, <1>7, <1>8, TypeParts DEF DiskInv

\* Renaming a folder moves its captures as a whole.
LEMMA RenameStep ==
    ASSUME DiskInv, Rename, clouds' = << >>
    PROVE  DiskInv'
<1>1. TypeIs /\ FoldersSound /\ Numbered
  BY TypeParts DEF DiskInv
<1>2. /\ tidies < MaxTidies /\ tidies' = tidies + 1 /\ session = NoSession
      /\ UNCHANGED <<intrinsics, extrinsics, session, offline, shots, faults>>
  BY DEF Rename
<1>3. PICK n \in DOMAIN folder :
         /\ <<n[1], Text>> \notin DOMAIN folder
         /\ folder' = With([m \in DOMAIN folder \ {n} |-> folder[m]], <<n[1], Text>>, folder[n])
         /\ mixed' = (mixed \ {n}) \cup (IF n \in mixed THEN {<<n[1], Text>>} ELSE {})
  BY DEF Rename
<1> DEFINE new == <<n[1], Text>>
<1>4. n \in Names /\ new \in Names /\ n # new /\ n[1] \in Prefix /\ n = <<n[1], n[2]>>
  BY <1>1, <1>3 DEF TypeIs, FolderTypes, Names
<1>5. /\ DOMAIN folder' = (DOMAIN folder \ {n}) \cup {new}
      /\ folder'[new] = folder[n]
      /\ \A m \in DOMAIN folder \ {n} : folder'[m] = folder[m]
  BY <1>3 DEF With
<1>6. new[1] = n[1]
  OBVIOUS
<1>7. /\ new \notin mixed' => n \notin mixed
      /\ \A m \in DOMAIN folder \ {n} : m \notin mixed' => m \notin mixed
  BY <1>3
<1> HIDE DEF new
<1>8. TypeIs'
  <2>1. tidies' \in 0 .. MaxTidies
    BY <1>1, <1>2, CaptureAssumption DEF TypeIs
  <2>2. FolderTypes'
    <3> SUFFICES ASSUME NEW m \in DOMAIN folder'
                 PROVE  /\ m \in Names /\ DOMAIN folder'[m] \subseteq Files
                        /\ \A f \in DOMAIN folder'[m] : folder'[m][f] \in Images
      BY DEF FolderTypes
    <3>1. CASE m = new
      BY <1>1, <1>3, <1>4, <1>5, <3>1 DEF TypeIs, FolderTypes
    <3>2. CASE m \in DOMAIN folder \ {n}
      BY <1>1, <1>5, <3>2 DEF TypeIs, FolderTypes
    <3> QED BY <1>5, <3>1, <3>2
  <2>3. mixed' \subseteq Names
    BY <1>1, <1>3, <1>4 DEF TypeIs, new
  <2> QED BY <1>1, <1>2, <2>1, <2>2, <2>3, Nothing DEF TypeIs, IntrinsicsTypes
<1>9. FoldersSound'
  <2> SUFFICES ASSUME NEW m \in DOMAIN folder'
               PROVE  /\ m \notin mixed' => OfOneShot(folder'[m])
                      /\ BoardsTaken(folder'[m], shots)
                      /\ m[1] = "pose" => BoardsSeen(folder'[m])
    BY <1>2 DEF FoldersSound
  <2>1. CASE m = new
    BY <1>1, <1>3, <1>5, <1>6, <1>7, <2>1 DEF FoldersSound
  <2>2. CASE m \in DOMAIN folder \ {n}
    BY <1>1, <1>5, <1>7, <2>2 DEF FoldersSound
  <2> QED BY <1>5, <2>1, <2>2
<1>10. SavingSound'
  BY <1>2, Nothing DEF SavingSound
<1>11. Numbered'
  <2> SUFFICES ASSUME NEW q \in Prefix
               PROVE  /\ \A k \in Existing(q)' : k = Text \/ k < Limit + shots
                      /\ IsFiniteSet(Existing(q)') /\ Cardinality(Existing(q)') <= Limit + shots
    BY <1>2 DEF Numbered
  <2>1. /\ IsFiniteSet(Existing(q)) /\ Cardinality(Existing(q)) <= Limit + shots
        /\ \A k \in Existing(q) : k = Text \/ k < Limit + shots
    BY <1>1 DEF Numbered
  <2>2. CASE q = n[1]
    <3> DEFINE S == Existing(q)
               k == n[2]
               R == S \ {k}
    <3>1. k \in S /\ Existing(q)' = R \cup {Text}
      <4>1. <<q, k>> = n /\ <<q, Text>> = new
        BY <1>4, <2>2 DEF new
      <4>2. k \in Numbers \cup {Text}
        BY <1>4 DEF Names
      <4> QED BY <1>3, <1>5, <4>1, <4>2 DEF Existing
    <3>2. /\ IsFiniteSet(S) /\ Cardinality(S) <= Limit + shots
          /\ \A l \in S : l = Text \/ l < Limit + shots
      BY <2>1
    <3> HIDE DEF S, k
    <3>3. IsFiniteSet(R) /\ Cardinality(R) = Cardinality(S) - 1 /\ Cardinality(S) \in Nat
      BY <3>1, <3>2, FS_RemoveElement, FS_CardinalityType
    <3> DEFINE T == R \cup {Text}
    <3>4. IsFiniteSet(T) /\ Cardinality(T) = IF Text \in R THEN Cardinality(R) ELSE Cardinality(R) + 1
      <4> HIDE DEF R
      <4> QED BY <3>3, FS_AddElement
    <3>5. \A l \in T : l = Text \/ l < Limit + shots
      BY <3>2
    <3> HIDE DEF R
    <3>6. Limit + shots \in Nat
      BY <1>1, Bounds DEF TypeIs
    <3>7. Cardinality(T) <= Limit + shots
      <4> HIDE DEF T
      <4> QED BY <3>2, <3>3, <3>4, <3>6
    <3> QED BY <3>1, <3>4, <3>5, <3>7
  <2>3. CASE q # n[1]
    <3>1. Existing(q)' = Existing(q)
      BY <1>4, <1>5, <2>3 DEF Existing, new
    <3> QED BY <2>1, <3>1
  <2> QED BY <2>2, <2>3
<1> QED BY <1>8, <1>9, <1>10, <1>11, TypeParts DEF DiskInv

-----------------------------------------------------------------------------
(* The numbers without tidying.                                            *)

\* Once there is a folder numbered Limit, next_index returns Limit.
LEMMA DenseShares == Dense => SharedAtLimit
<1> SUFFICES ASSUME Dense, tidies = 0, NEW p \in Prefix, <<p, Limit>> \in DOMAIN folder
             PROVE  NextIndex(p) = Limit
  BY DEF Dense, SharedAtLimit
<1>1. PICK k \in 0 .. Limit + 1 : Existing(p) = 0 .. k - 1
  BY DEF Dense
<1>2. Text \notin Existing(p)
  BY DEF Dense
<1>3. Limit \in Existing(p)
  BY Bounds DEF Existing
<1>4. ~(k <= Limit)
  BY <1>1, <1>3, Bounds
<1> QED BY <1>1, <1>2, <1>4, NextIndexDense

\* The names are the same as before.
LEMMA DenseStays ==
    ASSUME Dense, DOMAIN folder' = DOMAIN folder, UNCHANGED <<mixed, tidies>>
    PROVE  Dense'
<1>1. \A p \in Prefix : Existing(p)' = Existing(p)
  BY DEF Existing
<1> QED BY <1>1 DEF Dense

\* A capture is saved under the next number, or under Limit again.
LEMMA SaveDense ==
    ASSUME DiskInv, Dense, NEW p \in Prefix, Save(p)
    PROVE  Dense'
<1>1. TypeIs
  BY TypeParts DEF DiskInv
<1> DEFINE name == <<p, NextIndex(p)>>
<1>2. /\ session'.name = name
      /\ shots < MaxShots /\ shots \in Nat /\ tidies' = tidies
  <2>1. session \in Sessions
    BY <1>1 DEF TypeIs
  <2> QED BY <1>1, <2>1 DEF Save, Sessions, TypeIs
<1>3. /\ folder' = IF name \in DOMAIN folder THEN folder ELSE With(folder, name, << >>)
      /\ mixed' = mixed \cup IF Unsorted(p) THEN {name} \cap DOMAIN folder ELSE {}
  BY <1>2 DEF Save
<1>4. DOMAIN folder' = DOMAIN folder \cup {name}
  <2> HIDE DEF name
  <2> QED BY <1>3 DEF With
<1> SUFFICES ASSUME tidies = 0
             PROVE  /\ mixed' \subseteq Prefix \X {Limit}
                    /\ \A q \in Prefix : Text \notin Existing(q)'
                                          /\ \E k \in 0 .. Limit + 1 : Existing(q)' = 0 .. k - 1
  BY <1>2 DEF Dense
<1>5. PICK k \in 0 .. Limit + 1 : Existing(p) = 0 .. k - 1
  BY DEF Dense
<1>6. Limit \in Nat /\ Limit < Text /\ Text \in Nat /\ Numbers \cup {Text} = 0 .. Text
  BY <1>2, Bounds
<1>7. NextIndex(p) = IF k <= Limit THEN k ELSE Limit
  BY <1>5, NextIndexDense DEF Dense
<1>8. mixed' \subseteq Prefix \X {Limit}
  <2>1. ASSUME name \in DOMAIN folder
        PROVE  NextIndex(p) = Limit
    <3>1. NextIndex(p) \in Existing(p)
      BY <1>5, <1>6, <1>7, <2>1 DEF Existing
    <3> QED BY <1>5, <1>6, <1>7, <3>1
  <2> QED BY <1>3, <2>1 DEF Dense
<1>9. ASSUME NEW q \in Prefix
      PROVE  Text \notin Existing(q)' /\ \E j \in 0 .. Limit + 1 : Existing(q)' = 0 .. j - 1
  <2>1. CASE q = p
    <3>1. NextIndex(p) \in 0 .. Text
      BY <1>5, <1>6, <1>7
    <3>2. Existing(p)' = Existing(p) \cup {NextIndex(p)}
      BY <1>4, <1>6, <3>1 DEF Existing
    <3>3. CASE k <= Limit
      <4>1. Existing(p)' = 0 .. (k + 1) - 1
        BY <1>5, <1>6, <1>7, <3>2, <3>3
      <4>2. k + 1 \in 0 .. Limit + 1 /\ Text \notin Existing(p)'
        BY <1>6, <3>3, <4>1
      <4> QED BY <2>1, <4>1, <4>2
    <3>4. CASE ~(k <= Limit)
      <4>1. Existing(p)' = 0 .. k - 1
        BY <1>5, <1>6, <1>7, <3>2, <3>4
      <4> QED BY <1>5, <1>6, <2>1, <4>1
    <3> QED BY <3>3, <3>4
  <2>2. CASE q # p
    <3>1. Existing(q)' = Existing(q)
      BY <1>4, <2>2 DEF Existing
    <3> QED BY <3>1 DEF Dense
  <2> QED BY <2>1, <2>2
<1> QED BY <1>8, <1>9

\* What the user tidies up is counted, and whatever else happens leaves the
\* names as they are.
LEMMA DenseStep ==
    ASSUME DiskInv, Dense, Silent
    PROVE  Dense'
<1>1. TypeIs /\ tidies \in Nat
  BY TypeParts DEF DiskInv, TypeIs
<1>2. CASE StartSession \/ WriteIntrinsics \/ Quit \/ Calibrate \/ DumpExtrinsics
           \/ LoadExtrinsics \/ KillOffline
  <2>1. UNCHANGED <<folder, mixed, tidies>>
    BY <1>2 DEF StartSession, WriteIntrinsics, Quit, Calibrate, DumpExtrinsics,
       LoadExtrinsics, KillOffline, disk, counts
  <2> QED BY <2>1, DenseStays
<1>3. ASSUME NEW image
      PROVE  DOMAIN Put(image) = DOMAIN folder
  BY DEF Put
<1>4. CASE Write \/ WriteFails \/ Kill
  <2>1. DOMAIN folder' = DOMAIN folder
    BY <1>3, <1>4 DEF Write, WriteFails, Kill
  <2>2. UNCHANGED <<mixed, tidies>>
    BY <1>4 DEF Write, WriteFails, Kill, counts
  <2> QED BY <2>1, <2>2, DenseStays
<1>5. CASE \E p \in Prefix : Save(p)
  BY <1>5, SaveDense
<1>6. CASE Delete \/ Rename
  <2>1. tidies' = tidies + 1
    BY <1>6 DEF Delete, Rename
  <2> QED BY <1>1, <2>1 DEF Dense
<1> QED BY <1>2, <1>4, <1>5, <1>6 DEF Silent

-----------------------------------------------------------------------------
(* The invariant.                                                          *)

\* The invariant holds for what earlier sessions left.
LEMMA InitInv == Init => CaptureInv
<1> SUFFICES ASSUME Init
             PROVE  CaptureInv
  OBVIOUS
<1>1. PICK n \in Earlier :
         folder = [name \in {"scene"} \X (0 .. n - 1) |-> [f \in Files |-> Old]]
  BY DEF Init
<1>2. n \in Nat /\ n <= Limit
  BY <1>1, CaptureAssumption, Bounds DEF Limit
<1>3. /\ DOMAIN folder = {"scene"} \X (0 .. n - 1)
      /\ \A m \in DOMAIN folder : folder[m] = [f \in Files |-> Old] /\ m[1] = "scene"
      /\ DOMAIN folder \subseteq Names
  <2>1. 0 .. n - 1 \subseteq Numbers
    BY <1>2, Bounds DEF Numbers
  <2> QED BY <1>1, <2>1 DEF Names, Prefix
<1>4. /\ intrinsics = << >> /\ clouds = << >> /\ extrinsics = NoFile
      /\ session = NoSession /\ offline = NoRun
      /\ shots = 0 /\ faults = 0 /\ tidies = 0 /\ mixed = {}
  BY DEF Init
<1>5. TypeIs
  <2>1. FolderTypes
    BY <1>3, Nothing DEF FolderTypes
  <2> QED BY <1>4, <2>1, Nothing, CaptureAssumption DEF TypeIs, IntrinsicsTypes
<1>6. FoldersSound
  BY <1>3 DEF FoldersSound, OfOneShot, BoardsTaken, BoardsSeen, Old
<1>7. SavingSound
  BY <1>4, Nothing DEF SavingSound
<1>8. Numbered
  <2> SUFFICES ASSUME NEW p \in Prefix
               PROVE  /\ \A k \in Existing(p) : k = Text \/ k < Limit + shots
                      /\ IsFiniteSet(Existing(p)) /\ Cardinality(Existing(p)) <= Limit + shots
    BY DEF Numbered
  <2>1. Existing(p) \subseteq 0 .. n - 1
    BY <1>3 DEF Existing
  <2>2. IsFiniteSet(0 .. n - 1) /\ Cardinality(0 .. n - 1) = n
    BY <1>2, FS_Interval
  <2>3. IsFiniteSet(Existing(p)) /\ Cardinality(Existing(p)) <= n
    BY <2>1, <2>2, FS_Subset
  <2>4. Cardinality(Existing(p)) \in Nat
    BY <2>3, FS_CardinalityType
  <2> QED BY <1>2, <1>4, <2>1, <2>3, <2>4, Bounds
<1>9. Dense
  <2> SUFFICES ASSUME NEW p \in Prefix
               PROVE  Text \notin Existing(p) /\ \E k \in 0 .. Limit + 1 : Existing(p) = 0 .. k - 1
    BY <1>4 DEF Dense
  <2>1. CASE p = "scene"
    <3>1. Existing(p) = 0 .. n - 1
      BY <1>2, <1>3, <2>1, Bounds DEF Existing
    <3> QED BY <1>2, <3>1, Bounds
  <2>2. CASE p # "scene"
    <3>1. Existing(p) = {}
      BY <1>3, <2>2 DEF Existing
    <3>2. Existing(p) = 0 .. 0 - 1 /\ 0 \in 0 .. Limit + 1
      BY <3>1, Bounds
    <3> QED BY <3>1, <3>2
  <2> QED BY <2>1, <2>2
<1> QED BY <1>4, <1>5, <1>6, <1>7, <1>8, <1>9, TypeParts, Nothing
    DEF CaptureInv, DiskInv, CloudsOfOneShot

\* Every step keeps the invariant.
LEMMA StepInv == CaptureInv /\ [Next]_vars => CaptureInv'
<1>1. ASSUME CaptureInv, Silent
      PROVE  CaptureInv'
  <2>1. DiskInv /\ clouds' = << >>
    BY <1>1 DEF CaptureInv, Silent
  <2>2. DiskInv'
    BY <1>1, <2>1, StartSessionStep, WriteIntrinsicsStep, WriteStep, WriteFailsStep, QuitStep,
       KillStep, SaveStep, DeleteStep, RenameStep, CalibrateStep, DumpExtrinsicsStep,
       LoadExtrinsicsStep, KillOfflineStep DEF Silent
  <2>3. Dense'
    BY <1>1, DenseStep DEF CaptureInv
  <2> QED BY <2>1, <2>2, <2>3, Nothing DEF CaptureInv, CloudsOfOneShot
<1>2. ASSUME CaptureInv, PointClouds
      PROVE  CaptureInv'
  <2>1. DiskInv' /\ CloudsOfOneShot'
    BY <1>2, PointCloudsStep DEF CaptureInv
  <2>2. UNCHANGED <<folder, mixed, tidies>>
    BY <1>2 DEF PointClouds, counts
  <2> QED BY <1>2, <2>1, <2>2, DenseStays DEF CaptureInv
<1>3. ASSUME CaptureInv, UNCHANGED vars
      PROVE  CaptureInv'
  <2>1. /\ UNCHANGED <<intrinsics, folder, extrinsics, clouds, session, offline>>
        /\ UNCHANGED <<shots, faults, tidies, mixed>>
    BY <1>3 DEF vars, disk, counts
  <2>2. TypeIs /\ DiskInv
    BY <1>3, TypeParts DEF CaptureInv, DiskInv
  <2>3. DiskInv'
    BY <2>1, <2>2, ReadersStep DEF TypeIs
  <2>4. Dense'
    BY <1>3, <2>1, DenseStays DEF CaptureInv
  <2> QED BY <1>3, <2>1, <2>3, <2>4 DEF CaptureInv, CloudsOfOneShot
<1> QED BY <1>1, <1>2, <1>3 DEF Next

\* Whatever is captured, damaged, killed, deleted, renamed, calibrated and
\* merged in whatever order, the invariant of the folders holds (save and
\* next_index of capture_realsense.py).
THEOREM CaptureInvariant == Spec => []CaptureInv
<1>1. Init => CaptureInv
  BY InitInv
<1>2. CaptureInv /\ [Next]_vars => CaptureInv'
  BY StepInv
<1> QED BY <1>1, <1>2, PTL DEF Spec

\* In a cloud that run_pointcloud merges the color and the depth of a camera
\* are of one capture, but for folders that were saved into twice because
\* their names do not sort as numbers (next_index): without tidying that is
\* the folder numbered Limit, which takes every capture that follows.
THEOREM CloudsAlwaysPair == Spec => []CloudsPair
<1>1. CaptureInv => CloudsPair
  BY DenseShares DEF CaptureInv, CloudsPair, DiskInv, CloudsOfOneShot
<1> QED BY <1>1, CaptureInvariant, PTL

\* The first camera, in their order, of those that do not see the board in a
\* folder; the loop of run_calibrate over the cameras goes as far as it.
LEMMA FirstBlind ==
    ASSUME TypeIs, NEW n, \E c \in Serials : ~Sees(n, c)
    PROVE  \E c \in Serials : ~Sees(n, c) /\ \A d \in Serials : d < c => Sees(n, d)
<1> DEFINE blind == {c \in Serials : ~Sees(n, c)}
<1>1. Serials \subseteq Nat
  BY CaptureAssumption DEF TypeIs, IntrinsicsTypes, Serials
<1>2. blind \in SUBSET Nat /\ blind # {}
  BY <1>1
<1>3. PICK c \in blind : \A d \in blind : c <= d
  <2> HIDE DEF blind
  <2> QED BY <1>2, LeastNumber
<1>4. \A d \in Serials : d < c => d \notin blind
  <2>1. c \in Nat
    BY <1>1
  <2> HIDE DEF blind
  <2> QED BY <1>1, <1>3, <2>1
<1> QED BY <1>3, <1>4

\* The samples that run_calibrate averages are the poses all cameras see, each
\* with the images of one capture, and none that was saved whole is left out.
THEOREM SamplesAreExact == Spec => SamplesExact
<1> DEFINE Whole == \A s \in offline'.samples : s.of \notin mixed =>
                       \E k \in 1 .. shots : \A c \in Serials :
                          s.image[c] = [shot |-> k, board |-> TRUE]
           Used == \A n \in Folders("pose") :
                       (\A c \in Serials : Has(n, <<c, "color">>))
                          => \E s \in offline'.samples : s.of = n
<1>1. ASSUME CaptureInv, [Next]_vars, offline' # offline, offline = NoRun, offline'.at = "dump"
      PROVE  Whole /\ Used
  <2>1. Calibrate
    <3>1. ~LoadExtrinsics
      BY <1>1, Nothing DEF LoadExtrinsics, NoRun
    <3>2. ~(DumpExtrinsics \/ PointClouds \/ KillOffline)
      BY <1>1, Nothing DEF DumpExtrinsics, PointClouds, KillOffline
    <3>3. ~(StartSession \/ WriteIntrinsics \/ Write \/ WriteFails \/ Quit \/ Kill \/ Delete \/ Rename)
      BY <1>1 DEF StartSession, WriteIntrinsics, Write, WriteFails, Quit, Kill, Delete, Rename
    <3>4. ~\E p \in Prefix : Save(p)
      BY <1>1 DEF Save
    <3>5. ~UNCHANGED vars
      BY <1>1 DEF vars
    <3> QED BY <1>1, <3>1, <3>2, <3>3, <3>4, <3>5 DEF Next, Silent
  <2>2. TypeIs /\ FoldersSound
    BY <1>1, TypeParts DEF CaptureInv, DiskInv
  <2>3. offline'.samples = Samples /\ Serials # {}
    BY <2>1 DEF Calibrate, IntrinsicsLoad
  <2>4. Whole
    <3> SUFFICES ASSUME NEW n \in Folders("pose"), n \notin mixed, \A c \in Serials : Sees(n, c)
                 PROVE  \E k \in 1 .. shots : \A c \in Serials :
                           folder[n][<<c, "color">>] = [shot |-> k, board |-> TRUE]
      <4> SUFFICES ASSUME NEW s \in Samples, s.of \notin mixed
                   PROVE  \E k \in 1 .. shots : \A c \in Serials :
                             s.image[c] = [shot |-> k, board |-> TRUE]
        BY <2>3
      <4>1. PICK n \in {m \in Folders("pose") : \A c \in Serials : Sees(m, c)} :
               s = [of |-> n, image |-> [c \in Serials |-> folder[n][<<c, "color">>]]]
        BY DEF Samples
      <4>2. s.of = n /\ \A c \in Serials : s.image[c] = folder[n][<<c, "color">>]
        BY <4>1
      <4> QED BY <4>1, <4>2
    <3>1. n \in DOMAIN folder /\ OfOneShot(folder[n]) /\ BoardsTaken(folder[n], shots)
      BY <2>2 DEF FoldersSound, Folders
    <3>2. ASSUME NEW c \in Serials
          PROVE  /\ <<c, "color">> \in DOMAIN folder[n]
                 /\ folder[n][<<c, "color">>].board
                 /\ folder[n][<<c, "color">>] \in Images
                 /\ folder[n][<<c, "color">>] # Torn
      <4>1. Sees(n, c)
        OBVIOUS
      <4>2. <<c, "color">> \in DOMAIN folder[n] /\ folder[n][<<c, "color">>].board
        BY <4>1 DEF Sees, Has
      <4>3. folder[n][<<c, "color">>] \in Images
        BY <2>2, <3>1, <4>2 DEF TypeIs, FolderTypes
      <4>4. ~Torn.board
        BY DEF Torn
      <4> QED BY <4>2, <4>3, <4>4
    <3>3. PICK b \in Serials : TRUE
      BY <2>3
    <3> DEFINE k == folder[n][<<b, "color">>].shot
    <3>4. k \in 1 .. shots
      BY <3>1, <3>2 DEF BoardsTaken
    <3>5. ASSUME NEW c \in Serials
          PROVE  folder[n][<<c, "color">>] = [shot |-> k, board |-> TRUE]
      <4>1. folder[n][<<c, "color">>].shot = k
        BY <3>1, <3>2 DEF OfOneShot
      <4> QED BY <3>2, <4>1 DEF Images
    <3> QED BY <3>4, <3>5
  <2>5. Used
    <3> SUFFICES ASSUME NEW n \in Folders("pose"),
                        \A c \in Serials : Has(n, <<c, "color">>)
                 PROVE  \A c \in Serials : Sees(n, c)
      <4> SUFFICES ASSUME NEW n \in Folders("pose"), \A c \in Serials : Sees(n, c)
                   PROVE  \E s \in Samples : s.of = n
        BY <2>3
      <4> DEFINE s == [of |-> n, image |-> [c \in Serials |-> folder[n][<<c, "color">>]]]
      <4>1. s \in Samples
        BY DEF Samples
      <4>2. s.of = n
        OBVIOUS
      <4> QED BY <4>1, <4>2
    <3> SUFFICES ASSUME \E c \in Serials : ~Sees(n, c)
                 PROVE  FALSE
      OBVIOUS
    <3>1. PICK c \in Serials : ~Sees(n, c) /\ \A d \in Serials : d < c => Sees(n, d)
      BY <2>2, FirstBlind
    <3>2. n \in DOMAIN folder /\ BoardsSeen(folder[n])
      BY <2>2 DEF FoldersSound, Folders
    <3>3. IsTorn(n, <<c, "color">>)
      BY <3>1, <3>2 DEF IsTorn, Sees, Has, BoardsSeen
    <3> QED BY <2>1, <3>1, <3>3 DEF Calibrate, ReadsTorn
  <2> QED BY <2>4, <2>5
<1>2. CaptureInv /\ [Next]_vars =>
         /\ [offline = NoRun /\ offline'.at = "dump" => Whole]_offline
         /\ [offline = NoRun /\ offline'.at = "dump" => Used]_offline
  BY <1>1
<1> HIDE DEF Whole, Used
<1>3. Spec => /\ [][offline = NoRun /\ offline'.at = "dump" => Whole]_offline
              /\ [][offline = NoRun /\ offline'.at = "dump" => Used]_offline
  BY <1>2, CaptureInvariant, PTL DEF Spec
<1> QED BY <1>3 DEF SamplesExact, SamplesWhole, NoPoseWasted, Whole, Used
=============================================================================
