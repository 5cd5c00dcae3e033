---------------------------- MODULE Calibration ----------------------------
(***************************************************************************)
(* The calibration workflow of MC-Calib from the moment the boards have    *)
(* been detected (class Calibration of McCalib/src/McCalib.cpp in the      *)
(* order of runCalibrationWorkflow, apps/calibrate/src/calibrate.cpp).     *)
(*                                                                         *)
(* Boards seen in one image are joined into 3D objects, cameras that see   *)
(* an object in one frame into camera groups, objects seen by one group    *)
(* are merged, groups are merged again by hand-eye calibration.            *)
(*                                                                         *)
(* Poses are abstracted to the coordinate frames they map between, which   *)
(* is what a product of matrices in the wrong order gets wrong.  Pose      *)
(* estimation, averaging and refinement change numbers only and leave no   *)
(* trace here, except that estimatePose may drop every point of a board as *)
(* an outlier: kept are the detections that have a point left.             *)
(*                                                                         *)
(* A coordinate frame is named by the board (in an object) or the camera   *)
(* (in a group) at its origin.                                             *)
(***************************************************************************)
EXTENDS CovisGraph

CONSTANTS
    NbCamera, NbFrame, NbBoard,
    Films,           \* the image sets to calibrate from, and
    Scene(_),        \* what is detected in one: [seen, kept]
    MinCommonPoses   \* poses the hand-eye calibration needs: 4 in the code

ASSUME SizesAssumption ==
    /\ NbCamera \in Nat /\ NbFrame \in Nat
    /\ NbBoard \in Nat \ {0} /\ MinCommonPoses \in Nat \ {0}

Detections == (0 .. NbCamera - 1) \X (0 .. NbFrame - 1) \X (0 .. NbBoard - 1)

ASSUME FilmsAssumption ==
    \A w \in Films : /\ Scene(w).kept \subseteq Scene(w).seen
                     /\ Scene(w).seen \subseteq Detections

VARIABLES
    seen,      \* <<camera, frame, board>> of board_observations_
    kept,      \* those with a point left after estimatePose
    step,      \* the position in Workflow
    aborted,   \* an exception or a null pointer ended the program
    board_pose_pairs,     \* <<b1, b2>> -> number of poses measured
    covis_boards_graph,
    object_3d,            \* id -> [ref board, pose of each board]
    object_observations,  \* <<camera, frame, object>>
    copies,               \* how many times each of them is stored
    camera_pose_pairs,
    covis_camera_graph,
    cam_group,            \* id -> [ref camera, pose of each camera]
    cams_group_obs,       \* <<group, frame, camera, object>>
    object_pose_pairs,
    covis_objects_graph,
    no_overlap_object_pair,     \* <<g1, g2>> -> <<object, object>>
    no_overlap_pair,            \* <<g1, g2>> -> [pose, common count]
    no_overlap_camgroup_graph,
    saved                       \* calibrated_cameras_data.yml

input      == <<seen, kept, aborted>>
boardVars  == <<board_pose_pairs, covis_boards_graph>>
cameraVars == <<camera_pose_pairs, covis_camera_graph>>
objectVars == <<object_pose_pairs, covis_objects_graph>>
obsVars    == <<object_observations, copies>>
pairVars   == <<no_overlap_object_pair, no_overlap_pair>>

vars == <<input, step, boardVars, object_3d, obsVars, cameraVars, cam_group,
          cams_group_obs, objectVars, pairVars, no_overlap_camgroup_graph,
          saved>>

-----------------------------------------------------------------------------
(* Poses.                                                                  *)

\* A matrix that maps coordinates of one frame to those of another.
Map(from, to) == [from |-> from, to |-> to]

\* The product of matrices that do not fit together.
Bad == Map(-1, -2)

Inverted(t) == Map(t.to, t.from)

\* a * b applies b first; the identity fits anywhere.
Compose(a, b) ==
    IF a.from = a.to THEN b
    ELSE IF b.from = b.to THEN a
    ELSE IF b.to = a.from THEN Map(b.from, a.to) ELSE Bad

\* Mutant: the hops are multiplied from the right.
AlongRight(start, path, hop) ==
    LET t[k \in 1 .. Len(path)] ==
            IF k = 1 THEN Map(start, start)
            ELSE Compose(hop[<<path[k - 1], path[k]>>], t[k - 1])
    IN  t[Len(path)]

\* The product of the transformations hop[<<v, w>>] of the hops of a path,
\* from the left.
Along(start, path, hop) ==
    LET t[k \in 1 .. Len(path)] ==
            IF k = 1 THEN Map(start, start)
            ELSE Compose(t[k - 1], hop[<<path[k - 1], path[k]>>])
    IN  t[Len(path)]

\* A shortest path to each vertex from the least one of its component.
Routes(g) ==
    LET ways == [v \in Vertices(g) |-> Paths(g, Min(Component(g, v)), v)]
    IN  {r \in [Vertices(g) -> UNION {ways[v] : v \in Vertices(g)}] :
            \A v \in Vertices(g) : r[v] \in ways[v]}

-----------------------------------------------------------------------------
BoardsOf(o) == DOMAIN object_3d[o].pose

CamsOf(g) == DOMAIN cam_group[g].pose

\* How many pairs of observations agree in the fields same and differ in the
\* field key, for each pair of values of that field.
PairCounts(obs, key, same) ==
    LET both == {p \in obs \X obs : /\ p[1][key] # p[2][key]
                                    /\ \A i \in same : p[1][i] = p[2][i]}
        Keys(p) == <<p[1][key], p[2][key]>>
    IN  [k \in {Keys(p) : p \in both} |->
            Cardinality({p \in both : Keys(p) = k})]

-----------------------------------------------------------------------------
(* The order of the calls.  A name stands for the function it names with   *)
(* the numeric functions called next to it.                                *)

\* Mutant: the observations of the groups are not rebuilt after the merge.
Merge3DObjectsOnly ==
    << "initInterCamGroupGraph", "computeObjectsPairPose",
       "initInterObjectsGraph", "mergeObjects", "mergeAllObjectObs" >>

Merge3DObjects ==
    << "initInterCamGroupGraph", "computeObjectsPairPose",
       "initInterObjectsGraph", "mergeObjects", "mergeAllObjectObs",
       "mergeAllCameraGroupObs" >>

Workflow ==
    << "computeBoardsPairPose", "initInterBoardsGraph", "init3DObjects",
       "initAll3DObjectObs", "computeCamerasPairPose",
       "initInterCamerasGraph", "initCameraGroup", "initAllCameraGroupObs" >>
    \o Merge3DObjects
    \o << "findPairObjectForNonOverlap", "findPoseNoOverlapAllCamGroup",
          "initInterCamGroupGraph", "mergeCameraGroup",
          "mergeAllCameraGroupObs" >>
    \o Merge3DObjects
    \o << "initInterCamGroupGraph", "mergeCameraGroup",
          "mergeAllCameraGroupObs", "saveCamerasParams" >>

Init ==
    /\ \E w \in Films : seen = Scene(w).seen /\ kept = Scene(w).kept
    /\ step = 1 /\ aborted = FALSE
    /\ board_pose_pairs = << >> /\ covis_boards_graph = EmptyGraph
    /\ object_3d = << >> /\ object_observations = {} /\ copies = 0
    /\ camera_pose_pairs = << >> /\ covis_camera_graph = EmptyGraph
    /\ cam_group = << >> /\ cams_group_obs = {}
    /\ object_pose_pairs = << >> /\ covis_objects_graph = EmptyGraph
    /\ no_overlap_object_pair = << >> /\ no_overlap_pair = << >>
    /\ no_overlap_camgroup_graph = EmptyGraph
    /\ saved = {}

At(name) == ~aborted /\ step <= Len(Workflow) /\ Workflow[step] = name

Call(name) == At(name) /\ step' = step + 1

-----------------------------------------------------------------------------
(* Boards and objects.                                                     *)

ComputeBoardsPairPose ==
    /\ Call("computeBoardsPairPose")
    /\ board_pose_pairs' = PairCounts(seen, 3, {1, 2})
    /\ UNCHANGED <<input, covis_boards_graph, object_3d, obsVars, cameraVars,
                   cam_group, cams_group_obs, objectVars, pairVars,
                   no_overlap_camgroup_graph, saved>>

\* Mutant: only boards that kept a point are vertices.
InitInterBoardsGraphKept ==
    /\ Call("initInterBoardsGraph")
    /\ covis_boards_graph' =
          BuildGraph({d[3] : d \in kept},
                     [p \in {q \in DOMAIN board_pose_pairs :
                               {q[1], q[2]} \subseteq {d[3] : d \in kept}}
                        |-> board_pose_pairs[p]])
    /\ UNCHANGED <<input, board_pose_pairs, object_3d, obsVars, cameraVars,
                   cam_group, cams_group_obs, objectVars, pairVars,
                   no_overlap_camgroup_graph, saved>>

InitInterBoardsGraph ==
    /\ Call("initInterBoardsGraph")
    /\ covis_boards_graph' = BuildGraph({d[3] : d \in seen}, board_pose_pairs)
    /\ UNCHANGED <<input, board_pose_pairs, object_3d, obsVars, cameraVars,
                   cam_group, cams_group_obs, objectVars, pairVars,
                   no_overlap_camgroup_graph, saved>>

\* One object for each connected component, its least board the reference.
Init3DObjects ==
    /\ Call("init3DObjects")
    /\ \E route \in Routes(covis_boards_graph) :
          LET comp == ConnectedComponents(covis_boards_graph)
              hop == [p \in DOMAIN board_pose_pairs |-> Inverted(Map(p[1], p[2]))]
          IN  object_3d' =
                [i \in 0 .. Len(comp) - 1 |->
                    LET boards == comp[i + 1]
                    IN  [ref  |-> Min(boards),
                         pose |-> [b \in boards |->
                                     Along(Min(boards), route[b], hop)]]]
    /\ UNCHANGED <<input, boardVars, obsVars, cameraVars, cam_group,
                   cams_group_obs, objectVars, pairVars,
                   no_overlap_camgroup_graph, saved>>

\* Mutant: boards without a point count.
Init3DObjectObsAny ==
    UNION {{<<d[1], d[2], o>> : d \in {e \in seen : e[3] \in BoardsOf(o)}} :
              o \in DOMAIN object_3d}

\* init3DObjectObs for every object: an object is observed where one of its
\* boards has a point.
Init3DObjectObs ==
    UNION {{<<d[1], d[2], o>> : d \in {e \in kept : e[3] \in BoardsOf(o)}} :
              o \in DOMAIN object_3d}

InitAll3DObjectObs ==
    /\ Call("initAll3DObjectObs")
    /\ object_observations' = Init3DObjectObs
    /\ copies' = 1
    /\ UNCHANGED <<input, boardVars, object_3d, cameraVars, cam_group,
                   cams_group_obs, objectVars, pairVars,
                   no_overlap_camgroup_graph, saved>>

-----------------------------------------------------------------------------
(* Cameras and camera groups.                                              *)

\* Mutant: the cameras need not see the same object.
ComputeCamerasPairPoseAny ==
    /\ Call("computeCamerasPairPose")
    /\ camera_pose_pairs' = PairCounts(object_observations, 1, {2})
    /\ UNCHANGED <<input, boardVars, object_3d, obsVars, covis_camera_graph,
                   cam_group, cams_group_obs, objectVars, pairVars,
                   no_overlap_camgroup_graph, saved>>

ComputeCamerasPairPose ==
    /\ Call("computeCamerasPairPose")
    /\ camera_pose_pairs' = PairCounts(object_observations, 1, {2, 3})
    /\ UNCHANGED <<input, boardVars, object_3d, obsVars, covis_camera_graph,
                   cam_group, cams_group_obs, objectVars, pairVars,
                   no_overlap_camgroup_graph, saved>>

InitInterCamerasGraph ==
    /\ Call("initInterCamerasGraph")
    /\ covis_camera_graph' = BuildGraph({d[1] : d \in seen}, camera_pose_pairs)
    /\ UNCHANGED <<input, boardVars, object_3d, obsVars, camera_pose_pairs,
                   cam_group, cams_group_obs, objectVars, pairVars,
                   no_overlap_camgroup_graph, saved>>

InitCameraGroup ==
    /\ Call("initCameraGroup")
    /\ \E route \in Routes(covis_camera_graph) :
          LET comp == ConnectedComponents(covis_camera_graph)
              hop == [p \in DOMAIN camera_pose_pairs |-> Map(p[1], p[2])]
          IN  cam_group' =
                [i \in 0 .. Len(comp) - 1 |->
                    LET cams == comp[i + 1]
                    IN  [ref  |-> Min(cams),
                         pose |-> [c \in cams |->
                                     Along(Min(cams), route[c], hop)]]]
    /\ UNCHANGED <<input, boardVars, object_3d, obsVars, cameraVars,
                   cams_group_obs, objectVars, pairVars,
                   no_overlap_camgroup_graph, saved>>

\* initCameraGroupObs for every group.
InitCameraGroupObs ==
    UNION {{<<g, d[2], d[1], d[3]>> :
               d \in {e \in object_observations : e[1] \in CamsOf(g)}} :
              g \in DOMAIN cam_group}

InitAllCameraGroupObs ==
    /\ Call("initAllCameraGroupObs")
    /\ cams_group_obs' = InitCameraGroupObs
    /\ UNCHANGED <<input, boardVars, object_3d, obsVars, cameraVars,
                   cam_group, objectVars, pairVars,
                   no_overlap_camgroup_graph, saved>>

-----------------------------------------------------------------------------
(* merge3DObjects.                                                         *)

\* Mutant: the poses between groups are not added.
InitInterCamGroupGraphBare ==
    /\ Call("initInterCamGroupGraph")
    /\ no_overlap_camgroup_graph' =
          BuildGraph({d[1] : d \in cams_group_obs}, << >>)
    /\ UNCHANGED <<input, boardVars, object_3d, obsVars, cameraVars,
                   cam_group, cams_group_obs, objectVars, pairVars, saved>>

\* A pair that was posed is added even if a group of that number is gone.
InitInterCamGroupGraph ==
    /\ Call("initInterCamGroupGraph")
    /\ no_overlap_camgroup_graph' =
          BuildGraph({d[1] : d \in cams_group_obs},
                     [p \in DOMAIN no_overlap_pair |-> no_overlap_pair[p].cnt])
    /\ UNCHANGED <<input, boardVars, object_3d, obsVars, cameraVars,
                   cam_group, cams_group_obs, objectVars, pairVars, saved>>

ComputeObjectsPairPose ==
    /\ Call("computeObjectsPairPose")
    /\ LET pairs == PairCounts(cams_group_obs, 4, {1, 2})
       IN  object_pose_pairs' =
              [p \in DOMAIN pairs |-> copies * copies * pairs[p]]
    /\ UNCHANGED <<input, boardVars, object_3d, obsVars, cameraVars,
                   cam_group, cams_group_obs, covis_objects_graph, pairVars,
                   no_overlap_camgroup_graph, saved>>

\* What std::map::operator[] inserts for an object that is not there.
NullObject == [ref |-> -1, pose |-> << >>]

\* Mutant: only objects that were posed are vertices.
InitInterObjectsGraphPosed ==
    /\ At("initInterObjectsGraph")
    /\ \A o \in DOMAIN object_3d : object_3d[o] # NullObject
    /\ step' = step + 1
    /\ covis_objects_graph' = BuildGraph({}, object_pose_pairs)
    /\ UNCHANGED <<input, boardVars, object_3d, obsVars, cameraVars,
                   cam_group, cams_group_obs, object_pose_pairs, pairVars,
                   no_overlap_camgroup_graph, saved>>

InitInterObjectsGraph ==
    /\ At("initInterObjectsGraph")
    /\ \A o \in DOMAIN object_3d : object_3d[o] # NullObject
    /\ step' = step + 1
    /\ covis_objects_graph' =
          BuildGraph({d[3] : d \in object_observations}, object_pose_pairs)
    /\ UNCHANGED <<input, boardVars, object_3d, obsVars, cameraVars,
                   cam_group, cams_group_obs, object_pose_pairs, pairVars,
                   no_overlap_camgroup_graph, saved>>

\* One object for each connected component; its boards are moved into the
\* frame of the object with the least number.
MergeObjects ==
    /\ Call("mergeObjects")
    /\ \E route \in Routes(covis_objects_graph) :
          LET comp == ConnectedComponents(covis_objects_graph)
              Ref(o) == object_3d[o].ref
              hop == [p \in DOMAIN object_pose_pairs |->
                        Inverted(Map(Ref(p[1]), Ref(p[2])))]
              Holder(b) == CHOOSE o \in DOMAIN object_3d : b \in BoardsOf(o)
          IN  object_3d' =
                [i \in 0 .. Len(comp) - 1 |->
                    LET ref == Ref(Min(comp[i + 1]))
                        InMerged(o) == Along(ref, route[o], hop)
                        boards == UNION {BoardsOf(o) : o \in comp[i + 1]}
                    IN  [ref  |-> ref,
                         pose |-> [b \in boards |->
                                     Compose(InMerged(Holder(b)),
                                             object_3d[Holder(b)].pose[b])]]]
    /\ UNCHANGED <<input, boardVars, obsVars, cameraVars, cam_group,
                   cams_group_obs, objectVars, pairVars,
                   no_overlap_camgroup_graph, saved>>

\* init3DObjectObs is run for every object once per object.
MergeAllObjectObs ==
    /\ Call("mergeAllObjectObs")
    /\ object_observations' = Init3DObjectObs
    /\ copies' = Cardinality(DOMAIN object_3d)
    /\ cams_group_obs' = {}
    /\ UNCHANGED <<input, boardVars, object_3d, cameraVars, cam_group,
                   objectVars, pairVars, no_overlap_camgroup_graph, saved>>

MergeAllCameraGroupObs ==
    /\ Call("mergeAllCameraGroupObs")
    /\ cams_group_obs' = InitCameraGroupObs
    /\ UNCHANGED <<input, boardVars, object_3d, obsVars, cameraVars,
                   cam_group, objectVars, pairVars,
                   no_overlap_camgroup_graph, saved>>
-----------------------------------------------------------------------------
(* Groups without a common view.                                           *)

GroupPairs ==
    {p \in (DOMAIN cam_group) \X (DOMAIN cam_group) : p[1] # p[2]}

\* The pairs of observations of g1 and g2 in a common frame, as objects; the
\* frames of a group are those of its observations.
Together(g1, g2) ==
    {p \in cams_group_obs \X cams_group_obs :
        p[1][1] = g1 /\ p[2][1] = g2 /\ p[1][2] = p[2][2]}

\* The pair of objects with the greatest count, the least of them if there are
\* several; <<0, 0>> if nothing was counted.
ArgMax(g1, g2) ==
    LET both == Together(g1, g2)
        pairs == {<<p[1][4], p[2][4]>> : p \in both}
        count == [q \in pairs |->
                    Cardinality({p \in both : <<p[1][4], p[2][4]>> = q})]
        best == {q \in pairs : \A r \in pairs : count[r] <= count[q]}
    IN  IF pairs = {} THEN <<0, 0>>
        ELSE CHOOSE q \in best : \A r \in best : r = q \/ Before(q, r)

FindPairObjectForNonOverlap ==
    /\ Call("findPairObjectForNonOverlap")
    /\ no_overlap_object_pair' = [p \in GroupPairs |-> ArgMax(p[1], p[2])]
    /\ UNCHANGED <<input, boardVars, object_3d, obsVars, cameraVars,
                   cam_group, cams_group_obs, objectVars, no_overlap_pair,
                   no_overlap_camgroup_graph, saved>>

\* The frames in which g1 sees the first and g2 the second of two objects.
CommonFrames(g1, g2, objects) ==
    {p[1][2] : p \in {q \in Together(g1, g2) :
                        <<q[1][4], q[2][4]>> = objects}}

\* initNonOverlapPair for every ordered pair: the hand-eye pose maps the frame
\* of g1 to that of g2.  Objects that do not exist are created null.
FindPoseNoOverlapAllCamGroup ==
    /\ Call("findPoseNoOverlapAllCamGroup")
    /\ LET Common(p) == CommonFrames(p[1], p[2], no_overlap_object_pair[p])
           posed == {p \in GroupPairs :
                        Cardinality(Common(p)) >= MinCommonPoses}
           objects == UNION {ToSet(no_overlap_object_pair[p]) : p \in GroupPairs}
       IN  /\ no_overlap_pair' =
                 [p \in posed |->
                    [pose |-> Map(cam_group[p[1]].ref, cam_group[p[2]].ref),
                     cnt  |-> Cardinality(Common(p))]]
           /\ object_3d' =
                 [o \in DOMAIN object_3d \cup objects |->
                    IF o \in DOMAIN object_3d THEN object_3d[o] ELSE NullObject]
    /\ UNCHANGED <<input, boardVars, obsVars, cameraVars, cam_group,
                   cams_group_obs, objectVars, no_overlap_object_pair,
                   no_overlap_camgroup_graph, saved>>

\* mergeCameraGroup reads cam_group_[id] of the least group of a component.
GroupsExist ==
    \A i \in DOMAIN ConnectedComponents(no_overlap_camgroup_graph) :
        Min(ConnectedComponents(no_overlap_camgroup_graph)[i])
            \in DOMAIN cam_group

\* Every hop of a route was posed in the direction it is used in; a missing
\* one is an empty matrix, and multiplying by it throws.
RoutePosed(route) ==
    \A g \in DOMAIN route : \A k \in 1 .. Len(route[g]) - 1 :
        <<route[g][k], route[g][k + 1]>> \in DOMAIN no_overlap_pair

MergeCameraGroup ==
    /\ Call("mergeCameraGroup")
    /\ GroupsExist
    /\ \E route \in Routes(no_overlap_camgroup_graph) :
          LET comp == ConnectedComponents(no_overlap_camgroup_graph)
              hop == [p \in DOMAIN no_overlap_pair |-> no_overlap_pair[p].pose]
              Holder(c) == CHOOSE g \in DOMAIN cam_group : c \in CamsOf(g)
          IN  /\ RoutePosed(route)
              /\ cam_group' =
                   [i \in 0 .. Len(comp) - 1 |->
                      LET ref == cam_group[Min(comp[i + 1])].ref
                          InFinal(g) == Along(ref, route[g], hop)
                          cams == UNION {CamsOf(g) : g \in comp[i + 1]
                                                     \cap DOMAIN cam_group}
                      IN  [ref  |-> ref,
                           pose |-> [c \in cams |->
                                       Compose(cam_group[Holder(c)].pose[c],
                                               InFinal(Holder(c)))]]]
    /\ UNCHANGED <<input, boardVars, object_3d, obsVars, cameraVars,
                   cams_group_obs, objectVars, pairVars,
                   no_overlap_camgroup_graph, saved>>

-----------------------------------------------------------------------------
(* The end of the program.                                                 *)

\* The file is released after the first group; what is written later is
\* ignored.
SaveCamerasParams ==
    /\ Call("saveCamerasParams")
    /\ saved' =
          UNION {{[cam |-> c, group |-> g, pose |-> Inverted(cam_group[g].pose[c])]
                    : c \in CamsOf(g)} :
                 g \in {h \in DOMAIN cam_group : h = Min(DOMAIN cam_group)}}
    /\ UNCHANGED <<input, boardVars, object_3d, obsVars, cameraVars,
                   cam_group, cams_group_obs, objectVars, pairVars,
                   no_overlap_camgroup_graph>>

Abort ==
    /\ aborted' = TRUE
    /\ UNCHANGED <<seen, kept, step, boardVars, object_3d, obsVars,
                   cameraVars, cam_group, cams_group_obs, objectVars,
                   pairVars, no_overlap_camgroup_graph, saved>>

\* A null object is dereferenced.
NullObjectRead ==
    /\ At("initInterObjectsGraph")
    /\ \E o \in DOMAIN object_3d : object_3d[o] = NullObject
    /\ Abort

\* A null camera group is dereferenced.
NullGroupRead == At("mergeCameraGroup") /\ ~GroupsExist /\ Abort

\* cv::Exception from a product with an empty matrix.
EmptyPoseUsed ==
    /\ At("mergeCameraGroup") /\ GroupsExist
    /\ \E route \in Routes(no_overlap_camgroup_graph) : ~RoutePosed(route)
    /\ Abort

Ended ==
    /\ aborted \/ step > Len(Workflow)
    /\ UNCHANGED vars

Next ==
    \/ ComputeBoardsPairPose \/ InitInterBoardsGraph \/ Init3DObjects
    \/ InitAll3DObjectObs \/ ComputeCamerasPairPose \/ InitInterCamerasGraph
    \/ InitCameraGroup \/ InitAllCameraGroupObs \/ InitInterCamGroupGraph
    \/ ComputeObjectsPairPose \/ InitInterObjectsGraph \/ MergeObjects
    \/ MergeAllObjectObs \/ MergeAllCameraGroupObs
    \/ FindPairObjectForNonOverlap \/ FindPoseNoOverlapAllCamGroup
    \/ MergeCameraGroup \/ SaveCamerasParams
    \/ NullObjectRead \/ NullGroupRead \/ EmptyPoseUsed \/ Ended

Spec == Init /\ [][Next]_vars
-----------------------------------------------------------------------------
(* Properties.                                                             *)

ObjectParts == {BoardsOf(o) : o \in DOMAIN object_3d} \ {{}}

GroupParts == {CamsOf(g) : g \in DOMAIN cam_group}

\* The latest of some calls that has returned.
LastOf(names) ==
    LET called == {i \in 1 .. step - 1 : Workflow[i] \in names}
    IN  IF called = {} THEN "none" ELSE Workflow[Max(called)]

\* P is the finest partition that keeps linked elements together: nothing is
\* linked across two parts and no part falls into unlinked halves.
FinestPartition(P, links) ==
    /\ \A p, q \in P : p = q \/ p \cap q = {}
    /\ \A l \in links, p \in P : l[1] \in p => l[2] \in p
    /\ \A p \in P : \A q \in (SUBSET p) \ {{}, p} :
          \E l \in links : l[1] \in q /\ l[2] \in p \ q

\* Boards seen by one camera in one frame.
ImageLinks ==
    {<<p[1][3], p[2][3]>> :
        p \in {q \in seen \X seen : /\ q[1][1] = q[2][1] /\ q[1][2] = q[2][2]}}

\* Boards measured by one group of cameras in one frame.
GroupLinks ==
    {<<p[1][3], p[2][3]>> :
        p \in {q \in kept \X kept :
                  /\ q[1][2] = q[2][2]
                  /\ \E g \in DOMAIN cam_group : {q[1][1], q[2][1]} \subseteq CamsOf(g)}}

\* Cameras that measured boards of one object in one frame.
ObjectLinks ==
    {<<p[1][1], p[2][1]>> :
        p \in {q \in kept \X kept :
                  /\ q[1][2] = q[2][2]
                  /\ \E o \in DOMAIN object_3d : {q[1][3], q[2][3]} \subseteq BoardsOf(o)}}

\* The state has the shape the rest relies on: objects and groups are numbered
\* from 0 (but for the null object), their reference is one of their members,
\* and observations name existing cameras and frames.
TypeOK ==
    /\ seen \subseteq Detections /\ kept \subseteq seen
    /\ step \in 1 .. Len(Workflow) + 1 /\ aborted \in BOOLEAN
    /\ copies \in 0 .. NbBoard
    /\ DOMAIN object_3d = 0 .. Cardinality(DOMAIN object_3d) - 1
    /\ \A o \in DOMAIN object_3d :
          object_3d[o] = NullObject \/ object_3d[o].ref \in BoardsOf(o)
    /\ DOMAIN cam_group = 0 .. Cardinality(DOMAIN cam_group) - 1
    /\ \A g \in DOMAIN cam_group : cam_group[g].ref \in CamsOf(g)
    /\ \A d \in object_observations : <<d[1], d[2]>> \in {<<e[1], e[2]>> : e \in kept}
    /\ \A s \in saved : s.cam \in 0 .. NbCamera - 1

\* Objects are exactly what the images justify (init3DObjects), and after
\* mergeObjects exactly what the images and the common frames of a camera
\* group justify: no board is merged into an object without a chain of common
\* views, none that was measured is left out or apart.
ObjectsExact ==
    LET last == LastOf({"init3DObjects", "mergeObjects", "mergeCameraGroup"})
    IN  /\ last = "init3DObjects" =>
              /\ UNION ObjectParts = {d[3] : d \in seen}
              /\ FinestPartition(ObjectParts, ImageLinks)
        /\ last = "mergeObjects" =>
              /\ {d[3] : d \in kept} \subseteq UNION ObjectParts
              /\ FinestPartition(ObjectParts, ImageLinks \cup GroupLinks)

\* initCameraGroup gathers exactly the cameras that are joined by chains of
\* common objects.
GroupsExact ==
    LastOf({"initCameraGroup", "mergeObjects"}) = "initCameraGroup" =>
        /\ UNION GroupParts = {d[1] : d \in seen}
        /\ FinestPartition(GroupParts, ObjectLinks)

\* Whatever path is taken through the graphs, the pose of a board in its
\* object maps the board's frame to that of the object's reference board, after
\* init3DObjects and through both merges.
BoardPosesSound ==
    \A o \in DOMAIN object_3d : \A b \in BoardsOf(o) :
        object_3d[o].pose[b] = Map(b, object_3d[o].ref)

\* When observations are read to count common views or to build a graph, they
\* are those of the present objects and groups: none is left over from before
\* a merge and none is missing.
ObservationsCurrent ==
    ~aborted /\ step <= Len(Workflow)
        /\ Workflow[step] \in {"initInterCamGroupGraph", "computeObjectsPairPose",
                               "findPairObjectForNonOverlap",
                               "findPoseNoOverlapAllCamGroup",
                               "saveCamerasParams"} =>
        cams_group_obs =
            UNION {{<<g, d[2], d[1], o>> :
                      d \in {e \in kept : e[1] \in CamsOf(g)
                                          /\ e[3] \in BoardsOf(o)}} :
                     g \in DOMAIN cam_group, o \in DOMAIN object_3d}

\* The first mergeCameraGroup unites the groups that a chain of hand-eye poses
\* joins and no others.
FirstMergeExact ==
    [][ At("mergeCameraGroup") /\ LastOf({"mergeCameraGroup"}) = "none"
          /\ step' # step =>
            FinestPartition(
                {{g \in DOMAIN cam_group : CamsOf(g) \subseteq p} :
                    p \in GroupParts'},
                UNION {{p, <<p[2], p[1]>>} : p \in DOMAIN no_overlap_pair})
      ]_vars

\* The boards of an object are never separated again and the boards that were
\* measured are never lost.
ObjectsOnlyGrow ==
    INSTANCE Grouping WITH parts <- ObjectParts, anchored <- {d[3] : d \in kept}

\* The same for the cameras of a group.
GroupsOnlyGrow ==
    INSTANCE Grouping WITH parts <- GroupParts, anchored <- {d[1] : d \in kept}

\* Both implement the abstract specification, whatever is merged in between.
Gathers == ObjectsOnlyGrow!Spec /\ GroupsOnlyGrow!Spec
-----------------------------------------------------------------------------
(* What comments of the source say and the code does not do.               *)

\* "Compute the transformation wrt. the reference camera" (McCalib.cpp:1131):
\* the pose of a camera in its group maps the reference camera's frame to the
\* camera's.  The code multiplies the hops of a path from the left.
CameraPosesSound ==
    \A g \in DOMAIN cam_group : \A c \in CamsOf(g) :
        cam_group[g].pose[c] = Map(cam_group[g].ref, c)

\* "Merge connected camera groups into unified global groups"
\* (McCalib.cpp:1538): cameras are united only if chains of common frames join
\* them.  The second merge reads hand-eye poses under the numbers the groups
\* had before the first.
GroupsCoViewed ==
    \A p \in GroupParts : \A q \in (SUBSET p) \ {{}, p} :
        \E d, e \in kept : d[1] \in q /\ e[1] \in p \ q /\ d[2] = e[2]
=============================================================================
