---------------------------- MODULE MCCalibration ----------------------------
(***************************************************************************)
(* Three families of films for one run of Calibration.                     *)
(***************************************************************************)
EXTENDS MCFilms

PlainFilms == AnyBoardFilms(3) \cup OwnBoardFilms
SmallFilms == AnyBoardFilms(NbCamera)

\* Two cameras, two frames, three boards: any boards in each image, and no
\* detection, one or all of them lose every point as outliers.
CrowdedDetections == {0, 1} \X {NbFrame - 2, NbFrame - 1} \X (0 .. 2)
CrowdedFilms ==
    {[kind |-> "crowded",
      w    |-> [f \in 0 .. NbFrame - 1 |->
                  IF f < NbFrame - 2 THEN 0 ELSE p[f - NbFrame + 3]],
      lost |-> l] :
        p \in {q \in (0 .. 63) \X (0 .. 63) : q[1] <= q[2]},
        l \in {{}, CrowdedDetections} \cup {{d} : d \in CrowdedDetections}}
AllFilms == PlainFilms \cup CrowdedFilms
AnyScene(film) ==
    IF film.kind # "crowded" THEN PlainScene(film)
    ELSE LET Seen(d) == (Digit(8, film.w[d[2]], d[1]) \div 2 ^ d[3]) % 2 = 1
             all == {d \in CrowdedDetections : Seen(d)}
         IN  [seen |-> all, kept |-> all \ film.lost]
=============================================================================
