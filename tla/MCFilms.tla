---------------------------- MODULE MCFilms ----------------------------------
(***************************************************************************)
(* Image sets for Calibration.                                             *)
(***************************************************************************)
EXTENDS Calibration

\* Nothing is an outlier.
Clean(s) == [seen |-> s, kept |-> s]

\* A frame as a number, one digit for each of the first cams cameras.  The
\* frames of a film can be exchanged without a difference to any property, so
\* they are taken in ascending order only.
FilmsOf(base, cams) ==
    {w \in [0 .. NbFrame - 1 -> 0 .. base ^ cams - 1] :
        \A f \in 1 .. NbFrame - 1 : w[f - 1] <= w[f]}

Digit(base, n, c) == (n \div base ^ c) % base

\* Any: each of the cams cameras sees one of the first two boards, or none:
\* digit 0 is none, b + 1 board b.  Own: camera c sees board c or nothing, so
\* no two cameras ever share a view.
AnyBoardFilms(cams) == {[kind |-> "any", w |-> w] : w \in FilmsOf(3, cams)}
OwnBoardFilms == {[kind |-> "own", w |-> w] : w \in FilmsOf(2, NbCamera)}
PlainScene(film) ==
    Clean({d \in Detections :
              IF film.kind = "any" THEN Digit(3, film.w[d[2]], d[1]) = d[3] + 1
              ELSE d[1] = d[3] /\ Digit(2, film.w[d[2]], d[1]) = 1})
=============================================================================
