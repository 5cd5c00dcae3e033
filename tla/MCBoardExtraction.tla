-------------------------- MODULE MCBoardExtraction --------------------------
(***************************************************************************)
(* Instances of BoardExtraction for TLC: a few kinds of image, folders of  *)
(* up to MaxImages of them.                                                *)
(***************************************************************************)
EXTENDS BoardExtraction

CONSTANT MaxImages

MCMinPts == [b \in Board |-> 3]

Good      == [corners |-> 9, collinear |-> FALSE]
AtLimit   == [corners |-> 4, collinear |-> FALSE]
OnALine   == [corners |-> 9, collinear |-> TRUE]
Absent    == [corners |-> 0, collinear |-> FALSE]

\* Every board accepted; only the last one; one rejected for each reason.
AllGood  == [b \in Board |-> Good]
LastGood == [b \in Board |-> IF b = NbBoard - 1 THEN Good ELSE Absent]
Rejected == [b \in Board |-> IF b = 0 THEN AtLimit ELSE OnALine]

Images == {AllGood, LastGood, Rejected, Unreadable}

\* Any folder for each camera.
AnyFolders == [Camera -> UNION {[1 .. n -> Images] : n \in 0 .. MaxImages}]
=============================================================================
