----------------------------- MODULE MCFrameSync -----------------------------
(***************************************************************************)
(* Three streams, the second at a third of the rate of the others.  The    *)
(* frames at the fronts can be 16, 12 and 13: the set that goes then is    *)
(* the third stream's frame alone, and the second's, which is earlier and  *)
(* in sync with it, stays behind.  The three frames of the first stream    *)
(* overflow a queue of two.                                                *)
(***************************************************************************)
EXTENDS FrameSync

OffsetsOf == <<{12, 16}, {12}, {13}>>
FramesOf == <<3, 1, 1>>
MixedGaps == <<4, 12, 4>>
=============================================================================
