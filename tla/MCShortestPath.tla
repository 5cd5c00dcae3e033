--------------------------- MODULE MCShortestPath ---------------------------
(***************************************************************************)
(* Every graph over Names vertices whose edges were measured 1 to MaxCount *)
(* times, each edge added in both orders as the calibration does.          *)
(***************************************************************************)
EXTENDS ShortestPath

CONSTANTS Names, MaxCount

Pairs == {<<u, v>> \in Names \X Names : u < v}

Counts == [Pairs -> 0 .. MaxCount]

GraphOf(c) ==
    LET seen == {p \in Pairs : c[p] > 0}
        both == seen \cup {<<p[2], p[1]>> : p \in seen}
    IN  BuildGraph(Names, [p \in both |-> IF p \in Pairs THEN c[p]
                                          ELSE c[<<p[2], p[1]>>]])

AllGraphs == {GraphOf(c) : c \in Counts}
=============================================================================
