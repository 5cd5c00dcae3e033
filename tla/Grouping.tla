------------------------------ MODULE Grouping ------------------------------
(***************************************************************************)
(* What clustering promises, for boards gathered into objects and cameras  *)
(* gathered into groups: the elements are partitioned once, and from then  *)
(* on parts are only united.  A part with an anchored element, one that    *)
(* was really measured, is never lost.                                     *)
(***************************************************************************)
VARIABLES
    parts,     \* a set of disjoint sets
    anchored   \* the elements measured

vars == <<parts, anchored>>

Disjoint(P) == \A p, q \in P : p = q \/ p \cap q = {}

Init == parts = {}

Form ==
    /\ parts = {}
    /\ {} \notin parts' /\ Disjoint(parts')
    /\ anchored \subseteq UNION parts'
    /\ UNCHANGED anchored

Unite ==
    /\ {} \notin parts' /\ Disjoint(parts')
    /\ \A q \in parts' : q = UNION {p \in parts : p \subseteq q}
    /\ \A p \in parts : p \cap anchored # {} => \E q \in parts' : p \subseteq q
    /\ UNCHANGED anchored

Spec == Init /\ [][Form \/ Unite]_vars
=============================================================================
