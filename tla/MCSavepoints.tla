---------------------------- MODULE MCSavepoints ----------------------------
(* Instances of Savepoints for TLC. *)
EXTENDS Savepoints, TLC
CONSTANTS o1, o2, s1, s2

MCObjs == {o1, o2}
MCNames == {s1, s2}

(* Objects are interchangeable, and so are names. *)
Symmetry == Permutations(MCObjs) \cup Permutations(MCNames)
=============================================================================
