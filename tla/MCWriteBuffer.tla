--------------------------- MODULE MCWriteBuffer ---------------------------
(* An instance of WriteBuffer for TLC: parent p1 with kid k1 in the        *)
(* database and tracked, parent p2 and kid k2 new.                         *)
EXTENDS WriteBuffer, TLC
CONSTANTS p1, p2, k1, k2

MCParents == {p1, p2}
MCKids == {k1, k2}
MCStored == {p1, k1}
MCFirstKey == p1 :> 1 @@ k1 :> 2
MCFirstHome == p1 :> p1 @@ k1 :> p1
MCBulks == {[op |-> "update", of |-> MCKids, from |-> 1, to |-> 2],
            [op |-> "delete", of |-> MCKids, from |-> 2, to |-> 2]}
=============================================================================
