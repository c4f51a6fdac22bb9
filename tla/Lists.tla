-------------------------------- MODULE Lists --------------------------------
(* Lists as the code keeps them, in arrays, Maps and tables. The operators  *)
(* are recursive functions, which can be reasoned about.                    *)
EXTENDS Naturals, Sequences

(* What remains of a list when the elements of gone are taken out. *)
Without(s, gone) ==
    LET kept[n \in 0..Len(s)] ==
          IF n = 0 THEN <<>>
          ELSE IF s[n] \in gone THEN kept[n - 1] ELSE Append(kept[n - 1], s[n])
    IN kept[Len(s)]
=============================================================================
