---------------------------- MODULE MCMigrations ----------------------------
(* Instances of Migrations for TLC. *)
EXTENDS Migrations, TLC
CONSTANTS m1, m2, m3, rA, rB, runA, lastA, runB, backB

MCMigration == {m1, m2, m3}
MCRunners == {rA, rB}

(* Two releases of one application: the other one's list differs. *)
MCListOf == [r \in MCRunners |-> IF r = rA THEN <<m1, m2>> ELSE <<m1>>]

MCCalls == {runA, lastA, runB, backB}
MCRunnerOf == [c \in MCCalls |-> IF c \in {runA, lastA} THEN rA ELSE rB]
MCKind == [c \in MCCalls |->
             IF c = lastA THEN "revertLast" ELSE IF c = backB THEN "rollback" ELSE "run"]
MCGiven == [c \in MCCalls |-> IF c = runB THEN <<m1, m3>> ELSE Absent]
MCOneConnection == {rA}
MCCount == [c \in MCCalls |-> 2]
=============================================================================
