---------------------------- MODULE MCSqliteGate ----------------------------
(* Instances of SqliteGate for TLC. *)
EXTENDS SqliteGate
CONSTANTS f1, f2, f3, s1, s2, s3

(* f2 is opened inside f1; f3 is independent. s1 runs in f1's flow, s2 in  *)
(* the nested one and s3 outside any transaction.                          *)
MCFlows == {f1, f2, f3}
MCStmts == {s1, s2, s3}
MCOuter == [f \in MCFlows |-> IF f = f2 THEN f1 ELSE None]
MCFlowOf == (s1 :> f1) @@ (s2 :> f2) @@ (s3 :> None)
=============================================================================
