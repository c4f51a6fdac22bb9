--------------------------- MODULE MCTransactions ---------------------------
(* Instances of Transactions for TLC. *)
EXTENDS Transactions, TLC
CONSTANTS c1, c2, c3, k1, k2

(* c2 is a REQUIRES_NEW inside c1's callback; c3 is independent. c2 comes  *)
(* from @Transactional, the others from em.transaction().                  *)
MCCallers == {c1, c2, c3}
MCOuter == [c \in MCCallers |-> IF c = c2 THEN c1 ELSE None]
MCDecorated == {c2}
MCConns == {k1, k2}

(* c3 may retry, and registers a callback.                                 *)
MCRetries == [c \in MCCallers |-> IF c = c3 THEN 1 ELSE 0]
MCEnds == [c \in MCCallers |-> IF c = c3 THEN 1 ELSE 0]

(* Every hook around BEGIN, COMMIT and ROLLBACK.                           *)
MCHooks == {"beforeTransactionStart", "beforeTransactionRollback", "afterTransactionCommit",
            "afterTransactionRollback"}
=============================================================================
