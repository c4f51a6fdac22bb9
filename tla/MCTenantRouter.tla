--------------------------- MODULE MCTenantRouter ---------------------------
(* An instance of TenantRouter for TLC. *)
EXTENDS TenantRouter, TLC
CONSTANTS t1, t2, r1, r2, r3

(* t1's pools are the router's, t2 is mapped to a connection of the user.  *)
MCTenants == {t1, t2}
MCMapped == {t2}
MCRequests == {r1, r2, r3}
=============================================================================
