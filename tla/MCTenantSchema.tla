--------------------------- MODULE MCTenantSchema ---------------------------
(* An instance of TenantSchema for TLC: one tenant and the default schema. *)
EXTENDS TenantSchema, TLC
CONSTANTS public, acme, s1, s2

MCSchemas == {public, acme}
MCNames == {s1, s2}
=============================================================================
