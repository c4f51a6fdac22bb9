--------------------------- MODULE MCReplication ---------------------------
(* An instance of Replication for TLC: a slave whose config is registered  *)
(* again or shut down, and two slaves that are registered once.            *)
EXTENDS Replication, TLC
CONSTANTS m, a, b, r1

MCReaders == {r1}
MCConfigs == {<<a>>, <<a, b>>}
MCEpochs == (<<a>> :> 2) @@ (<<a, b>> :> 1)
MCMarks == (<<a>> :> 0) @@ (<<a, b>> :> 1)
MCMortal == {a, b}
=============================================================================
