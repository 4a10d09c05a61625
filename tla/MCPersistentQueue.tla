-------------------------- MODULE MCPersistentQueue --------------------------
(* Small instance of PersistentQueue for TLC.                              *)
EXTENDS PersistentQueue, TLC

CONSTANTS slack, line

MCTargets == {slack, line}

\* Nothing in the specification tells two destination names apart.
TargetSymmetry == Permutations(MCTargets)

=============================================================================
