---------------------------- MODULE MCDispatcher ----------------------------
(* Small instances of Dispatcher for TLC.                                  *)
EXTENDS Dispatcher, TLC

CONSTANTS slack, line, talk

TwoTargets == {slack, line}
ThreeTargets == {slack, line, talk}

\* Nothing in the specification tells two enabled destinations apart.
TargetSymmetry == Permutations(Enabled)

=============================================================================
