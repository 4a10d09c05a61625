--------------------------- MODULE MCAlertService ---------------------------
(* Small instances of AlertService for TLC.                                *)
EXTENDS AlertService, TLC

CONSTANTS slack, line, front, back

TwoTargets == {slack, line}
OneTarget == {slack}
TwoPresses == {front, back}
OnePress == {front}

\* Nothing in the specification tells two destinations apart, nor two presses.
ServiceSymmetry == Permutations(Targets) \cup Permutations(Presses)

=============================================================================
