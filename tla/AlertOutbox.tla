----------------------------- MODULE AlertOutbox -----------------------------
(***************************************************************************)
(* What the persistent queue promises, without a table, a worker, a clock  *)
(* or a process: an accepted alert owes its text to a set of destinations, *)
(* a destination is taken off the set by its own answer and by nothing     *)
(* else, one at a time, and never comes back.                              *)
(***************************************************************************)
EXTENDS Naturals

CONSTANTS
    Targets,     \* destination names
    MaxAlerts    \* bound: alerts ever accepted

VARIABLES
    issued,      \* how many alerts were accepted so far
    owed         \* alert -> the destinations it still has to reach

outboxVars == <<issued, owed>>

Alerts == 1 .. MaxAlerts

OutboxInit ==
    /\ issued = 0
    /\ owed = [a \in Alerts |-> {}]

Accept(ts) ==
    /\ issued < MaxAlerts
    /\ issued' = issued + 1
    /\ owed' = [owed EXCEPT ![issued + 1] = ts]

Discharge(a, d) ==
    /\ d \in owed[a]
    /\ owed' = [owed EXCEPT ![a] = @ \ {d}]
    /\ UNCHANGED issued

OutboxNext ==
    \/ \E ts \in (SUBSET Targets) \ {{}} : Accept(ts)
    \/ \E a \in Alerts, d \in Targets : Discharge(a, d)

OutboxSpec == OutboxInit /\ [][OutboxNext]_outboxVars

=============================================================================
