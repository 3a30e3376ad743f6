---------------------------- MODULE MCLifecycle ----------------------------
(***************************************************************************)
(* Instances of Lifecycle for TLC, with the values of MCReconcile.         *)
(***************************************************************************)
EXTENDS Doctor

CONSTANTS
    daemon,                     \* the runner
    none, mine, theirs,         \* exact schedules
    someDays,                   \* the label of theirs
    later                       \* a one-off wake event

\* The operator's own schedule has days without a name.
LabelOfMine == [v \in Exact |-> IF v = theirs THEN someDays ELSE v]

\* A night inside a window, with an event planned.
Night == [inside |-> TRUE, guard |-> FALSE, ac |-> TRUE, plan |-> Slots,
          soon |-> {}]

Nights == {Night}

\* Wake scheduling disabled and enabled.
NightConfigs ==
    {[wake |-> None, interval |-> FALSE, requireAC |-> FALSE],
     [wake |-> mine, interval |-> TRUE, requireAC |-> FALSE]}

\* How far TLC follows a behaviour.  At most one thing goes wrong, and a foreign
\* change is combined with one command.  The properties of the commands say
\* nothing any more once a command has shared the ledger (`orderly` stays FALSE),
\* so such a command is followed to its end for the type invariant only, with
\* nothing else going wrong.
Followed ==
    /\ faults + drifts <= 1
    /\ drifts = 0 \/ commands <= 1
    /\ orderly \/ (faults + drifts = 0 /\ commands = 1 /\ cmd.op # "none")
=============================================================================
