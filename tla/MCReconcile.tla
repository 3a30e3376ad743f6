---------------------------- MODULE MCReconcile ----------------------------
(***************************************************************************)
(* Instances of Reconcile for TLC.  Each configuration chooses the         *)
(* settings under management, the schedules that exist and the bounds.     *)
(***************************************************************************)
EXTENDS Reconcile

CONSTANTS
    daemon, manual,             \* runners
    none, mine, theirs, twin,   \* exact schedules
    someDays,                   \* the label mine and twin share
    soonest, later              \* one-off wake events

\* Every schedule has a label of its own.
NamedDays == [v \in Exact |-> v]

\* mine and twin are both printed as "Some days".
SomeDays == [v \in Exact |-> IF v \in {mine, twin} THEN someDays ELSE v]

World(inside, guard, ac, plan, soon) ==
    [inside |-> inside, guard |-> guard, ac |-> ac, plan |-> plan,
     soon |-> soon]

Config(wake, interval, requireAC) ==
    [wake |-> wake, interval |-> interval, requireAC |-> requireAC]

\* Sleep: in and out of a window, with and without a guard, on AC and battery.
SleepWorlds ==
    {World(TRUE, FALSE, TRUE, {}, {}), World(TRUE, FALSE, FALSE, {}, {}),
     World(FALSE, TRUE, TRUE, {}, {}), World(FALSE, FALSE, TRUE, {}, {})}
SleepConfigs == {Config(None, FALSE, TRUE), Config(None, FALSE, FALSE)}

\* Wake: the policy plays no part.
WakeWorlds == {World(FALSE, FALSE, TRUE, {}, {})}
WakeConfigs == {Config(None, FALSE, FALSE), Config(mine, FALSE, FALSE),
                Config(twin, FALSE, FALSE)}

\* Sleep and events: a reservation is planned, about to fire (on battery, in the
\* window), and gone (with a guard, outside).
EventWorlds ==
    {World(TRUE, FALSE, TRUE, {soonest, later}, {}),
     World(TRUE, FALSE, FALSE, {later}, {soonest}),
     World(FALSE, TRUE, TRUE, {later}, {})}
EventConfigs == {Config(None, FALSE, FALSE), Config(mine, TRUE, TRUE)}

\* Both settings and an event: a window that wants all three, on AC power and on
\* battery, a guard, and nothing to do.
BothWorlds ==
    {World(TRUE, FALSE, TRUE, {later}, {}), World(TRUE, FALSE, FALSE, {later}, {}),
     World(FALSE, TRUE, TRUE, {}, {}), World(FALSE, FALSE, TRUE, {}, {})}
BothConfigs == {Config(None, FALSE, FALSE), Config(mine, TRUE, TRUE)}
=============================================================================
