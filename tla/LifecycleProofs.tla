---------------------------- MODULE LifecycleProofs ----------------------------
(***************************************************************************)
(* Proofs about the lifecycle commands beside the reconciliations, for     *)
(* every set of runners, every configuration, every assignment of labels   *)
(* to schedules and every bound.                                           *)
(***************************************************************************)
EXTENDS Doctor, ReconcileProofs

-----------------------------------------------------------------------------
\* The control of a command.

\* The commands that change an installation, and those that undo one.
Changing == {"install", "apply"}
Undoing  == {"off", "uninstall"}

\* Which steps belong to which command.
InOrder ==
    /\ cmd.step = "idle" <=> cmd.op = "none"
    /\ cmd.op \in Changing => cmd.new \in Configs
    /\ cmd.step \in {"look", "configure", "announce", "wake", "commit",
                     "reload", "bootstrap"} => cmd.op \in Changing
    /\ cmd.step \in {"cancel", "inspect", "restore"} => cmd.op \in Undoing
    /\ cmd.step = "record" => cmd.op = "install"
    /\ cmd.step \in {"force", "save"} => cmd.op = "off"
    /\ cmd.step = "remove" => cmd.op = "uninstall"
    /\ cmd.step = "report" => cmd.op \in {"install", "off"}
    /\ cmd.step \in {"inspect", "restore"} /\ cmd.op = "off" => cmd.on = "wake"

\* What a command knows at each of its steps: the ledger once it has loaded or
\* made one, what install has observed, and what is to be written where.
Informed ==
    /\ \/ cmd.step \in {"record", "configure", "announce", "wake", "commit",
                        "inspect", "restore", "save"}
       \/ cmd.step = "look" /\ cmd.op = "apply"
       \/ cmd.step = "report" /\ cmd.op = "off"
       => IsLedger(cmd.st)
    /\ cmd.step = "load" /\ cmd.op = "install" =>
          /\ cmd.look \in [Settings -> AnyValue]
          /\ \A s \in Settings : cmd.look[s] \in Observation(s)
    /\ cmd.step = "wake" => cmd.goal \in Exact
    /\ cmd.step \in {"inspect", "restore"} => cmd.on \in Settings
    /\ cmd.step = "restore" => cmd.goal \in SystemValue(cmd.on)
    /\ cmd.step \in {"force", "bootout", "cancel", "load"} /\ cmd.op \in Undoing
          => cmd.st = None

Commanded == CommandsOK /\ InOrder /\ Informed

\* A command that leaves the runs alone, or ends the one of the daemon.
LEMMA ProcessesType ==
    ASSUME TypeOK, Control, UNCHANGED processes \/ DaemonKilled
    PROVE  InputsOK' /\ MemoryOK' /\ PlansOK' /\ Control'
<1>1. CASE UNCHANGED processes
  BY <1>1
  DEF processes, inputs, plans, TypeOK, InputsOK, MemoryOK, PlansOK, Control,
      Working
<1>2. CASE pc[Daemon] # "idle" /\ Ended(Daemon)
  BY <1>2, EndedType, ReconcileAssumption
<1> QED
  BY <1>1, <1>2 DEF DaemonKilled

\* What schlaflos restores can be written.
LEMMA RestoredType ==
    ASSUME NEW s \in Settings, NEW v \in Observation(s)
    PROVE  Restored(s, v) \in SystemValue(s)
BY ScheduleAssumption, LifecycleAssumption
DEF Restored, Observation, SystemValue, Schedules, IsExact

\* The part of CommandsOK that is not about the command itself.
HistoryOK ==
    /\ loaded \in BOOLEAN
    /\ installed \in BOOLEAN
    /\ orderly \in BOOLEAN
    /\ commands \in 0..MaxCommands

\* A command that returns leaves nothing.
LEMMA IdleType == ASSUME HistoryOK', cmd' = Idle PROVE Commanded'
BY LifecycleAssumption
DEF Idle, HistoryOK, Commanded, CommandsOK, InOrder, Informed, CommandSteps,
    Ops, Changing, Undoing

\* A command that only goes on to another step.
LEMMA ThenType ==
    ASSUME CommandsOK, HistoryOK', NEW x \in CommandSteps,
           \/ cmd' = [cmd EXCEPT !.step = x]
           \/ cmd' = [cmd EXCEPT !.step = x, !.ok = FALSE]
    PROVE  /\ CommandsOK'
           /\ cmd'.step = x
           /\ cmd'.op = cmd.op /\ cmd'.new = cmd.new /\ cmd'.st = cmd.st
           /\ cmd'.look = cmd.look /\ cmd'.on = cmd.on /\ cmd'.goal = cmd.goal
           /\ cmd'.ok => cmd.ok
<1>1. CASE cmd' = [cmd EXCEPT !.step = x]
  BY <1>1 DEF CommandsOK, HistoryOK
<1>2. CASE cmd' = [cmd EXCEPT !.step = x, !.ok = FALSE]
  BY <1>2 DEF CommandsOK, HistoryOK
<1> QED
  BY <1>1, <1>2

LEMMA InitCommanded == LifecycleInit => Commanded
BY LifecycleAssumption
DEF LifecycleInit, Idle, Commanded, CommandsOK, InOrder, Informed, CommandSteps,
    Ops, Changing, Undoing

\* Both are known: the command is refused, or goes on with what it knows.
LEMMA CheckedType ==
    ASSUME CommandsOK, cmd.op \in Changing, cmd.new \in Configs,
           NEW l, IsLedger(l), NEW o \in [Settings -> AnyValue],
           Checked([cmd EXCEPT !.st = l, !.look = o]),
           HistoryOK'
    PROVE  /\ Commanded'
           /\ \/ cmd' = Idle
              \/ /\ cmd'.op = cmd.op /\ cmd'.st = l
                 /\ cmd'.step \in {"record", "configure"}
<1> DEFINE c == [cmd EXCEPT !.st = l, !.look = o]
<1>1. /\ c.op = cmd.op /\ c.new = cmd.new /\ c.replace = cmd.replace
      /\ c.st = l /\ c.look = o
      /\ c.on = cmd.on /\ c.goal = cmd.goal /\ c.ok = cmd.ok
      /\ c \in [op : Ops \cup {"none"}, step : CommandSteps,
                new : Configs \cup {Invalid}, replace : BOOLEAN,
                st : {l}, look : {Nothing} \cup [Settings -> AnyValue],
                on : Settings \cup {"none"},
                goal : BOOLEAN \cup Exact \cup {None}, ok : BOOLEAN]
  BY DEF CommandsOK
<1> HIDE DEF c
<1>2. CASE cmd' = Idle
  BY <1>2, IdleType
<1>3. CASE cmd' = [c EXCEPT !.step = IF c.op = "install" THEN "record"
                                     ELSE "configure"]
  <2>1. /\ cmd'.op = cmd.op /\ cmd'.new = cmd.new /\ cmd'.st = l
        /\ cmd'.step = IF cmd.op = "install" THEN "record" ELSE "configure"
        /\ CommandsOK'
    BY <1>1, <1>3 DEF CommandsOK, HistoryOK, CommandSteps
  <2>2. InOrder' /\ Informed'
    BY <2>1 DEF InOrder, Informed, Changing, Undoing
  <2> QED
    BY <2>1, <2>2 DEF Commanded
<1> QED
  BY <1>2, <1>3 DEF Checked, c

LEMMA LookAroundType ==
    TypeOK /\ Commanded /\ LookAround => Commanded'
<1> SUFFICES ASSUME TypeOK, Commanded, LookAround PROVE Commanded'
  OBVIOUS
<1>2. HistoryOK'
  BY DEF LookAround, Commanded, CommandsOK, HistoryOK
<1>3. CASE cmd' = Idle
  BY <1>2, <1>3, IdleType
<1>4. ASSUME NEW o \in [Settings -> AnyValue],
             \A s \in Settings : o[s] \in Reading(s, sys[s]),
             IF cmd.op = "install"
             THEN cmd' = [cmd EXCEPT !.step = "load", !.look = o]
             ELSE Checked([cmd EXCEPT !.look = o])
      PROVE  Commanded'
  <2>1. cmd.step = "look" /\ cmd.op \in Changing /\ cmd.new \in Configs
    BY DEF LookAround, Commanded, InOrder
  <2>2. \A s \in Settings : o[s] \in Observation(s)
    BY <1>4, ReadingLooks DEF TypeOK, MachineOK
  <2>3. CASE cmd.op = "install"
    <3>1. CommandsOK /\ cmd' = [cmd EXCEPT !.step = "load", !.look = o]
      BY <1>4, <2>3 DEF Commanded
    <3>2. /\ cmd'.op = cmd.op /\ cmd'.new = cmd.new /\ cmd'.look = o
          /\ cmd'.step = "load"
          /\ CommandsOK'
      BY <1>2, <3>1 DEF CommandsOK, HistoryOK, CommandSteps
    <3>3. InOrder' /\ Informed'
      BY <2>1, <2>2, <2>3, <3>2 DEF InOrder, Informed, Changing, Undoing
    <3> QED
      BY <3>2, <3>3 DEF Commanded
  <2>4. CASE cmd.op # "install"
    <3>1. IsLedger(cmd.st)
      BY <2>1, <2>4 DEF Commanded, Informed, Changing
    <3>2. [cmd EXCEPT !.look = o] = [cmd EXCEPT !.st = cmd.st, !.look = o]
      BY DEF Commanded, CommandsOK
    <3> QED
      BY <1>2, <1>4, <2>1, <2>4, <3>1, <3>2, CheckedType DEF Commanded
  <2> QED
    BY <2>3, <2>4
<1> QED
  BY <1>3, <1>4 DEF LookAround, Return

LEMMA LoadLedgerType ==
    TypeOK /\ Commanded /\ LoadLedger => Commanded'
<1> SUFFICES ASSUME TypeOK, Commanded, LoadLedger PROVE Commanded'
  OBVIOUS
<1>2. HistoryOK' /\ CommandsOK /\ cmd.step = "load"
  BY DEF LoadLedger, Commanded, CommandsOK, HistoryOK
<1>3. CASE cmd' = Idle
  BY <1>2, <1>3, IdleType
<1>4. ASSUME NEW l, IsLedger(l), cmd.op = "install",
             Checked([cmd EXCEPT !.st = l])
      PROVE  Commanded'
  <2>1. /\ cmd.op \in Changing /\ cmd.new \in Configs
        /\ cmd.look \in [Settings -> AnyValue]
    BY <1>2, <1>4 DEF Commanded, InOrder, Informed, Changing
  <2>2. [cmd EXCEPT !.st = l] = [cmd EXCEPT !.st = l, !.look = cmd.look]
    BY <1>2 DEF CommandsOK
  <2> QED
    BY <1>2, <1>4, <2>1, <2>2, CheckedType
<1>5. cmd.op = "install" => IsLedger(NewLedger(cmd.look))
  BY <1>2, NewLedgerType DEF Commanded, Informed
<1>6. CASE /\ cmd.op = "apply"
           /\ disk # None
           /\ cmd' = [cmd EXCEPT !.step = "look", !.st = disk]
  <2>1. IsLedger(disk) /\ cmd.new \in Configs
    BY <1>6 DEF TypeOK, FilesOK, Commanded, InOrder, Changing
  <2>2. /\ cmd'.op = cmd.op /\ cmd'.new = cmd.new /\ cmd'.st = disk
        /\ cmd'.step = "look"
        /\ CommandsOK'
    BY <1>2, <1>6, <2>1 DEF CommandsOK, HistoryOK, CommandSteps
  <2>3. InOrder' /\ Informed'
    BY <1>6, <2>1, <2>2 DEF InOrder, Informed, Changing, Undoing
  <2> QED
    BY <2>2, <2>3 DEF Commanded
<1>7. ASSUME NEW l, IsLedger(l), NEW s \in Settings, cmd.op \in Undoing,
             cmd.op = "off" => s = "wake",
             cmd' = [cmd EXCEPT !.step = "inspect", !.on = s, !.st = l]
      PROVE  Commanded'
  <2>1. /\ cmd'.op = cmd.op /\ cmd'.st = l /\ cmd'.on = s
        /\ cmd'.step = "inspect"
        /\ CommandsOK'
    BY <1>2, <1>7 DEF CommandsOK, HistoryOK, CommandSteps
  <2>2. InOrder' /\ Informed'
    BY <1>7, <2>1 DEF InOrder, Informed, Changing, Undoing
  <2> QED
    BY <2>1, <2>2 DEF Commanded
<1>8. CASE /\ cmd.op = "uninstall"
           /\ cmd' = [cmd EXCEPT !.step = "remove"]
  <2>1. /\ cmd'.op = cmd.op /\ cmd'.st = cmd.st /\ cmd'.step = "remove"
        /\ CommandsOK'
    BY <1>2, <1>8, ThenType DEF CommandSteps
  <2>2. InOrder' /\ Informed'
    BY <1>8, <2>1 DEF InOrder, Informed, Changing, Undoing
  <2> QED
    BY <2>1, <2>2 DEF Commanded
<1>9. disk # None => IsLedger(disk) /\ IsLedger(Committed(disk, "sleep", FALSE))
  BY CommittedType, LifecycleAssumption DEF TypeOK, FilesOK, SystemValue
<1>10. {"sleep", "wake"} \subseteq Settings
  BY LifecycleAssumption
<1> QED
  BY <1>3, <1>4, <1>5, <1>6, <1>7, <1>8, <1>9, <1>10
  DEF LoadLedger, Return, Then, Undoing

\* A step that goes on without learning anything.
Forward ==
    /\ cmd'.op = cmd.op /\ cmd'.new = cmd.new /\ cmd'.st = cmd.st
    /\ cmd'.look = cmd.look /\ cmd'.on = cmd.on /\ cmd'.goal = cmd.goal
    /\ cmd'.ok => cmd.ok
    /\ \/ cmd.step = "record" /\ cmd'.step = "configure"
       \/ cmd.step = "configure" /\ cmd'.step = "announce"
       \/ cmd.step = "commit" /\ cmd'.step = "reload"
       \/ cmd.step = "reload" /\ cmd'.step = "bootout"
       \/ cmd.step = "bootout" /\ cmd.op \in Changing /\ cmd'.step = "bootstrap"
       \/ cmd.step = "bootout" /\ cmd.op \notin Changing /\ cmd'.step = "cancel"
       \/ cmd.step = "bootstrap" /\ cmd.op = "install" /\ cmd'.step = "report"
       \/ cmd.step = "force" /\ cmd'.step = "bootout"
       \/ cmd.step = "cancel" /\ cmd'.step = "load"
       \/ cmd.step = "save" /\ cmd'.step = "report"

\* The steps that go on like that, or return.
Plain ==
    \/ Record
    \/ Configure
    \/ CommitWake
    \/ Reload
    \/ Bootout
    \/ Bootstrap
    \/ ForceSleep
    \/ CancelEvents
    \/ SaveOff
    \/ ReportStatus
    \/ Remove
    \/ Abort

LEMMA PlainEffect ==
    ASSUME Commanded, Plain
    PROVE  /\ HistoryOK'
           /\ cmd' = Idle \/ (Forward /\ CommandsOK')
<1>1. HistoryOK' /\ CommandsOK
  BY DEF Plain, Record, Configure, CommitWake, Reload, Bootout, Bootstrap,
         ForceSleep, CancelEvents, SaveOff, ReportStatus, Remove, Abort,
         Commanded, CommandsOK, HistoryOK
<1>2. CASE cmd' # Idle
  <2>1. PICK x \in CommandSteps :
           /\ cmd' = [cmd EXCEPT !.step = x]
                 \/ cmd' = [cmd EXCEPT !.step = x, !.ok = FALSE]
           /\ \/ cmd.step = "record" /\ x = "configure"
              \/ cmd.step = "configure" /\ x = "announce"
              \/ cmd.step = "commit" /\ x = "reload"
              \/ cmd.step = "reload" /\ x = "bootout"
              \/ cmd.step = "bootout" /\ cmd.op \in Changing /\ x = "bootstrap"
              \/ cmd.step = "bootout" /\ cmd.op \notin Changing /\ x = "cancel"
              \/ cmd.step = "bootstrap" /\ cmd.op = "install" /\ x = "report"
              \/ cmd.step = "force" /\ x = "bootout"
              \/ cmd.step = "cancel" /\ x = "load"
              \/ cmd.step = "save" /\ x = "report"
    BY <1>2
    DEF Plain, Record, Configure, CommitWake, Reload, Bootout, Bootstrap,
        ForceSleep, CancelEvents, SaveOff, ReportStatus, Remove, Abort, Set,
        Return, Then, Despite, Changing, CommandSteps
  <2>2. /\ CommandsOK'
        /\ cmd'.step = x
        /\ cmd'.op = cmd.op /\ cmd'.new = cmd.new /\ cmd'.st = cmd.st
        /\ cmd'.look = cmd.look /\ cmd'.on = cmd.on /\ cmd'.goal = cmd.goal
        /\ cmd'.ok => cmd.ok
    BY <1>1, <2>1, ThenType
  <2> QED
    BY <1>1, <2>1, <2>2 DEF Forward
<1> QED
  BY <1>1, <1>2

LEMMA PlainType ==
    ASSUME Commanded, Plain
    PROVE  Commanded'
<1>1. CASE cmd' = Idle
  BY <1>1, PlainEffect, IdleType
<1>2. CASE Forward /\ CommandsOK'
  <2>1. cmd.op \in Changing \cup Undoing
    BY <1>2 DEF Forward, Commanded, CommandsOK, InOrder, Ops, Changing, Undoing
  <2>2. InOrder' /\ Informed'
    BY <1>2, <2>1
    DEF Forward, Commanded, InOrder, Informed, Changing, Undoing
  <2> QED
    BY <1>2, <2>2 DEF Commanded
<1> QED
  BY <1>1, <1>2, PlainEffect

LEMMA BeginType ==
    ASSUME Commanded, NEW op \in Ops, Begin(op)
    PROVE  Commanded'
<1>1. PICK c \in Configs, replace \in BOOLEAN :
         cmd' = [Idle EXCEPT
                    !.op = op,
                    !.step = [install |-> "look", apply |-> "load",
                              off |-> "force", uninstall |-> "bootout"][op],
                    !.new = IF op \in {"install", "apply"} THEN c ELSE Invalid,
                    !.replace = replace]
  BY DEF Begin
<1>2. HistoryOK'
  BY LifecycleAssumption DEF Begin, Commanded, CommandsOK, HistoryOK
<1> DEFINE x == [install |-> "look", apply |-> "load", off |-> "force",
                 uninstall |-> "bootout"][op]
           new == IF op \in {"install", "apply"} THEN c ELSE Invalid
<1>3. /\ x \in CommandSteps /\ new \in Configs \cup {Invalid}
      /\ \/ op = "install" /\ x = "look"
         \/ op = "apply" /\ x = "load"
         \/ op = "off" /\ x = "force"
         \/ op = "uninstall" /\ x = "bootout"
      /\ op \in Changing => new \in Configs
  BY DEF Ops, Changing, CommandSteps
<1>4. /\ cmd'.op = op /\ cmd'.step = x /\ cmd'.new = new /\ cmd'.st = None
      /\ cmd'.look = Nothing
      /\ CommandsOK'
  <2> HIDE DEF x, new
  <2>1. cmd' = [Idle EXCEPT !.op = op, !.step = x, !.new = new,
                            !.replace = replace]
    BY <1>1 DEF x, new
  <2> QED
    BY <1>2, <1>3, <2>1 DEF Idle, CommandsOK, HistoryOK
<1> HIDE DEF x, new
<1>5. InOrder' /\ Informed'
  BY <1>3, <1>4 DEF InOrder, Informed, Ops, Changing, Undoing
<1> QED
  BY <1>4, <1>5 DEF Commanded

\* What install and apply announce and write is an exact schedule.
LEMMA WakeTargetType ==
    ASSUME Commanded, cmd.step = "announce",
           Differs("wake", cmd.look["wake"], WakeTarget(cmd))
    PROVE  /\ WakeTarget(cmd) \in Exact
           /\ IsLedger(cmd.st)
           /\ IsLedger(WithIntent(cmd.st, "wake", WakeTarget(cmd)))
<1>1. /\ IsLedger(cmd.st)
      /\ cmd.new \in Configs
      /\ "wake" \in Settings
  BY LifecycleAssumption DEF Commanded, InOrder, Informed, Changing
<1>2. cmd.new.wake \in Exact \cup {None}
  BY <1>1, ReconcileAssumption
<1>3. Restored("wake", cmd.st.base["wake"]) \in Exact
  <2>1. cmd.st.base["wake"] \in Observation("wake")
    BY <1>1 DEF IsLedger
  <2> QED
    BY <1>1, <2>1, RestoredType DEF SystemValue
<1>4. WakeTarget(cmd) \in Exact
  BY <1>2, <1>3 DEF WakeTarget, Differs
<1>5. IsLedger(WithIntent(cmd.st, "wake", WakeTarget(cmd)))
  BY <1>1, <1>4, WithIntentType DEF SystemValue
<1> QED
  BY <1>1, <1>4, <1>5

LEMMA AnnounceType ==
    ASSUME Commanded, Announce
    PROVE  Commanded'
<1> DEFINE v == WakeTarget(cmd)
           l == WithIntent(cmd.st, "wake", v)
<1>1. HistoryOK' /\ CommandsOK /\ cmd.step = "announce"
  BY DEF Announce, Commanded, CommandsOK, HistoryOK
<1>2. CASE cmd' = Idle
  BY <1>1, <1>2, IdleType
<1>3. CASE cmd' = [cmd EXCEPT !.step = "reload"]
  <2>1. /\ CommandsOK'
        /\ cmd'.step = "reload"
        /\ cmd'.op = cmd.op /\ cmd'.new = cmd.new
    BY <1>1, <1>3, ThenType DEF CommandSteps
  <2>2. InOrder' /\ Informed'
    BY <1>1, <2>1 DEF Commanded, InOrder, Informed, Changing, Undoing
  <2> QED
    BY <2>1, <2>2 DEF Commanded
<1>4. CASE /\ Differs("wake", cmd.look["wake"], v)
           /\ cmd' = [cmd EXCEPT !.step = "wake", !.st = l, !.goal = v]
  <2>1. IsLedger(l) /\ v \in Exact
    BY <1>1, <1>4, WakeTargetType
  <2> HIDE DEF l, v
  <2>2. /\ CommandsOK'
        /\ cmd'.step = "wake"
        /\ cmd'.op = cmd.op /\ cmd'.new = cmd.new
        /\ cmd'.st = l /\ cmd'.goal = v
    BY <1>1, <1>4, <2>1 DEF CommandsOK, HistoryOK, CommandSteps
  <2>3. InOrder' /\ Informed'
    BY <1>1, <2>1, <2>2 DEF Commanded, InOrder, Informed, Changing, Undoing
  <2> QED
    BY <2>2, <2>3 DEF Commanded
<1> QED
  BY <1>2, <1>3, <1>4 DEF Announce, Then, Return

LEMMA SetWakeType ==
    ASSUME Commanded, SetWake
    PROVE  Commanded'
<1> DEFINE l == Committed(cmd.st, "wake", cmd.goal)
<1>1. HistoryOK' /\ CommandsOK /\ cmd.step = "wake"
  BY DEF SetWake, Commanded, CommandsOK, HistoryOK
<1>2. CASE cmd' = Idle
  BY <1>1, <1>2, IdleType
<1>3. CASE cmd' = [cmd EXCEPT !.step = "commit", !.st = l]
  <2>1. IsLedger(l)
    BY <1>1, CommittedType, LifecycleAssumption
    DEF Commanded, Informed, SystemValue
  <2> HIDE DEF l
  <2>2. /\ CommandsOK'
        /\ cmd'.step = "commit"
        /\ cmd'.op = cmd.op /\ cmd'.new = cmd.new /\ cmd'.st = l
    BY <1>1, <1>3, <2>1 DEF CommandsOK, HistoryOK, CommandSteps
  <2>3. InOrder' /\ Informed'
    BY <1>1, <2>1, <2>2 DEF Commanded, InOrder, Informed, Changing, Undoing
  <2> QED
    BY <2>2, <2>3 DEF Commanded
<1> QED
  BY <1>2, <1>3 DEF SetWake, Set, Return

\* An undoing command goes on with a ledger.
LEMMA OnwardType ==
    ASSUME CommandsOK, HistoryOK', cmd.op \in Undoing, cmd.on \in Settings,
           NEW l, IsLedger(l), NEW ok \in BOOLEAN,
           cmd' = Onward([cmd EXCEPT !.st = l, !.ok = ok])
    PROVE  /\ Commanded'
           /\ cmd'.op = cmd.op /\ cmd'.st = l /\ cmd'.ok = ok
           /\ \/ cmd.op = "off" /\ cmd'.step = "save"
              \/ /\ cmd.op = "uninstall" /\ cmd.on = "sleep"
                 /\ cmd'.step = "inspect" /\ cmd'.on = "wake"
              \/ cmd.op = "uninstall" /\ cmd.on = "wake" /\ cmd'.step = "remove"
<1> DEFINE c == [cmd EXCEPT !.st = l, !.ok = ok]
<1>1. /\ c.op = cmd.op /\ c.st = l /\ c.ok = ok /\ c.on = cmd.on
      /\ c \in [op : Ops \cup {"none"}, step : CommandSteps,
                new : Configs \cup {Invalid}, replace : BOOLEAN,
                st : {l}, look : {Nothing} \cup [Settings -> AnyValue],
                on : Settings \cup {"none"},
                goal : BOOLEAN \cup Exact \cup {None}, ok : BOOLEAN]
  BY DEF CommandsOK
<1> HIDE DEF c
<1>2. ASSUME NEW x \in {"save", "remove"}, cmd' = [c EXCEPT !.step = x],
             \/ x = "save" /\ cmd.op = "off"
             \/ x = "remove" /\ cmd.op = "uninstall"
      PROVE  /\ Commanded' /\ cmd'.step = x
             /\ cmd'.op = cmd.op /\ cmd'.st = l /\ cmd'.ok = ok
  <2>1. /\ CommandsOK'
        /\ cmd'.op = cmd.op /\ cmd'.st = l /\ cmd'.ok = ok
        /\ cmd'.step = x
    BY <1>1, <1>2 DEF CommandsOK, HistoryOK, CommandSteps
  <2>2. InOrder' /\ Informed'
    BY <1>2, <2>1 DEF InOrder, Informed, Changing, Undoing
  <2> QED
    BY <2>1, <2>2 DEF Commanded
<1>3. ASSUME cmd' = [c EXCEPT !.step = "inspect", !.on = "wake"],
             cmd.op = "uninstall"
      PROVE  /\ Commanded' /\ cmd'.step = "inspect" /\ cmd'.on = "wake"
             /\ cmd'.op = cmd.op /\ cmd'.st = l /\ cmd'.ok = ok
  <2>1. /\ CommandsOK'
        /\ cmd'.op = cmd.op /\ cmd'.st = l /\ cmd'.ok = ok
        /\ cmd'.step = "inspect" /\ cmd'.on = "wake"
    BY <1>1, <1>3, LifecycleAssumption DEF CommandsOK, HistoryOK, CommandSteps
  <2>2. InOrder' /\ Informed'
    BY <1>3, <2>1, LifecycleAssumption DEF InOrder, Informed, Changing, Undoing
  <2> QED
    BY <2>1, <2>2 DEF Commanded
<1>4. cmd' = Onward(c)
  BY DEF c
<1>5. CASE cmd.op = "off"
  BY <1>1, <1>2, <1>4, <1>5 DEF Onward
<1>6. CASE cmd.op # "off" /\ cmd.on = "sleep"
  BY <1>1, <1>3, <1>4, <1>6 DEF Onward, Undoing
<1>7. CASE cmd.op # "off" /\ cmd.on # "sleep"
  BY <1>1, <1>2, <1>4, <1>7, LifecycleAssumption DEF Onward, Undoing
<1> QED
  BY <1>5, <1>6, <1>7

\* The inspection of a setting ends in leaving it, in an error, or in taking it
\* back.
LEMMA InspectEffect ==
    ASSUME Commanded, Inspect
    PROVE  \/ /\ cmd' = Onward([cmd EXCEPT !.st = cmd.st, !.ok = cmd.ok])
              /\ \/ cmd.st.last[cmd.on] = None
                 \/ \E o \in Reading(cmd.on, sys[cmd.on]) :
                       ~TakenBack(cmd.on, cmd.st, o)
           \/ cmd' = Onward([cmd EXCEPT !.st = cmd.st, !.ok = FALSE])
           \/ /\ cmd' = [cmd EXCEPT
                            !.step = "restore",
                            !.goal = Restored(cmd.on, cmd.st.base[cmd.on])]
              /\ cmd.st.last[cmd.on] # None
<1>1. /\ cmd = [cmd EXCEPT !.st = cmd.st, !.ok = cmd.ok]
      /\ [cmd EXCEPT !.ok = FALSE] = [cmd EXCEPT !.st = cmd.st, !.ok = FALSE]
  BY DEF Commanded, CommandsOK
<1>2. CASE cmd' = Onward(cmd) /\ cmd.st.last[cmd.on] = None
  BY <1>1, <1>2
<1>3. CASE /\ cmd.st.last[cmd.on] # None
           /\ \E o \in Reading(cmd.on, sys[cmd.on]) :
                 cmd' = IF TakenBack(cmd.on, cmd.st, o)
                        THEN [cmd EXCEPT
                                 !.step = "restore",
                                 !.goal = Restored(cmd.on, cmd.st.base[cmd.on])]
                        ELSE Onward(cmd)
  BY <1>1, <1>3, ZenonT(30)
<1>4. CASE cmd' = Onward([cmd EXCEPT !.ok = FALSE])
  BY <1>1, <1>4
<1> QED
  BY <1>2, <1>3, <1>4, ZenonT(30) DEF Inspect

LEMMA InspectType ==
    ASSUME Commanded, Inspect
    PROVE  Commanded'
<1>1. /\ HistoryOK' /\ CommandsOK
      /\ IsLedger(cmd.st)
      /\ cmd.step = "inspect" /\ cmd.on \in Settings
      /\ cmd.op \in Undoing
      /\ cmd.op = "off" => cmd.on = "wake"
  BY DEF Inspect, Commanded, CommandsOK, HistoryOK, InOrder, Informed
<1>2. ASSUME NEW ok \in BOOLEAN,
             cmd' = Onward([cmd EXCEPT !.st = cmd.st, !.ok = ok])
      PROVE  Commanded'
  BY <1>1, <1>2, OnwardType
<1>3. CASE cmd' = [cmd EXCEPT !.step = "restore",
                              !.goal = Restored(cmd.on, cmd.st.base[cmd.on])]
  <2> DEFINE v == Restored(cmd.on, cmd.st.base[cmd.on])
  <2>1. v \in SystemValue(cmd.on)
    BY <1>1, RestoredType DEF IsLedger
  <2>2. v \in BOOLEAN \cup Exact \cup {None}
    BY <2>1 DEF SystemValue
  <2> HIDE DEF v
  <2>3. cmd' = [cmd EXCEPT !.step = "restore", !.goal = v]
    BY <1>3 DEF v
  <2>4. /\ CommandsOK'
        /\ cmd'.op = cmd.op /\ cmd'.st = cmd.st /\ cmd'.on = cmd.on
        /\ cmd'.step = "restore" /\ cmd'.goal = v
    BY <1>1, <2>2, <2>3 DEF CommandsOK, HistoryOK, CommandSteps
  <2>5. InOrder' /\ Informed'
    BY <1>1, <2>1, <2>4 DEF InOrder, Informed, Changing, Undoing
  <2> QED
    BY <2>4, <2>5 DEF Commanded
<1>4. cmd.ok \in BOOLEAN
  BY <1>1 DEF CommandsOK
<1> QED
  BY <1>2, <1>3, <1>4, InspectEffect

\* The ledger after a value has been taken back.
LEMMA LastType ==
    ASSUME NEW l, IsLedger(l), NEW s \in Settings, NEW v \in SystemValue(s)
    PROVE  IsLedger([l EXCEPT !.last[s] = v])
BY ScheduleAssumption
DEF IsLedger, Ledgers, SystemValue, AnyValue, Schedules

\* A value is taken back and recorded, or that is an error.
LEMMA RestoreEffect ==
    ASSUME Commanded, Restore
    PROVE  /\ \/ /\ sys' = [sys EXCEPT ![cmd.on] = cmd.goal]
                 /\ drifted' = drifted \ {cmd.on}
              \/ UNCHANGED <<sys, drifted>>
           /\ \/ /\ cmd' = Onward([cmd EXCEPT
                              !.st = [cmd.st EXCEPT !.last[cmd.on] = cmd.goal],
                              !.ok = cmd.ok])
                 /\ Verified(cmd.on, sys'[cmd.on], cmd.goal)
              \/ cmd' = Onward([cmd EXCEPT !.st = cmd.st, !.ok = FALSE])
<1>1. /\ [cmd EXCEPT !.st.last[cmd.on] = cmd.goal]
            = [cmd EXCEPT !.st = [cmd.st EXCEPT !.last[cmd.on] = cmd.goal],
                          !.ok = cmd.ok]
      /\ [cmd EXCEPT !.ok = FALSE] = [cmd EXCEPT !.st = cmd.st, !.ok = FALSE]
  BY DEF Commanded, CommandsOK
<1> QED
  BY <1>1, ZenonT(30) DEF Restore, Set

LEMMA RestoreType ==
    ASSUME Commanded, Restore
    PROVE  Commanded'
<1>1. /\ HistoryOK' /\ CommandsOK
      /\ IsLedger(cmd.st)
      /\ cmd.step = "restore" /\ cmd.on \in Settings
      /\ cmd.op \in Undoing
      /\ cmd.op = "off" => cmd.on = "wake"
      /\ cmd.goal \in SystemValue(cmd.on)
      /\ cmd.ok \in BOOLEAN
  BY DEF Restore, Commanded, CommandsOK, HistoryOK, InOrder, Informed
<1>2. IsLedger([cmd.st EXCEPT !.last[cmd.on] = cmd.goal])
  BY <1>1, LastType
<1> QED
  BY <1>1, <1>2, RestoreEffect, OnwardType

-----------------------------------------------------------------------------
\* A command keeps the machine, the files and the budgets in order.

\* What a write from a command does to the machine.
SetEffect(s, v) ==
    \/ sys' = [sys EXCEPT ![s] = v] /\ drifted' = drifted \ {s}
    \/ UNCHANGED <<sys, drifted>>

LEMMA SetType ==
    ASSUME MachineOK, NEW s \in Settings, NEW v \in SystemValue(s),
           SetEffect(s, v), UNCHANGED <<events, world, cfg>>
    PROVE  MachineOK'
BY DEF MachineOK, SetEffect, SystemValue

\* The steps that write a setting.
LEMMA SetterMachine ==
    ASSUME TypeOK, Commanded, SetWake \/ ForceSleep \/ Restore
    PROVE  /\ MachineOK'
           /\ UNCHANGED <<files, processes, drifts, changes, loaded, orderly>>
           /\ Fine \/ Fault
           /\ \E s \in Settings : \E v \in SystemValue(s) : SetEffect(s, v)
<1>1. CASE SetWake
  <2>1. /\ SetEffect("wake", cmd.goal)
        /\ UNCHANGED <<events, world, cfg>>
        /\ UNCHANGED <<files, processes, drifts, changes, loaded, orderly>>
        /\ Fine \/ Fault
    BY <1>1, ZenonT(30) DEF SetWake, Set, SetEffect
  <2>2. "wake" \in Settings /\ cmd.goal \in SystemValue("wake")
    BY <1>1, LifecycleAssumption
    DEF SetWake, Commanded, Informed, SystemValue
  <2> QED
    BY <2>1, <2>2, SetType DEF TypeOK
<1>2. CASE ForceSleep
  <2>1. /\ SetEffect("sleep", FALSE)
        /\ UNCHANGED <<events, world, cfg>>
        /\ UNCHANGED <<files, processes, drifts, changes, loaded, orderly>>
        /\ Fine \/ Fault
    BY <1>2, ZenonT(30) DEF ForceSleep, Set, SetEffect
  <2>2. "sleep" \in Settings /\ FALSE \in SystemValue("sleep")
    BY LifecycleAssumption DEF SystemValue
  <2> QED
    BY <2>1, <2>2, SetType DEF TypeOK
<1>3. CASE Restore
  <2>1. /\ SetEffect(cmd.on, cmd.goal)
        /\ UNCHANGED <<events, world, cfg>>
        /\ UNCHANGED <<files, processes, drifts, changes, loaded, orderly>>
        /\ Fine \/ Fault
    BY <1>3, ZenonT(30) DEF Restore, Set, SetEffect
  <2>2. cmd.on \in Settings /\ cmd.goal \in SystemValue(cmd.on)
    BY <1>3 DEF Restore, Commanded, Informed
  <2> QED
    BY <2>1, <2>2, SetType DEF TypeOK
<1> QED
  BY <1>1, <1>2, <1>3

\* The steps that save a ledger.
LEMMA SaverFiles ==
    ASSUME TypeOK, Commanded, Record \/ Announce \/ CommitWake \/ SaveOff
    PROVE  /\ disk' = disk \/ IsLedger(disk')
           /\ UNCHANGED <<machine, status, processes, drifted, drifts, changes,
                          loaded, orderly>>
           /\ Fine \/ Fault
<1>1. CASE Record \/ CommitWake \/ SaveOff
  <2>1. /\ disk' = disk \/ disk' = cmd.st
        /\ UNCHANGED <<machine, status, processes, drifted, drifts, changes,
                       loaded, orderly>>
        /\ Fine \/ Fault
    BY <1>1 DEF Record, CommitWake, SaveOff, Saved, SaveFailed
  <2>2. IsLedger(cmd.st)
    BY <1>1 DEF Record, CommitWake, SaveOff, Commanded, Informed
  <2> QED
    BY <2>1, <2>2
<1>2. CASE Announce
  <2> DEFINE v == WakeTarget(cmd)
             l == WithIntent(cmd.st, "wake", v)
  <2>1. /\ cmd.step = "announce"
        /\ disk' = disk \/ (Differs("wake", cmd.look["wake"], v) /\ disk' = l)
        /\ UNCHANGED <<machine, status, processes, drifted, drifts, changes,
                       loaded, orderly>>
        /\ Fine \/ Fault
    <3> DEFINE differs == Differs("wake", cmd.look["wake"], v)
               onward == [cmd EXCEPT !.step = "wake", !.st = l, !.goal = v]
    <3>1. /\ cmd.step = "announce"
          /\ IF ~differs
             THEN Then("reload") /\ Fine /\ UNCHANGED disk
             ELSE \/ Saved(l) /\ cmd' = onward /\ Fine
                  \/ SaveFailed(l) /\ Return /\ Fault
          /\ UNCHANGED <<machine, status, processes, drifted, drifts, changes,
                         loaded, orderly, commands>>
      BY <1>2 DEF Announce
    <3> HIDE DEF v, l, differs, onward
    <3>2. /\ disk' = disk \/ (differs /\ disk' = l)
          /\ Fine \/ Fault
      BY <3>1 DEF Saved, SaveFailed
    <3> QED
      BY <3>1, <3>2 DEF differs
  <2>2. Differs("wake", cmd.look["wake"], v) => IsLedger(l)
    BY <2>1, WakeTargetType
  <2> QED
    BY <2>1, <2>2
<1> QED
  BY <1>1, <1>2

\* Every step of a command.
LEMMA CommandMachine ==
    ASSUME TypeOK, Commanded,
           CommandStep \/ Abort \/ \E op \in Ops : Begin(op)
    PROVE  MachineOK' /\ FilesOK' /\ BudgetsOK'
<1> USE DEF TypeOK, machine, files, budgets
<1>1. CASE SetWake \/ ForceSleep \/ Restore
  <2>1. MachineOK' /\ (Fine \/ Fault) /\ UNCHANGED <<files, drifts, changes>>
    BY <1>1, SetterMachine
  <2> QED
    BY <2>1, FaultType DEF FilesOK, BudgetsOK
<1>2. CASE Record \/ Announce \/ CommitWake \/ SaveOff
  <2>1. /\ disk' = disk \/ IsLedger(disk')
        /\ UNCHANGED <<machine, status, drifted, drifts, changes>>
        /\ Fine \/ Fault
    BY <1>2, SaverFiles
  <2> QED
    BY <2>1, FaultType DEF MachineOK, FilesOK, BudgetsOK
<1>3. CASE \/ LookAround \/ LoadLedger \/ Reload \/ Bootout \/ Bootstrap
           \/ Inspect \/ Abort
  <2>1. UNCHANGED <<machine, files, drifted, drifts, changes>>
    BY <1>3
    DEF LookAround, LoadLedger, Reload, Bootout, Bootstrap, Inspect, Abort
  <2>2. Fine \/ Fault
    BY <1>3, ZenonT(30)
    DEF LookAround, LoadLedger, Reload, Bootout, Bootstrap, Inspect, Abort
  <2> QED
    BY <2>1, <2>2, FaultType DEF MachineOK, FilesOK, BudgetsOK
<1>4. CASE Configure
  <2>1. cmd.new \in Configs
    BY <1>4 DEF Configure, Commanded, InOrder
  <2>2. /\ cfg' \in {cfg, cmd.new}
        /\ Fine \/ Fault
        /\ UNCHANGED <<sys, events, world, files, drifted, drifts, changes>>
    BY <1>4 DEF Configure
  <2> QED
    BY <2>1, <2>2, FaultType DEF MachineOK, FilesOK, BudgetsOK
<1>5. CASE CancelEvents
  <2>1. /\ events' \subseteq events
        /\ Fine \/ Fault
        /\ UNCHANGED <<sys, cfg, world, files, drifted, drifts, changes>>
    BY <1>5 DEF CancelEvents
  <2> QED
    BY <2>1, FaultType DEF MachineOK, FilesOK, BudgetsOK
<1>6. CASE ReportStatus
  <2>1. /\ status' \in {status, StatusOfCommand}
        /\ Fine \/ Fault
        /\ UNCHANGED <<machine, disk, drifted, drifts, changes>>
    BY <1>6 DEF ReportStatus
  <2>2. StatusOfCommand \in Statuses
    <3>1. cmd.op \in {"install", "off"} /\ cmd.ok \in BOOLEAN
      BY <1>6 DEF ReportStatus, Commanded, CommandsOK, InOrder
    <3>2. CASE cmd.op = "install"
      <4>1. cmd.new.wake \in Exact \cup {None}
        BY <3>2, ReconcileAssumption DEF Commanded, InOrder, Changing
      <4>2. cmd.look \in [Settings -> AnyValue \cup {None}]
        BY DEF Commanded, CommandsOK, Nothing
      <4> QED
        BY <3>1, <3>2, <4>1, <4>2 DEF StatusOfCommand, Statuses, Modes
    <3>3. CASE cmd.op = "off"
      <4>1. [Nothing EXCEPT !["sleep"] = FALSE]
               \in [Settings -> AnyValue \cup {None}]
        BY DEF Nothing, AnyValue
      <4> QED
        BY <3>1, <3>3, <4>1 DEF StatusOfCommand, Statuses, Modes
    <3> QED
      BY <3>1, <3>2, <3>3
  <2> QED
    BY <2>1, <2>2, FaultType DEF MachineOK, FilesOK, BudgetsOK
<1>7. CASE Remove
  <2>1. /\ cfg' \in {cfg, Invalid}
        /\ status' \in {status, None}
        /\ disk' \in {disk, None}
        /\ Fine \/ Fault
        /\ UNCHANGED <<sys, events, world, drifted, drifts, changes>>
    BY <1>7 DEF Remove
  <2> QED
    BY <2>1, FaultType DEF MachineOK, FilesOK, BudgetsOK
<1>8. CASE \E op \in Ops : Begin(op)
  <2>1. UNCHANGED vars
    BY <1>8 DEF Begin
  <2> QED
    BY <2>1 DEF vars, MachineOK, FilesOK, BudgetsOK
<1> QED
  BY <1>1, <1>2, <1>3, <1>4, <1>5, <1>6, <1>7, <1>8 DEF CommandStep

\* What a command does to the runs: nothing, unless launchd kills the daemon's.
LEMMA CommandProcesses ==
    ASSUME CommandStep \/ Abort \/ \E op \in Ops : Begin(op)
    PROVE  UNCHANGED processes \/ DaemonKilled
<1>1. CASE \/ LookAround \/ LoadLedger \/ Record \/ Configure \/ Announce
           \/ SetWake \/ CommitWake \/ Bootstrap \/ ForceSleep \/ CancelEvents
           \/ Inspect \/ Restore \/ SaveOff \/ ReportStatus \/ Remove \/ Abort
  BY <1>1, ZenonT(30)
  DEF LookAround, LoadLedger, Record, Configure, Announce, SetWake, CommitWake,
      Bootstrap, ForceSleep, CancelEvents, Inspect, Restore, SaveOff,
      ReportStatus, Remove, Abort
<1>2. CASE Reload \/ Bootout
  BY <1>2, ZenonT(30) DEF Reload, Bootout
<1>3. CASE \E op \in Ops : Begin(op)
  BY <1>3 DEF Begin, vars, processes
<1> QED
  BY <1>1, <1>2, <1>3 DEF CommandStep

LEMMA CommandType ==
    ASSUME TypeOK, Control, Commanded,
           CommandStep \/ Abort \/ \E op \in Ops : Begin(op)
    PROVE  TypeOK' /\ Control' /\ Commanded'
<1>1. TypeOK' /\ Control'
  BY CommandMachine, CommandProcesses, ProcessesType DEF TypeOK
<1>2. Commanded'
  BY LookAroundType, LoadLedgerType, PlainType, BeginType, AnnounceType,
     SetWakeType, InspectType, RestoreType
  DEF CommandStep, Plain
<1> QED
  BY <1>1, <1>2

\* The other steps are those of Reconcile.
LEMMA RunMoves ==
    ASSUME \/ \E r \in Runners, d \in BOOLEAN : StartRun(r, d)
           \/ (\E r \in Runners : Step(r)) /\ UNCHANGED lifecycle
           \/ Environment /\ UNCHANGED lifecycle
           \/ UNCHANGED allVars
    PROVE  /\ [Next]_vars
           /\ UNCHANGED <<loaded, installed, cmd, commands>>
           /\ orderly' \in {orderly, FALSE}
           /\ orderly' => orderly
<1>1. CASE \E r \in Runners, d \in BOOLEAN : StartRun(r, d)
  BY <1>1 DEF StartRun, Next
<1>2. CASE \/ (\E r \in Runners : Step(r)) /\ UNCHANGED lifecycle
           \/ Environment /\ UNCHANGED lifecycle
  <2>1. Next /\ UNCHANGED lifecycle
    BY <1>2 DEF Next
  <2> QED
    BY <2>1 DEF lifecycle
<1>3. CASE UNCHANGED allVars
  <2>1. UNCHANGED vars /\ UNCHANGED lifecycle
    BY <1>3 DEF allVars
  <2> QED
    BY <2>1 DEF lifecycle
<1> QED
  BY <1>1, <1>2, <1>3

LEMMA LifecycleStepType ==
    TypeOK /\ Control /\ Commanded /\ [LifecycleNext]_allVars
       => TypeOK' /\ Control' /\ Commanded'
<1> SUFFICES ASSUME TypeOK, Control, Commanded, [LifecycleNext]_allVars
             PROVE  TypeOK' /\ Control' /\ Commanded'
  OBVIOUS
<1>1. CASE CommandStep \/ Abort \/ \E op \in Ops : Begin(op)
  BY <1>1, CommandType
<1>2. CASE \/ \E r \in Runners, d \in BOOLEAN : StartRun(r, d)
           \/ (\E r \in Runners : Step(r)) /\ UNCHANGED lifecycle
           \/ Environment /\ UNCHANGED lifecycle
           \/ UNCHANGED allVars
  <2>1. /\ [Next]_vars
        /\ UNCHANGED <<loaded, installed, cmd, commands>>
        /\ orderly' \in {orderly, FALSE}
    BY <1>2, RunMoves
  <2>2. TypeOK' /\ Control'
    BY <2>1, StepControl
  <2>3. CommandsOK'
    BY <2>1 DEF Commanded, CommandsOK
  <2>4. InOrder' /\ Informed'
    BY <2>1 DEF Commanded, InOrder, Informed
  <2> QED
    BY <2>2, <2>3, <2>4 DEF Commanded
<1> QED
  BY <1>1, <1>2 DEF LifecycleNext

\* Every variable of the commands and of the runs beside them holds a value of
\* its kind, whatever is interleaved with what (module Lifecycle).
THEOREM LifecycleTypeCorrect == LifecycleSpec => []LifecycleTypeOK
<1>1. LifecycleInit => TypeOK /\ Control /\ Commanded
  BY InitControl, InitCommanded DEF LifecycleInit
<1>2. TypeOK /\ Commanded => LifecycleTypeOK
  BY DEF Commanded, LifecycleTypeOK
<1> QED
  BY <1>1, <1>2, LifecycleStepType, PTL DEF LifecycleSpec

-----------------------------------------------------------------------------
\* The inductive invariant behind AccountsWhenOrderly.  A command that has the
\* ledger to itself works while no run does, until it hands over; what it has in
\* memory accounts for the settings whenever it saves it, and what it is about
\* to write is announced on disk.

Kept(l) == \A s \in Settings \ drifted : Accounts(l, s, sys[s])

Alone == orderly /\ ~Handed => lock = None

RunsAccount ==
    orderly => \A r \in Runners : Resolved(r) /\ Announced(r) /\ MemoryAccounts(r)

ChangeAccounts ==
    orderly /\ cmd.op \in Changing =>
       /\ cmd.step = "load" /\ cmd.op = "install" =>
             \A s \in Settings \ drifted : cmd.look[s] \in Reading(s, sys[s])
       /\ \/ cmd.step \in {"record", "configure", "announce"}
          \/ cmd.step = "look" /\ cmd.op = "apply"
          => cmd.st.pending = Nothing /\ Kept(cmd.st)
       /\ cmd.step = "wake" =>
             /\ Kept(cmd.st)
             /\ cmd.st.pending["wake"] = cmd.goal
             /\ disk = None \/ disk = cmd.st
       /\ cmd.step = "commit" => Kept(cmd.st)

\* emergency-off forces sleep before it looks at the ledger, so there the ledger
\* need not account for it.
UndoAccounts ==
    orderly /\ cmd.op \in Undoing /\ cmd.ok =>
       /\ cmd.op = "off" /\ cmd.step # "force" /\ "sleep" \notin drifted =>
             ~sys["sleep"]
       /\ cmd.st = None /\ disk # None =>
             \A s \in Settings \ drifted :
                s = "wake" \/ cmd.op = "uninstall" => Accounts(disk, s, sys[s])
       /\ cmd.step \in {"inspect", "restore", "save", "report"} =>
             cmd.st.pending = Nothing /\ Kept(cmd.st)
       /\ cmd.step = "report" => disk = None \/ disk = cmd.st

Ordered ==
    Alone /\ AccountsWhenOrderly /\ RunsAccount /\ ChangeAccounts /\ UndoAccounts

LEMMA InitOrdered == LifecycleInit => Ordered
<1> SUFFICES ASSUME LifecycleInit PROVE Ordered
  OBVIOUS
<1>1. Accounting
  BY InitAccounting DEF LifecycleInit
<1>2. cmd.step = "idle" /\ cmd.op = "none"
  BY DEF LifecycleInit, Idle
<1> QED
  BY <1>1, <1>2
  DEF Accounting, Ordered, Alone, Handed, AccountsWhenOrderly, RunsAccount,
      ChangeAccounts, UndoAccounts, Changing, Undoing

\* Without the lock no run is under way.
LEMMA Unlocked ==
    ASSUME TypeOK, Control, lock = None
    PROVE  \A r \in Runners : pc[r] = "idle"
BY ReconcileAssumption DEF Control, Working

\* Runs that are idle stay accounted for.
LEMMA IdleAccounts ==
    ASSUME RunsAccount, orderly, \A r \in Runners : pc[r] = "idle",
           UNCHANGED processes
    PROVE  RunsAccount'
BY DEF RunsAccount, Resolved, Announced, MemoryAccounts, processes, plans

-----------------------------------------------------------------------------
\* What others do while a command is at work.

\* They may change a setting or lose the ledger.
Bystander ==
    /\ drifted \subseteq drifted'
    /\ \A s \in Settings \ drifted' : sys'[s] = sys[s]
    /\ disk' = disk \/ disk' = None
    /\ events' \subseteq events

LEMMA EnvironmentEffect ==
    ASSUME TypeOK, Environment, \A r \in Runners : pc[r] = "idle"
    PROVE  Bystander /\ UNCHANGED processes
<1>1. CASE LoseLedger
  BY <1>1 DEF LoseLedger, Bystander, machine, processes
<1>2. ASSUME NEW s \in Settings, DriftAway(s)
      PROVE  Bystander /\ UNCHANGED processes
  BY <1>2 DEF DriftAway, Bystander, files, processes, TypeOK, MachineOK
<1>3. CASE ChangeWorld \/ ChangeConfig
  BY <1>3 DEF ChangeWorld, ChangeConfig, Bystander, files, processes
<1> QED
  BY <1>1, <1>2, <1>3 DEF Environment, Crash

\* The steps of the runs and of the environment.
Moves ==
    \/ \E r \in Runners, d \in BOOLEAN : StartRun(r, d)
    \/ (\E r \in Runners : Step(r)) /\ UNCHANGED lifecycle
    \/ Environment /\ UNCHANGED lifecycle
    \/ UNCHANGED allVars

LEMMA MovesAlone ==
    ASSUME TypeOK, Control, lock = None, ~Handed, orderly', Moves
    PROVE  Bystander /\ UNCHANGED processes
<1>1. \A r \in Runners : pc[r] = "idle"
  BY Unlocked
<1>2. CASE \E r \in Runners, d \in BOOLEAN : StartRun(r, d)
  BY <1>2 DEF StartRun
<1>3. CASE \E r \in Runners : Step(r)
  BY <1>1, <1>3
  DEF Step, Load, ReadConfig, Observe, Evaluate, Intent, Write, Commit, Events,
      Arrange, Save, WriteStatus
<1>4. CASE Environment
  BY <1>1, <1>4, EnvironmentEffect
<1>5. CASE UNCHANGED allVars
  <2>1. UNCHANGED vars
    BY <1>5 DEF allVars
  <2> QED
    BY <2>1 DEF vars, machine, files, Bystander, processes
<1> QED
  BY <1>2, <1>3, <1>4, <1>5 DEF Moves

LEMMA BystanderOrdered ==
    ASSUME TypeOK, Control, Ordered, orderly, lock = None, Bystander,
           UNCHANGED processes, cmd' = cmd
    PROVE  Ordered'
<1>1. Alone'
  BY DEF Alone, processes
<1>2. RunsAccount'
  BY Unlocked, IdleAccounts DEF Ordered
<1>3. ASSUME NEW l, Kept(l) PROVE Kept(l)'
  BY <1>3 DEF Kept, Bystander
<1>4. AccountsWhenOrderly'
  BY <1>3 DEF Ordered, AccountsWhenOrderly, LedgerAccounts, Kept, Bystander
<1>5. ChangeAccounts'
  BY <1>3 DEF Ordered, ChangeAccounts, Bystander
<1>6. UndoAccounts'
  <2> SUFFICES ASSUME orderly', cmd'.op \in Undoing, cmd'.ok PROVE UndoAccounts'
    BY DEF UndoAccounts
  <2>1. "sleep" \notin drifted' => sys'["sleep"] = sys["sleep"]
    BY LifecycleAssumption DEF Bystander
  <2>2. ASSUME disk' # None, NEW s \in Settings \ drifted',
               Accounts(disk, s, sys[s])
        PROVE  Accounts(disk', s, sys'[s])
    BY <2>2 DEF Bystander
  <2>3. Settings \ drifted' \subseteq Settings \ drifted /\ drifted \subseteq drifted'
    BY DEF Bystander
  <2>4. disk' = disk \/ disk' = None
    BY DEF Bystander
  <2> QED
    BY <1>3, <2>1, <2>2, <2>3, <2>4 DEF Ordered, UndoAccounts
<1> QED
  BY <1>1, <1>2, <1>4, <1>5, <1>6 DEF Ordered

LEMMA MovesOrdered ==
    ASSUME TypeOK, Control, Commanded, Ordered, Moves
    PROVE  Ordered'
<1>1. /\ [Next]_vars
      /\ UNCHANGED <<loaded, installed, cmd, commands>>
      /\ orderly' => orderly
  BY RunMoves DEF Moves
<1>2. CASE ~orderly'
  BY <1>2
  DEF Ordered, Alone, AccountsWhenOrderly, RunsAccount, ChangeAccounts,
      UndoAccounts
<1>3. CASE orderly' /\ Handed
  <2>1. /\ cmd.step \in {"idle", "report"} /\ cmd.op \notin Undoing
        /\ cmd.op \notin {"off", "uninstall"}
    BY <1>3 DEF Handed, Commanded, InOrder, Undoing
  <2>2. Accounting
    BY <1>1, <1>3, <2>1 DEF Ordered, AccountsWhenOrderly, RunsAccount, Accounting
  <2>3. Accounting'
    BY <1>1, <2>2, StepAccounting
  <2>4. Handed'
    BY <1>1, <1>3 DEF Handed
  <2>5. cmd'.step \in {"idle", "report"} /\ cmd'.op \notin Undoing
    BY <1>1, <2>1
  <2> QED
    BY <2>3, <2>4, <2>5
    DEF Accounting, Ordered, Alone, AccountsWhenOrderly, RunsAccount,
        ChangeAccounts, UndoAccounts
<1>4. CASE orderly' /\ ~Handed
  <2>1. orderly /\ lock = None
    BY <1>1, <1>4 DEF Ordered, Alone
  <2> QED
    BY <1>1, <1>4, <2>1, MovesAlone, BystanderOrdered
<1> QED
  BY <1>2, <1>3, <1>4

-----------------------------------------------------------------------------
\* The steps of a command.

\* They leave the runs alone.
LEMMA CommandAlone ==
    ASSUME TypeOK, Control, Commanded, Ordered, orderly',
           CommandStep \/ Abort \/ \E op \in Ops : Begin(op)
    PROVE  orderly /\ UNCHANGED processes /\ Alone' /\ RunsAccount'
<1>1. orderly
  BY ZenonT(30)
  DEF CommandStep, LookAround, LoadLedger, Record, Configure, Announce, SetWake,
      CommitWake, Reload, Bootout, Bootstrap, ForceSleep, CancelEvents, Inspect,
      Restore, SaveOff, ReportStatus, Remove, Abort, Begin
<1>2. CASE lock = None
  <2>1. \A r \in Runners : pc[r] = "idle"
    BY <1>2, Unlocked
  <2>2. UNCHANGED processes
    BY <2>1, CommandProcesses, ReconcileAssumption DEF DaemonKilled
  <2> QED
    BY <1>1, <1>2, <2>1, <2>2, IdleAccounts DEF Ordered, Alone, processes
<1>3. CASE lock # None
  <2>1. Handed
    BY <1>1, <1>3 DEF Ordered, Alone
  <2>2. ~ \E op \in Ops : Begin(op)
    BY <1>3 DEF Begin
  <2>3. ReportStatus \/ Abort
    BY <2>1, <2>2
    DEF Handed, CommandStep, LookAround, LoadLedger, Record, Configure, Announce,
        SetWake, CommitWake, Reload, Bootout, Bootstrap, ForceSleep, CancelEvents,
        Inspect, Restore, SaveOff, ReportStatus, Remove, Abort
  <2>4. /\ UNCHANGED <<sys, disk, processes, drifted>>
        /\ cmd' = Idle
    BY <2>3 DEF ReportStatus, Abort, machine, files, Return
  <2>5. RunsAccount'
    BY <1>1, <2>4
    DEF Ordered, RunsAccount, Resolved, Announced, MemoryAccounts, processes,
        plans
  <2> QED
    BY <1>1, <2>4, <2>5 DEF Alone, Handed, Idle
<1> QED
  BY <1>2, <1>3

\* A command that returns leaves a ledger that accounts for the settings.
LEMMA ReturnAccounts ==
    ASSUME LedgerAccounts', cmd' = Idle
    PROVE  AccountsWhenOrderly' /\ ChangeAccounts' /\ UndoAccounts'
BY DEF Idle, AccountsWhenOrderly, ChangeAccounts, UndoAccounts, Changing, Undoing

\* The steps that leave the settings and the ledger alone and learn nothing.
LEMMA SteadyOrdered ==
    ASSUME TypeOK, Commanded, Ordered, orderly, orderly',
           \/ Configure \/ Reload \/ Bootout \/ Bootstrap \/ CancelEvents
           \/ ReportStatus \/ Abort
    PROVE  AccountsWhenOrderly' /\ ChangeAccounts' /\ UndoAccounts'
<1>1. UNCHANGED <<sys, disk, drifted>>
  BY DEF Configure, Reload, Bootout, Bootstrap, CancelEvents, ReportStatus,
         Abort, machine, files
<1>2. CASE cmd' = Idle
  <2>1. \/ cmd.op \in Changing
        \/ cmd.op = "off" /\ cmd.step = "report" /\ cmd.ok
    <3>1. CASE Configure \/ Reload \/ Bootstrap \/ ReportStatus \/ Abort
      BY <3>1
      DEF Configure, Reload, Bootstrap, ReportStatus, Abort, Commanded, InOrder,
          Changing
    <3>2. CASE Bootout \/ CancelEvents
      <4>1. \/ cmd.op \in Changing
            \/ Then("cancel") \/ Despite("cancel")
            \/ Then("load") \/ Despite("load")
        BY <3>2 DEF Bootout, CancelEvents, Changing
      <4>2. ASSUME NEW x \in {"cancel", "load"}, Then(x) \/ Despite(x)
            PROVE  FALSE
        BY <1>2, <4>2
        DEF Then, Despite, Idle, Commanded, CommandsOK
      <4> QED
        BY <4>1, <4>2
    <3> QED
      BY <3>1, <3>2
  <2>2. LedgerAccounts
    <3>1. CASE cmd.op \in Changing
      BY <3>1 DEF Ordered, AccountsWhenOrderly, Changing
    <3>2. CASE cmd.op = "off" /\ cmd.step = "report" /\ cmd.ok
      BY <3>2 DEF Ordered, UndoAccounts, Undoing, LedgerAccounts, Kept
    <3> QED
      BY <2>1, <3>1, <3>2
  <2> QED
    BY <1>1, <1>2, <2>2, ReturnAccounts DEF LedgerAccounts
<1>3. CASE Forward
  <2>1. cmd.step \in {"configure", "reload", "bootout", "bootstrap", "cancel"}
    <3>1. cmd' # Idle
      BY <1>3 DEF Forward, Idle
    <3> QED
      BY <3>1
      DEF Configure, Reload, Bootout, Bootstrap, CancelEvents, ReportStatus,
          Abort, Return
  <2>2. AccountsWhenOrderly'
    BY <1>1, <1>3
    DEF Forward, Ordered, AccountsWhenOrderly, LedgerAccounts
  <2>3. ChangeAccounts'
    <3>1. ASSUME NEW l, Kept(l) PROVE Kept(l)'
      BY <1>1, <3>1 DEF Kept
    <3>2. /\ cmd'.op = cmd.op /\ cmd'.st = cmd.st
          /\ \/ cmd.step = "configure" /\ cmd'.step = "announce"
             \/ cmd'.step \in {"bootout", "bootstrap", "report", "cancel"}
             \/ cmd'.step = "load" /\ cmd.op \in Undoing
      BY <1>3, <2>1 DEF Forward, Commanded, InOrder
    <3> QED
      BY <3>1, <3>2 DEF Ordered, ChangeAccounts, Changing, Undoing
  <2>4. UndoAccounts'
    BY <1>1, <1>3, <2>1
    DEF Forward, Commanded, InOrder, Ordered, UndoAccounts, Kept, Undoing
  <2> QED
    BY <2>2, <2>3, <2>4
<1> QED
  BY <1>2, <1>3, PlainEffect DEF Plain

LEMMA BeginOrdered ==
    ASSUME TypeOK, Commanded, Ordered, orderly, orderly', NEW op \in Ops,
           Begin(op)
    PROVE  AccountsWhenOrderly' /\ ChangeAccounts' /\ UndoAccounts'
<1>1. PICK c \in Configs, replace \in BOOLEAN :
         cmd' = [Idle EXCEPT
                    !.op = op,
                    !.step = [install |-> "look", apply |-> "load",
                              off |-> "force", uninstall |-> "bootout"][op],
                    !.new = IF op \in {"install", "apply"} THEN c ELSE Invalid,
                    !.replace = replace]
  BY DEF Begin
<1>2. /\ cmd'.op = op /\ cmd'.st = None
      /\ \/ op = "install" /\ cmd'.step = "look"
         \/ op = "apply" /\ cmd'.step = "load"
         \/ op = "off" /\ cmd'.step = "force"
         \/ op = "uninstall" /\ cmd'.step = "bootout"
  BY <1>1 DEF Idle, Ops
<1>3. /\ UNCHANGED <<sys, disk, drifted>>
      /\ LedgerAccounts
  <2>1. cmd.op = "none"
    BY DEF Begin, Commanded, InOrder
  <2> QED
    BY <2>1 DEF Begin, vars, machine, files, Ordered, AccountsWhenOrderly
<1>4. AccountsWhenOrderly'
  BY <1>3 DEF AccountsWhenOrderly, LedgerAccounts
<1>5. ChangeAccounts'
  BY <1>2 DEF ChangeAccounts, Changing
<1>6. UndoAccounts'
  BY <1>2, <1>3 DEF UndoAccounts, LedgerAccounts, Undoing
<1> QED
  BY <1>4, <1>5, <1>6

\* A command that has learnt what the ledger holds and the settings are.
LEMMA CheckedOrdered ==
    ASSUME CommandsOK, HistoryOK', cmd.op \in Changing, cmd.new \in Configs,
           NEW l, IsLedger(l), NEW o \in [Settings -> AnyValue],
           Checked([cmd EXCEPT !.st = l, !.look = o]),
           l.pending = Nothing, Kept(l), LedgerAccounts,
           UNCHANGED <<sys, disk, drifted>>
    PROVE  AccountsWhenOrderly' /\ ChangeAccounts' /\ UndoAccounts'
<1>1. LedgerAccounts' /\ Kept(l)'
  BY DEF LedgerAccounts, Kept
<1>2. CASE cmd' = Idle
  BY <1>1, <1>2, ReturnAccounts
<1>3. CASE /\ cmd'.op = cmd.op /\ cmd'.st = l
           /\ cmd'.step \in {"record", "configure"}
  BY <1>1, <1>3
  DEF AccountsWhenOrderly, ChangeAccounts, UndoAccounts, Changing, Undoing
<1> QED
  BY <1>2, <1>3, CheckedType

LEMMA LookAroundOrdered ==
    ASSUME TypeOK, Commanded, Ordered, orderly, orderly', LookAround
    PROVE  AccountsWhenOrderly' /\ ChangeAccounts' /\ UndoAccounts'
<1>1. /\ UNCHANGED <<sys, disk, drifted>>
      /\ cmd.step = "look" /\ cmd.op \in Changing /\ cmd.new \in Configs
      /\ HistoryOK' /\ CommandsOK
  BY DEF LookAround, machine, files, Commanded, InOrder, CommandsOK, HistoryOK
<1>2. LedgerAccounts /\ LedgerAccounts'
  BY <1>1 DEF Ordered, AccountsWhenOrderly, Changing, LedgerAccounts
<1>3. CASE cmd' = Idle
  BY <1>2, <1>3, ReturnAccounts
<1>4. ASSUME NEW o \in [Settings -> AnyValue],
             \A s \in Settings : o[s] \in Reading(s, sys[s]),
             IF cmd.op = "install"
             THEN cmd' = [cmd EXCEPT !.step = "load", !.look = o]
             ELSE Checked([cmd EXCEPT !.look = o])
      PROVE  AccountsWhenOrderly' /\ ChangeAccounts' /\ UndoAccounts'
  <2>1. CASE cmd.op = "install"
    <3>1. cmd' = [cmd EXCEPT !.step = "load", !.look = o]
      BY <1>4, <2>1
    <3>2. /\ cmd'.op = "install" /\ cmd'.step = "load" /\ cmd'.look = o
      BY <1>1, <2>1, <3>1 DEF CommandsOK
    <3> QED
      BY <1>1, <1>2, <1>4, <3>2
      DEF AccountsWhenOrderly, ChangeAccounts, UndoAccounts, Undoing
  <2>2. CASE cmd.op # "install"
    <3>1. IsLedger(cmd.st) /\ cmd.st.pending = Nothing /\ Kept(cmd.st)
      BY <1>1, <2>2
      DEF Commanded, Informed, Changing, Ordered, ChangeAccounts
    <3>2. [cmd EXCEPT !.look = o] = [cmd EXCEPT !.st = cmd.st, !.look = o]
      BY <1>1 DEF CommandsOK
    <3> QED
      BY <1>1, <1>2, <1>4, <2>2, <3>1, <3>2, CheckedOrdered
  <2> QED
    BY <2>1, <2>2
<1> QED
  BY <1>3, <1>4 DEF LookAround, Return

\* The baselines that install records account for what it has observed.
LEMMA BaselinesAccount ==
    ASSUME TypeOK, NEW o,
           \A s \in Settings \ drifted : o[s] \in Reading(s, sys[s])
    PROVE  Kept(NewLedger(o)) /\ NewLedger(o).pending = Nothing
<1>1. ASSUME NEW s \in Settings \ drifted
      PROVE  Accounts(NewLedger(o), s, sys[s])
  <2>1. Look(s, o[s]) = Look(s, sys[s])
    BY ReadingLooks DEF TypeOK, MachineOK
  <2> QED
    BY <2>1 DEF NewLedger, Accounts, Expected
<1> QED
  BY <1>1 DEF Kept, NewLedger, Nothing

\* What emergency-off makes of the ledger when sleep is known to be allowed.
LEMMA ReleasedAccounts ==
    ASSUME TypeOK, disk # None,
           \A s \in Settings \ drifted : s = "wake" => Accounts(disk, s, sys[s]),
           "sleep" \notin drifted => ~sys["sleep"],
           disk.pending = Nothing
    PROVE  /\ Kept(Committed(disk, "sleep", FALSE))
           /\ Committed(disk, "sleep", FALSE).pending = Nothing
<1> DEFINE l == Committed(disk, "sleep", FALSE)
<1>1. IsLedger(disk) /\ {"sleep", "wake"} = Settings
  BY LifecycleAssumption DEF TypeOK, FilesOK
<1>2. "sleep" \notin drifted => Accounts(l, "sleep", sys["sleep"])
  <2>1. FALSE \in SystemValue("sleep")
    BY DEF SystemValue
  <2>2. "sleep" \notin drifted => sys["sleep"] = FALSE
    BY <1>1 DEF TypeOK, MachineOK, SystemValue
  <2> QED
    BY <1>1, <2>1, <2>2, CommittedAccounts DEF Look
<1>3. "wake" \notin drifted => Accounts(l, "wake", sys["wake"])
  <2>1. "wake" \notin drifted => Accounts(disk, "wake", sys["wake"])
    BY <1>1
  <2>2. "wake" \in Settings \ {"sleep"} /\ "sleep" \in Settings
    BY <1>1
  <2> QED
    BY <1>1, <2>1, <2>2, OtherAccounts
<1>4. l.pending = Nothing
  BY <1>1 DEF Committed, Nothing, IsLedger, Ledgers
<1> QED
  BY <1>1, <1>2, <1>3, <1>4 DEF Kept

LEMMA LoadLedgerOrdered ==
    ASSUME TypeOK, Commanded, Ordered, orderly, orderly', LoadLedger
    PROVE  AccountsWhenOrderly' /\ ChangeAccounts' /\ UndoAccounts'
<1>1. /\ UNCHANGED <<sys, disk, drifted>>
      /\ cmd.step = "load"
      /\ HistoryOK' /\ CommandsOK
  BY DEF LoadLedger, machine, files, Commanded, CommandsOK, HistoryOK
<1>2. cmd.op \in Changing => LedgerAccounts /\ LedgerAccounts'
  BY <1>1 DEF Ordered, AccountsWhenOrderly, Changing, LedgerAccounts
<1>3. CASE cmd' = Idle /\ cmd.op \in Changing
  BY <1>2, <1>3, ReturnAccounts
<1>4. ASSUME NEW l, IsLedger(l), l.pending = Nothing, Kept(l),
             cmd.op = "install", Checked([cmd EXCEPT !.st = l])
      PROVE  AccountsWhenOrderly' /\ ChangeAccounts' /\ UndoAccounts'
  <2>1. /\ cmd.op \in Changing /\ cmd.new \in Configs
        /\ cmd.look \in [Settings -> AnyValue]
    BY <1>1, <1>4 DEF Commanded, InOrder, Informed, Changing
  <2>2. [cmd EXCEPT !.st = l] = [cmd EXCEPT !.st = l, !.look = cmd.look]
    BY <1>1 DEF CommandsOK
  <2> QED
    BY <1>1, <1>2, <1>4, <2>1, <2>2, CheckedOrdered
<1>5. cmd.op = "install" =>
         /\ IsLedger(NewLedger(cmd.look))
         /\ Kept(NewLedger(cmd.look))
         /\ NewLedger(cmd.look).pending = Nothing
  BY <1>1, NewLedgerType, BaselinesAccount
  DEF Commanded, Informed, Ordered, ChangeAccounts, Changing
<1>6. CASE /\ cmd.op = "apply"
           /\ disk # None
           /\ disk.pending = Nothing
           /\ cmd' = [cmd EXCEPT !.step = "look", !.st = disk]
  <2>1. Kept(disk)'
    BY <1>1, <1>2, <1>6 DEF LedgerAccounts, Kept, Changing
  <2>2. cmd'.op = "apply" /\ cmd'.st = disk /\ cmd'.step = "look"
    BY <1>1, <1>6 DEF CommandsOK
  <2> QED
    BY <1>1, <1>2, <1>6, <2>1, <2>2
    DEF AccountsWhenOrderly, ChangeAccounts, UndoAccounts, Changing, Undoing
<1>7. ASSUME NEW l, IsLedger(l), l.pending = Nothing, cmd.ok => Kept(l),
             cmd.op \in Undoing,
             cmd'.op = cmd.op, cmd'.st = l, cmd'.step = "inspect",
             cmd'.ok = cmd.ok
      PROVE  AccountsWhenOrderly' /\ ChangeAccounts' /\ UndoAccounts'
  <2>1. /\ cmd'.op = cmd.op /\ cmd'.st = l /\ cmd'.step = "inspect"
        /\ cmd'.ok = cmd.ok
    BY <1>7
  <2>2. cmd.ok => Kept(l)'
    BY <1>1, <1>7 DEF Kept
  <2>3. AccountsWhenOrderly' /\ ChangeAccounts'
    BY <1>7, <2>1 DEF AccountsWhenOrderly, ChangeAccounts, Changing, Undoing
  <2>4. l # None
    BY <1>7, LedgerAssumption DEF IsLedger
  <2>5. UndoAccounts'
    BY <1>1, <1>7, <2>1, <2>2, <2>4 DEF Ordered, UndoAccounts
  <2> QED
    BY <2>3, <2>5
<1>8. CASE /\ cmd.op = "uninstall"
           /\ cmd' = [cmd EXCEPT !.step = "remove"]
  <2>1. /\ cmd'.op = "uninstall" /\ cmd'.st = cmd.st /\ cmd'.step = "remove"
        /\ cmd'.ok => cmd.ok
    BY <1>1, <1>8, ThenType DEF CommandSteps
  <2>2. AccountsWhenOrderly' /\ ChangeAccounts'
    BY <2>1 DEF AccountsWhenOrderly, ChangeAccounts, Changing
  <2>3. UndoAccounts'
    BY <1>1, <1>8, <2>1 DEF Ordered, UndoAccounts, Undoing
  <2> QED
    BY <2>2, <2>3
<1>9. disk # None /\ disk.pending = Nothing =>
         /\ IsLedger(disk) /\ IsLedger(Committed(disk, "sleep", FALSE))
         /\ cmd.op \in Changing => Kept(disk)
         /\ cmd.op = "uninstall" /\ cmd.ok => Kept(disk)
         /\ cmd.op = "off" /\ cmd.ok =>
               /\ Kept(Committed(disk, "sleep", FALSE))
         /\ cmd.op = "off" => Committed(disk, "sleep", FALSE).pending = Nothing
  <2> SUFFICES ASSUME disk # None, disk.pending = Nothing
               PROVE  /\ IsLedger(disk)
                      /\ IsLedger(Committed(disk, "sleep", FALSE))
                      /\ cmd.op \in Changing => Kept(disk)
                      /\ cmd.op = "uninstall" /\ cmd.ok => Kept(disk)
                      /\ cmd.op = "off" /\ cmd.ok =>
                            Kept(Committed(disk, "sleep", FALSE))
                      /\ cmd.op = "off" =>
                            Committed(disk, "sleep", FALSE).pending = Nothing
    OBVIOUS
  <2>1. IsLedger(disk) /\ IsLedger(Committed(disk, "sleep", FALSE))
    BY CommittedType, LifecycleAssumption DEF TypeOK, FilesOK, SystemValue
  <2>2. cmd.op \in Changing => Kept(disk)
    BY <1>2 DEF LedgerAccounts, Kept
  <2>3. cmd.op \in Undoing => cmd.st = None
    BY <1>1 DEF Commanded, Informed
  <2>4. cmd.op = "uninstall" /\ cmd.ok => Kept(disk)
    BY <2>3 DEF Ordered, UndoAccounts, Undoing, Kept
  <2>5. cmd.op = "off" /\ cmd.ok => Kept(Committed(disk, "sleep", FALSE))
    BY <1>1, <2>3, ReleasedAccounts DEF Ordered, UndoAccounts, Undoing
  <2>6. Committed(disk, "sleep", FALSE).pending = Nothing
    BY <2>1 DEF Committed, Nothing, IsLedger, Ledgers
  <2> QED
    BY <2>1, <2>2, <2>4, <2>5, <2>6
<1>10. cmd.op \in Ops
  BY <1>1 DEF CommandsOK, Commanded, InOrder
<1>11. CASE disk # None /\ disk.pending = Nothing /\ cmd.op = "install"
            /\ Checked([cmd EXCEPT !.st = disk])
  BY <1>4, <1>9, <1>11 DEF Changing
<1>12. CASE /\ disk # None /\ disk.pending = Nothing
            /\ \/ /\ cmd.op = "off"
                  /\ cmd' = [cmd EXCEPT !.step = "inspect", !.on = "wake",
                                !.st = Committed(disk, "sleep", FALSE)]
               \/ /\ cmd.op = "uninstall"
                  /\ cmd' = [cmd EXCEPT !.step = "inspect", !.on = "sleep",
                                !.st = disk]
  <2>1. CASE /\ cmd.op = "off"
             /\ cmd' = [cmd EXCEPT !.step = "inspect", !.on = "wake",
                           !.st = Committed(disk, "sleep", FALSE)]
    <3> DEFINE l == Committed(disk, "sleep", FALSE)
    <3>1. IsLedger(l) /\ l.pending = Nothing /\ (cmd.ok => Kept(l))
      BY <1>9, <1>12, <2>1
    <3> HIDE DEF l
    <3>2. cmd' = [cmd EXCEPT !.step = "inspect", !.on = "wake", !.st = l]
      BY <2>1 DEF l
    <3>3. /\ cmd'.op = cmd.op /\ cmd'.st = l /\ cmd'.step = "inspect"
          /\ cmd'.ok = cmd.ok
      BY <1>1, <3>2 DEF CommandsOK
    <3> QED
      BY <1>7, <2>1, <3>1, <3>3 DEF Undoing
  <2>2. CASE /\ cmd.op = "uninstall"
             /\ cmd' = [cmd EXCEPT !.step = "inspect", !.on = "sleep",
                           !.st = disk]
    <3>1. /\ cmd'.op = cmd.op /\ cmd'.st = disk /\ cmd'.step = "inspect"
          /\ cmd'.ok = cmd.ok
      BY <1>1, <2>2 DEF CommandsOK
    <3> QED
      BY <1>7, <1>9, <1>12, <2>2, <3>1 DEF Undoing
  <2> QED
    BY <1>12, <2>1, <2>2
<1>13. CASE /\ IF cmd.op = "uninstall" THEN Then("remove") ELSE Return
            /\ orderly' = (orderly /\ cmd.op # "off")
  BY <1>3, <1>8, <1>10, <1>13 DEF Ops, Then, Return, Changing
<1> QED
  BY <1>4, <1>5, <1>6, <1>11, <1>12, <1>13 DEF LoadLedger

\* The steps that save what the command has in memory.
LEMMA SaverOrdered ==
    ASSUME TypeOK, Commanded, Ordered, orderly, orderly', Record \/ CommitWake
    PROVE  AccountsWhenOrderly' /\ ChangeAccounts' /\ UndoAccounts'
<1>1. /\ UNCHANGED <<sys, drifted>>
      /\ disk' \in {disk, cmd.st}
      /\ cmd.op \in Changing
      /\ cmd.step \in {"record", "commit"}
  BY DEF Record, CommitWake, Saved, SaveFailed, machine, Commanded, InOrder,
         Changing
<1>2. Kept(cmd.st)
  BY <1>1 DEF Ordered, ChangeAccounts
<1>3. LedgerAccounts'
  BY <1>1, <1>2
  DEF Ordered, AccountsWhenOrderly, LedgerAccounts, Kept, Changing
<1>4. CASE cmd' = Idle
  BY <1>3, <1>4, ReturnAccounts
<1>5. CASE Forward
  <2>1. /\ cmd'.op = cmd.op /\ cmd'.st = cmd.st
        /\ \/ cmd.step = "record" /\ cmd'.step = "configure"
           \/ cmd'.step = "reload"
    BY <1>1, <1>5 DEF Forward
  <2>2. Kept(cmd.st)'
    BY <1>1, <1>2, <2>1 DEF Kept
  <2> QED
    BY <1>1, <1>3, <2>1, <2>2
    DEF Ordered, AccountsWhenOrderly, ChangeAccounts, UndoAccounts, Changing,
        Undoing
<1> QED
  BY <1>4, <1>5, PlainEffect DEF Plain

LEMMA SaveOffOrdered ==
    ASSUME TypeOK, Commanded, Ordered, orderly, orderly', SaveOff
    PROVE  AccountsWhenOrderly' /\ ChangeAccounts' /\ UndoAccounts'
<1>1. /\ UNCHANGED <<sys, drifted>>
      /\ cmd.op = "off" /\ cmd.step = "save"
      /\ IsLedger(cmd.st) /\ CommandsOK
  BY DEF SaveOff, machine, Commanded, InOrder, Informed
<1>2. \/ cmd' = [cmd EXCEPT !.step = "report"] /\ disk' = cmd.st
      \/ cmd' = [cmd EXCEPT !.step = "report", !.ok = FALSE]
  BY DEF SaveOff, Saved, Then, Despite
<1>3. /\ cmd'.op = "off" /\ cmd'.st = cmd.st /\ cmd'.step = "report"
      /\ cmd'.ok => cmd.ok /\ disk' = cmd.st
  BY <1>1, <1>2 DEF CommandsOK
<1>4. AccountsWhenOrderly' /\ ChangeAccounts'
  BY <1>3 DEF AccountsWhenOrderly, ChangeAccounts, Changing
<1>5. Kept(cmd.st) => Kept(cmd.st)'
  BY <1>1, <1>3 DEF Kept
<1>6. cmd.st # None
  BY <1>1, LedgerAssumption DEF IsLedger
<1>7. UndoAccounts'
  BY <1>1, <1>3, <1>5, <1>6 DEF Ordered, UndoAccounts, Undoing
<1> QED
  BY <1>4, <1>7

\* What a command announces is accounted for, whether or not it is written.
LEMMA AnnouncedKept ==
    ASSUME TypeOK, NEW l, IsLedger(l), l.pending = Nothing, Kept(l),
           NEW s \in Settings, NEW v
    PROVE  Kept(WithIntent(l, s, v)) /\ WithIntent(l, s, v).pending[s] = v
<1>1. l.pending[s] = None
  BY DEF Nothing
<1>2. ASSUME NEW t \in Settings \ drifted
      PROVE  Accounts(WithIntent(l, s, v), t, sys[t])
  <2>1. sys[t] \in SystemValue(t) /\ Accounts(l, t, sys[t])
    BY DEF TypeOK, MachineOK, Kept
  <2>2. CASE t = s
    BY <1>1, <2>1, <2>2, IntentAccounts
  <2>3. CASE t # s
    BY <2>1, <2>3, OtherAccounts
  <2> QED
    BY <2>2, <2>3
<1> QED
  BY <1>2, OwnPending DEF Kept

LEMMA AnnounceOrdered ==
    ASSUME TypeOK, Commanded, Ordered, orderly, orderly', Announce
    PROVE  AccountsWhenOrderly' /\ ChangeAccounts' /\ UndoAccounts'
<1> DEFINE v == WakeTarget(cmd)
           l == WithIntent(cmd.st, "wake", v)
<1>1. /\ UNCHANGED <<sys, drifted>>
      /\ cmd.step = "announce" /\ cmd.op \in Changing
      /\ IsLedger(cmd.st) /\ CommandsOK
      /\ cmd.st.pending = Nothing /\ Kept(cmd.st)
      /\ LedgerAccounts
  BY DEF Announce, machine, Commanded, InOrder, Informed, Ordered,
         ChangeAccounts, AccountsWhenOrderly, Changing
<1>2. Kept(l) /\ l.pending["wake"] = v
  <2>1. "wake" \in Settings
    BY LifecycleAssumption
  <2> QED
    BY <1>1, <2>1, AnnouncedKept
<1>3. \/ cmd' = [cmd EXCEPT !.step = "reload"] /\ disk' = disk
      \/ /\ cmd' = [cmd EXCEPT !.step = "wake", !.st = l, !.goal = v]
         /\ disk' = l
      \/ cmd' = Idle /\ disk' \in {disk, l}
  <2> DEFINE differs == Differs("wake", cmd.look["wake"], v)
             onward == [cmd EXCEPT !.step = "wake", !.st = l, !.goal = v]
  <2>1. IF ~differs
        THEN Then("reload") /\ Fine /\ UNCHANGED disk
        ELSE \/ Saved(l) /\ cmd' = onward /\ Fine
             \/ SaveFailed(l) /\ Return /\ Fault
    BY DEF Announce
  <2> HIDE DEF v, l, differs, onward
  <2>2. \/ cmd' = [cmd EXCEPT !.step = "reload"] /\ disk' = disk
        \/ cmd' = onward /\ disk' = l
        \/ cmd' = Idle /\ disk' \in {disk, l}
    BY <2>1, ZenonT(30) DEF Saved, SaveFailed, Return, Then
  <2> QED
    BY <2>2 DEF onward
<1> HIDE DEF v, l
<1>4. CASE cmd' = [cmd EXCEPT !.step = "reload"] /\ disk' = disk
  <2>1. cmd'.op = cmd.op /\ cmd'.step = "reload"
    BY <1>1, <1>4 DEF CommandsOK
  <2> QED
    BY <1>1, <1>4, <2>1
    DEF AccountsWhenOrderly, LedgerAccounts, ChangeAccounts, UndoAccounts,
        Changing, Undoing
<1>5. CASE /\ cmd' = [cmd EXCEPT !.step = "wake", !.st = l, !.goal = v]
           /\ disk' = l
  <2>1. /\ cmd'.op = cmd.op /\ cmd'.step = "wake"
        /\ cmd'.st = l /\ cmd'.goal = v
    BY <1>1, <1>5 DEF CommandsOK
  <2>2. LedgerAccounts' /\ Kept(cmd.st)'
    BY <1>1, <1>2, <1>5, <2>1 DEF LedgerAccounts, Kept
  <2> QED
    BY <1>1, <1>2, <1>5, <2>1, <2>2
    DEF AccountsWhenOrderly, ChangeAccounts, UndoAccounts, Changing, Undoing
<1>6. CASE cmd' = Idle /\ disk' \in {disk, l}
  <2>1. LedgerAccounts'
    BY <1>1, <1>2, <1>6 DEF LedgerAccounts, Kept
  <2> QED
    BY <1>6, <2>1, ReturnAccounts
<1> QED
  BY <1>3, <1>4, <1>5, <1>6

\* What is verified to be held looks like what was written.
LEMMA VerifiedLooks ==
    ASSUME NEW s \in Settings, NEW held \in SystemValue(s), NEW v,
           Verified(s, held, v)
    PROVE  Look(s, held) = Look(s, v)
BY ReadingLooks, SameLooks DEF Verified

\* A verified write is accounted for once it counts as the last one.
LEMMA WrittenKept ==
    ASSUME TypeOK, MachineOK', NEW l, IsLedger(l), Kept(l),
           NEW s \in Settings, NEW v \in SystemValue(s),
           SetEffect(s, v), Verified(s, sys'[s], v),
           NEW m, m.base = l.base, m.last = [l.last EXCEPT ![s] = v],
           \A t \in Settings \ {s} : m.pending[t] = l.pending[t]
    PROVE  \A t \in Settings \ drifted' : Accounts(m, t, sys'[t])
<1>1. l.last \in [Settings -> AnyValue \cup {None}]
  BY DEF IsLedger, Ledgers
<1>2. Accounts(m, s, sys'[s])
  <2>1. Look(s, sys'[s]) = Look(s, v) /\ v # None
    BY VerifiedLooks, SystemValueIsSome DEF MachineOK
  <2>2. m.last[s] = v
    BY <1>1
  <2> QED
    BY <2>1, <2>2 DEF Accounts, Expected
<1>3. ASSUME NEW t \in Settings \ drifted', t # s
      PROVE  Accounts(m, t, sys'[t])
  <2>1. t \notin drifted /\ sys'[t] = sys[t]
    BY <1>3 DEF SetEffect, TypeOK, MachineOK
  <2>2. m.last[t] = l.last[t] /\ m.pending[t] = l.pending[t]
    BY <1>1, <1>3
  <2> QED
    BY <2>1, <2>2 DEF Kept, Accounts, Expected
<1> QED
  BY <1>2, <1>3

LEMMA SetWakeOrdered ==
    ASSUME TypeOK, TypeOK', Commanded, Ordered, orderly, orderly', SetWake
    PROVE  AccountsWhenOrderly' /\ ChangeAccounts' /\ UndoAccounts'
<1> DEFINE l == Committed(cmd.st, "wake", cmd.goal)
<1>1. /\ UNCHANGED disk
      /\ cmd.step = "wake" /\ cmd.op \in Changing
      /\ IsLedger(cmd.st) /\ CommandsOK
      /\ Kept(cmd.st)
      /\ cmd.goal \in SystemValue("wake") /\ "wake" \in Settings
      /\ cmd.st.pending["wake"] = cmd.goal
      /\ disk = None \/ disk = cmd.st
  BY LifecycleAssumption
  DEF SetWake, files, Commanded, InOrder, Informed, Ordered, ChangeAccounts,
      Changing, SystemValue
<1>2. /\ SetEffect("wake", cmd.goal)
      /\ \/ cmd' = Idle
         \/ /\ cmd' = [cmd EXCEPT !.step = "commit", !.st = l]
            /\ Verified("wake", sys'["wake"], cmd.goal)
  BY ZenonT(30) DEF SetWake, Set, SetEffect, Return
<1>3. \A s \in Settings \ drifted' : Accounts(cmd.st, s, sys'[s])
  <2>1. CASE UNCHANGED <<sys, drifted>>
    BY <1>1, <2>1 DEF Kept
  <2>2. CASE /\ sys' = [sys EXCEPT !["wake"] = cmd.goal]
             /\ drifted' = drifted \ {"wake"}
    <3>1. sys'["wake"] = cmd.goal
      BY <1>1, <2>2 DEF TypeOK, MachineOK
    <3>2. \A s \in Settings \ drifted' : s # "wake" =>
             s \notin drifted /\ sys'[s] = sys[s]
      BY <2>2 DEF TypeOK, MachineOK
    <3> QED
      BY <1>1, <3>1, <3>2 DEF Kept, Accounts
  <2> QED
    BY <1>2, <2>1, <2>2 DEF SetEffect
<1>4. LedgerAccounts'
  BY <1>1, <1>3 DEF LedgerAccounts
<1>5. CASE cmd' = Idle
  BY <1>4, <1>5, ReturnAccounts
<1>6. CASE /\ cmd' = [cmd EXCEPT !.step = "commit", !.st = l]
           /\ Verified("wake", sys'["wake"], cmd.goal)
  <2>1. /\ l.base = cmd.st.base /\ l.last = [cmd.st.last EXCEPT !["wake"] = cmd.goal]
        /\ \A t \in Settings \ {"wake"} : l.pending[t] = cmd.st.pending[t]
    BY <1>1 DEF Committed, IsLedger, Ledgers
  <2> HIDE DEF l
  <2>2. cmd'.op = cmd.op /\ cmd'.step = "commit" /\ cmd'.st = l
    BY <1>1, <1>6 DEF CommandsOK
  <2>3. \A t \in Settings \ drifted' : Accounts(l, t, sys'[t])
    BY <1>1, <1>2, <1>6, <2>1, WrittenKept DEF TypeOK
  <2>4. Kept(cmd.st)'
    BY <2>2, <2>3 DEF Kept
  <2> QED
    BY <1>1, <1>4, <2>2, <2>4
    DEF AccountsWhenOrderly, ChangeAccounts, UndoAccounts, Changing, Undoing
<1> QED
  BY <1>2, <1>5, <1>6

LEMMA ForceSleepOrdered ==
    ASSUME TypeOK, TypeOK', Commanded, Ordered, orderly, orderly', ForceSleep
    PROVE  AccountsWhenOrderly' /\ ChangeAccounts' /\ UndoAccounts'
<1>1. /\ UNCHANGED disk
      /\ cmd.step = "force" /\ cmd.op = "off" /\ cmd.st = None
      /\ CommandsOK
  BY DEF ForceSleep, files, Commanded, InOrder, Informed, Undoing
<1>2. /\ SetEffect("sleep", FALSE)
      /\ \/ /\ cmd' = [cmd EXCEPT !.step = "bootout"]
            /\ Verified("sleep", sys'["sleep"], FALSE)
         \/ cmd' = [cmd EXCEPT !.step = "bootout", !.ok = FALSE]
  BY ZenonT(30) DEF ForceSleep, Set, SetEffect, Then, Despite
<1>3. /\ cmd'.op = "off" /\ cmd'.step = "bootout" /\ cmd'.st = None
      /\ cmd'.ok => cmd.ok /\ Verified("sleep", sys'["sleep"], FALSE)
  BY <1>1, <1>2 DEF CommandsOK
<1>4. AccountsWhenOrderly' /\ ChangeAccounts'
  BY <1>3 DEF AccountsWhenOrderly, ChangeAccounts, Changing
<1>5. cmd'.ok => ~sys'["sleep"]
  BY <1>3 DEF Verified, Reading, Same
<1>6. "wake" \notin drifted' => "wake" \notin drifted /\ sys'["wake"] = sys["wake"]
  BY <1>2, LifecycleAssumption DEF SetEffect, TypeOK, MachineOK
<1>7. UndoAccounts'
  <2>1. ASSUME cmd.ok, disk # None, "wake" \in Settings \ drifted'
        PROVE  Accounts(disk, "wake", sys'["wake"])
    BY <1>1, <1>6, <2>1 DEF Ordered, UndoAccounts, Undoing
  <2> QED
    BY <1>1, <1>3, <1>5, <2>1 DEF UndoAccounts, Undoing
<1> QED
  BY <1>4, <1>7

\* An undoing command goes on with a ledger that accounts for the settings.
LEMMA OnwardOrdered ==
    ASSUME CommandsOK, HistoryOK', orderly, orderly', Ordered,
           cmd.op \in Undoing, cmd.on \in Settings,
           cmd.step \in {"inspect", "restore"},
           NEW l, IsLedger(l), NEW ok \in BOOLEAN,
           cmd' = Onward([cmd EXCEPT !.st = l, !.ok = ok]),
           ok => /\ cmd.ok
                 /\ l.pending = Nothing
                 /\ \A s \in Settings \ drifted' : Accounts(l, s, sys'[s])
                 /\ cmd.op = "off" /\ "sleep" \notin drifted' =>
                       "sleep" \notin drifted /\ sys'["sleep"] = sys["sleep"]
    PROVE  AccountsWhenOrderly' /\ ChangeAccounts' /\ UndoAccounts'
<1>1. /\ cmd'.op = cmd.op /\ cmd'.st = l /\ cmd'.ok = ok
      /\ cmd'.step \in {"save", "inspect", "remove"}
  BY OnwardType
<1>2. AccountsWhenOrderly' /\ ChangeAccounts'
  BY <1>1 DEF AccountsWhenOrderly, ChangeAccounts, Changing, Undoing
<1>3. l # None
  BY LedgerAssumption DEF IsLedger
<1>4. ok => Kept(cmd.st)'
  BY <1>1 DEF Kept
<1>5. ok /\ cmd.op = "off" /\ "sleep" \notin drifted' => ~sys'["sleep"]
  BY DEF Ordered, UndoAccounts
<1>6. UndoAccounts'
  BY <1>1, <1>3, <1>4, <1>5 DEF UndoAccounts
<1> QED
  BY <1>2, <1>6

\* What an undoing command knows while it works on a setting.
LEMMA UndoingKnows ==
    ASSUME Commanded, Ordered, orderly, cmd.step \in {"inspect", "restore"}
    PROVE  /\ CommandsOK
           /\ cmd.op \in Undoing /\ cmd.on \in Settings
           /\ IsLedger(cmd.st)
           /\ cmd.ok \in BOOLEAN
           /\ cmd.ok => cmd.st.pending = Nothing /\ Kept(cmd.st)
           /\ cmd.op = "off" => cmd.on = "wake"
           /\ cmd.step = "restore" => cmd.goal \in SystemValue(cmd.on)
BY DEF Commanded, CommandsOK, InOrder, Informed, Ordered, UndoAccounts

LEMMA InspectOrdered ==
    ASSUME TypeOK, Commanded, Ordered, orderly, orderly', Inspect
    PROVE  AccountsWhenOrderly' /\ ChangeAccounts' /\ UndoAccounts'
<1>1. /\ UNCHANGED <<sys, disk, drifted>>
      /\ cmd.step = "inspect"
      /\ HistoryOK'
  BY DEF Inspect, machine, files, Commanded, CommandsOK, HistoryOK
<1>2. /\ CommandsOK
      /\ cmd.op \in Undoing /\ cmd.on \in Settings
      /\ IsLedger(cmd.st)
      /\ cmd.ok \in BOOLEAN
      /\ cmd.ok => cmd.st.pending = Nothing /\ Kept(cmd.st)
  BY <1>1, UndoingKnows
<1>3. ASSUME NEW ok \in BOOLEAN, ok => cmd.ok,
             cmd' = Onward([cmd EXCEPT !.st = cmd.st, !.ok = ok])
      PROVE  AccountsWhenOrderly' /\ ChangeAccounts' /\ UndoAccounts'
  <2>1. cmd.ok => \A s \in Settings \ drifted' : Accounts(cmd.st, s, sys'[s])
    BY <1>1, <1>2 DEF Kept
  <2> QED
    BY <1>1, <1>2, <1>3, <2>1, OnwardOrdered
<1>4. CASE cmd' = [cmd EXCEPT !.step = "restore",
                              !.goal = Restored(cmd.on, cmd.st.base[cmd.on])]
  <2>1. /\ cmd'.op = cmd.op /\ cmd'.st = cmd.st /\ cmd'.step = "restore"
        /\ cmd'.ok = cmd.ok
    BY <1>2, <1>4 DEF CommandsOK
  <2>2. AccountsWhenOrderly' /\ ChangeAccounts'
    BY <1>2, <2>1 DEF AccountsWhenOrderly, ChangeAccounts, Changing, Undoing
  <2>3. cmd.ok => Kept(cmd.st)'
    BY <1>1, <1>2, <2>1 DEF Kept
  <2>4. cmd.st # None
    BY <1>2, LedgerAssumption DEF IsLedger
  <2>5. UndoAccounts'
    BY <1>1, <1>2, <2>1, <2>3, <2>4 DEF Ordered, UndoAccounts
  <2> QED
    BY <2>2, <2>5
<1> QED
  BY <1>2, <1>3, <1>4, InspectEffect

LEMMA RestoreOrdered ==
    ASSUME TypeOK, TypeOK', Commanded, Ordered, orderly, orderly', Restore
    PROVE  AccountsWhenOrderly' /\ ChangeAccounts' /\ UndoAccounts'
<1> DEFINE l == [cmd.st EXCEPT !.last[cmd.on] = cmd.goal]
<1>1. cmd.step = "restore" /\ HistoryOK'
  BY DEF Restore, Commanded, CommandsOK, HistoryOK
<1>2. /\ CommandsOK
      /\ cmd.op \in Undoing /\ cmd.on \in Settings
      /\ IsLedger(cmd.st)
      /\ cmd.ok \in BOOLEAN
      /\ cmd.ok => cmd.st.pending = Nothing /\ Kept(cmd.st)
      /\ cmd.op = "off" => cmd.on = "wake"
      /\ cmd.goal \in SystemValue(cmd.on)
  BY <1>1, UndoingKnows
<1>3. /\ SetEffect(cmd.on, cmd.goal)
      /\ \/ /\ cmd' = Onward([cmd EXCEPT !.st = l, !.ok = cmd.ok])
            /\ Verified(cmd.on, sys'[cmd.on], cmd.goal)
         \/ cmd' = Onward([cmd EXCEPT !.st = cmd.st, !.ok = FALSE])
  BY RestoreEffect DEF SetEffect
<1>4. CASE cmd' = Onward([cmd EXCEPT !.st = cmd.st, !.ok = FALSE])
  BY <1>1, <1>2, <1>4, OnwardOrdered
<1>5. CASE /\ cmd' = Onward([cmd EXCEPT !.st = l, !.ok = cmd.ok])
           /\ Verified(cmd.on, sys'[cmd.on], cmd.goal)
  <2>1. /\ l.base = cmd.st.base
        /\ l.last = [cmd.st.last EXCEPT ![cmd.on] = cmd.goal]
        /\ l.pending = cmd.st.pending
    BY <1>2 DEF IsLedger, Ledgers
  <2>2. IsLedger(l)
    BY <1>2, LastType
  <2> HIDE DEF l
  <2>3. cmd.ok => \A s \in Settings \ drifted' : Accounts(l, s, sys'[s])
    BY <1>2, <1>3, <1>5, <2>1, WrittenKept DEF TypeOK
  <2>4. cmd.op = "off" /\ "sleep" \notin drifted' =>
           "sleep" \notin drifted /\ sys'["sleep"] = sys["sleep"]
    BY <1>2, <1>3, LifecycleAssumption DEF SetEffect, TypeOK, MachineOK
  <2>5. cmd.ok => l.pending = Nothing
    BY <1>2, <2>1
  <2> QED
    BY <1>1, <1>2, <1>5, <2>2, <2>3, <2>4, <2>5, OnwardOrdered
<1> QED
  BY <1>3, <1>4, <1>5

LEMMA RemoveOrdered ==
    ASSUME Remove, orderly'
    PROVE  AccountsWhenOrderly' /\ ChangeAccounts' /\ UndoAccounts'
<1>1. disk' = None /\ cmd' = Idle
  BY DEF Remove, Return
<1>2. LedgerAccounts'
  BY <1>1 DEF LedgerAccounts
<1> QED
  BY <1>1, <1>2, ReturnAccounts

LEMMA CommandOrdered ==
    ASSUME TypeOK, TypeOK', Control, Commanded, Ordered,
           CommandStep \/ Abort \/ \E op \in Ops : Begin(op)
    PROVE  Ordered'
<1>1. CASE ~orderly'
  BY <1>1
  DEF Ordered, Alone, AccountsWhenOrderly, RunsAccount, ChangeAccounts,
      UndoAccounts
<1>2. CASE orderly'
  <2>1. orderly /\ Alone' /\ RunsAccount'
    BY <1>2, CommandAlone
  <2>2. CASE CommandStep \/ Abort
    <3>1. AccountsWhenOrderly' /\ ChangeAccounts' /\ UndoAccounts'
      BY <1>2, <2>1, <2>2, SteadyOrdered, LookAroundOrdered, LoadLedgerOrdered,
         SaverOrdered, SaveOffOrdered, AnnounceOrdered, SetWakeOrdered,
         ForceSleepOrdered, InspectOrdered, RestoreOrdered, RemoveOrdered
      DEF CommandStep
    <3> QED
      BY <2>1, <3>1 DEF Ordered
  <2>3. CASE \E op \in Ops : Begin(op)
    BY <1>2, <2>1, <2>3, BeginOrdered DEF Ordered
  <2> QED
    BY <2>2, <2>3
<1> QED
  BY <1>1, <1>2

LEMMA LifecycleStepOrdered ==
    TypeOK /\ Control /\ Commanded /\ Ordered /\ [LifecycleNext]_allVars
       => Ordered'
<1> SUFFICES ASSUME TypeOK, Control, Commanded, Ordered, [LifecycleNext]_allVars
             PROVE  Ordered'
  OBVIOUS
<1>1. TypeOK'
  BY LifecycleStepType
<1>2. CASE CommandStep \/ Abort \/ \E op \in Ops : Begin(op)
  BY <1>1, <1>2, CommandOrdered
<1>3. CASE Moves
  BY <1>3, MovesOrdered
<1> QED
  BY <1>2, <1>3 DEF LifecycleNext, Moves

\* Everything a behaviour keeps true.
LifecycleInv == TypeOK /\ Control /\ Commanded /\ Ordered

LEMMA LifecycleAlwaysInv == LifecycleSpec => []LifecycleInv
<1>1. LifecycleInit => LifecycleInv
  BY InitControl, InitCommanded, InitOrdered DEF LifecycleInit, LifecycleInv
<1>2. LifecycleInv /\ [LifecycleNext]_allVars => LifecycleInv'
  BY LifecycleStepType, LifecycleStepOrdered DEF LifecycleInv
<1> QED
  BY <1>1, <1>2, PTL DEF LifecycleSpec

\* The ledger accounts for the settings across every command and every run, as
\* long as no run shares the ledger with a command that changes it: install's
\* and apply's writes are announced before they happen, emergency-off and
\* uninstall leave a ledger that accounts for what they did, or none.
THEOREM LedgerAccountsAcrossCommands == LifecycleSpec => []AccountsWhenOrderly
<1>1. LifecycleInv => AccountsWhenOrderly
  BY DEF LifecycleInv, Ordered
<1> QED
  BY <1>1, LifecycleAlwaysInv, PTL

-----------------------------------------------------------------------------
\* The inductive invariant behind UninstallRestores and EmergencyReleases: what
\* an undoing command that has met no error has done so far.

\* It has dealt with a setting.
Dealt(s) ==
    \/ cmd.op = "off" /\ s = "wake" /\ cmd.step \in {"save", "report"}
    \/ cmd.op = "uninstall" /\ cmd.step = "remove"
    \/ /\ cmd.op = "uninstall" /\ cmd.step \in {"inspect", "restore"}
       /\ s = "sleep" /\ cmd.on = "wake"

\* The daemon is unloaded, the reservations are cancelled, and the settings it
\* has dealt with are given back.
UndoDone ==
    orderly /\ cmd.op \in Undoing /\ cmd.ok =>
       /\ cmd.step \in {"cancel", "load", "inspect", "restore", "save", "report",
                        "remove"} => ~loaded
       /\ cmd.step \in {"load", "inspect", "restore", "save", "report", "remove"}
             => events = {}
       /\ cmd.step = "restore" => cmd.goal = Restored(cmd.on, cmd.st.base[cmd.on])
       /\ cmd.st # None => \A s \in Settings : Dealt(s) => GivenBack(s)

\* A setting that is left alone looks as it should become, unless its schedule
\* cannot be told from another.
LEMMA LeftAlone ==
    ASSUME TypeOK, IsLedger(cmd.st), cmd.st.pending = Nothing, Kept(cmd.st),
           NEW s \in Settings,
           \/ cmd.st.last[s] = None
           \/ \E o \in Reading(s, sys[s]) : ~TakenBack(s, cmd.st, o)
    PROVE  GivenBack(s)
<1> SUFFICES ASSUME s \notin drifted PROVE GivenBack(s)
  BY DEF GivenBack
<1>1. /\ sys[s] \in SystemValue(s) /\ sys[s] # None
      /\ cmd.st.last[s] \in SystemValue(s) \cup {None}
  BY SystemValueIsSome DEF TypeOK, MachineOK, IsLedger
<1>2. Look(s, sys[s]) = Look(s, Expected(cmd.st, s))
  BY <1>1 DEF Kept, Accounts, Nothing
<1>3. CASE cmd.st.last[s] = None
  BY <1>2, <1>3 DEF Expected, GivenBack
<1>4. ASSUME cmd.st.last[s] # None, NEW o \in Reading(s, sys[s]),
             ~TakenBack(s, cmd.st, o)
      PROVE  GivenBack(s)
  <2> DEFINE last == cmd.st.last[s]
  <2>1. Look(s, o) = Look(s, sys[s]) /\ Look(s, sys[s]) = Look(s, last)
    BY <1>1, <1>2, <1>4, ReadingLooks DEF Expected
  <2>2. CASE Same(s, o, Restored(s, cmd.st.base[s]))
    BY <2>1, <2>2, SameLooks DEF GivenBack
  <2>3. CASE ~Same(s, o, last)
    <3>1. s = "wake"
      BY <2>1, <2>3, LifecycleAssumption DEF Same, Look
    <3>2. /\ sys[s] \in Exact /\ last \in Exact
          /\ o \in Exact /\ o # last
      BY <1>1, <1>4, <2>1, <2>3, <3>1
      DEF SystemValue, Same, Look, Equal, IsExact
    <3>3. o = sys[s]
      BY <1>4, <3>1, <3>2, ScheduleAssumption DEF Reading, Current, Label
    <3>4. last \in Exact \ {sys[s]} /\ Label(last) = Label(sys[s])
      BY <2>1, <3>1, <3>2, <3>3 DEF Look
    <3> QED
      BY <3>1, <3>4 DEF GivenBack, Ambiguous
  <2> QED
    BY <1>4, <2>2, <2>3 DEF TakenBack
<1> QED
  BY <1>3, <1>4

LEMMA BystanderDone ==
    ASSUME UndoDone, orderly, Bystander, UNCHANGED <<loaded, cmd>>
    PROVE  UndoDone'
<1> SUFFICES ASSUME cmd'.op \in Undoing, cmd'.ok PROVE UndoDone'
  BY DEF UndoDone
<1>1. ASSUME NEW s \in Settings, GivenBack(s) PROVE GivenBack(s)'
  BY <1>1 DEF GivenBack, Ambiguous, Bystander
<1>2. ASSUME NEW s \in Settings, Dealt(s)' PROVE Dealt(s)
  BY <1>2 DEF Dealt
<1>3. cmd'.st # None => \A s \in Settings : Dealt(s)' => GivenBack(s)'
  BY <1>1, <1>2 DEF UndoDone
<1>4. events' \subseteq events
  BY DEF Bystander
<1> QED
  BY <1>3, <1>4 DEF UndoDone

LEMMA MovesDone ==
    ASSUME TypeOK, Control, Commanded, Ordered, UndoDone, Moves
    PROVE  UndoDone'
<1>1. /\ UNCHANGED <<loaded, installed, cmd, commands>>
      /\ orderly' => orderly
  BY RunMoves DEF Moves
<1>2. CASE ~orderly'
  BY <1>2 DEF UndoDone
<1>3. CASE orderly' /\ Handed
  BY <1>1, <1>3 DEF Handed, Commanded, InOrder, UndoDone, Undoing
<1>4. CASE orderly' /\ ~Handed
  <2>1. orderly /\ lock = None
    BY <1>1, <1>4 DEF Ordered, Alone
  <2> QED
    BY <1>1, <1>4, <2>1, MovesAlone, BystanderDone
<1> QED
  BY <1>2, <1>3, <1>4

\* The steps before the ledger is looked at, and those after the settings have
\* been dealt with.
LEMMA PlainDone ==
    ASSUME Commanded, UndoDone, orderly, orderly', Plain
    PROVE  UndoDone'
<1>1. CASE cmd' = Idle
  BY <1>1 DEF Idle, UndoDone, Undoing
<1>2. CASE Forward /\ cmd.op \in Undoing
  <2>1. \/ ForceSleep /\ cmd.step = "force"
        \/ Bootout /\ cmd.step = "bootout"
        \/ CancelEvents /\ cmd.step = "cancel"
        \/ SaveOff /\ cmd.step = "save" /\ cmd.op = "off"
    <3>1. cmd' # Idle
      BY <1>2 DEF Forward, Idle
    <3> QED
      BY <1>2, <3>1
      DEF Plain, Record, Configure, CommitWake, Reload, Bootout, Bootstrap,
          ForceSleep, CancelEvents, SaveOff, ReportStatus, Remove, Abort, Return,
          Commanded, InOrder, Changing, Undoing
  <2>2. CASE ForceSleep /\ cmd.step = "force"
    <3>1. cmd'.step = "bootout" /\ cmd'.st = None
      BY <1>2, <2>2 DEF Forward, Commanded, Informed
    <3> QED
      BY <3>1 DEF UndoDone
  <2>3. CASE Bootout /\ cmd.step = "bootout"
    <3>1. /\ cmd'.step = "cancel" /\ cmd'.st = None
          /\ cmd'.ok => loaded' = FALSE
      <4>1. cmd'.step = "cancel" /\ cmd'.st = None
        BY <1>2, <2>3 DEF Forward, Commanded, Informed, Changing, Undoing
      <4>2. \/ loaded' = FALSE
            \/ cmd' = [cmd EXCEPT !.step = "cancel", !.ok = FALSE]
        BY <1>2, <2>3 DEF Bootout, Despite, Undoing
      <4>3. CommandsOK
        BY DEF Commanded
      <4> QED
        BY <4>1, <4>2, <4>3 DEF CommandsOK
    <3> QED
      BY <3>1 DEF UndoDone
  <2>4. CASE CancelEvents /\ cmd.step = "cancel"
    <3>1. cmd'.step = "load" /\ cmd'.st = None
      BY <1>2, <2>4 DEF Forward, Commanded, Informed
    <3>2. cmd'.ok => events' = {}
      <4>1. \/ events' = {}
            \/ cmd' = [cmd EXCEPT !.step = "load", !.ok = FALSE]
        BY <2>4 DEF CancelEvents, Despite
      <4>2. CommandsOK
        BY DEF Commanded
      <4> QED
        BY <4>1, <4>2 DEF CommandsOK
    <3>3. cmd'.ok => ~loaded'
      BY <1>2, <2>4 DEF Forward, CancelEvents, UndoDone
    <3> QED
      BY <3>1, <3>2, <3>3 DEF UndoDone
  <2>5. CASE SaveOff /\ cmd.step = "save" /\ cmd.op = "off"
    <3>1. /\ UNCHANGED <<sys, events, drifted, loaded>>
          /\ cmd'.op = "off" /\ cmd'.step = "report" /\ cmd'.st = cmd.st
          /\ cmd'.ok => cmd.ok
      BY <1>2, <2>5 DEF Forward, SaveOff, machine
    <3>2. ASSUME NEW s \in Settings, GivenBack(s) PROVE GivenBack(s)'
      BY <3>1, <3>2 DEF GivenBack, Ambiguous
    <3>3. ASSUME NEW s \in Settings, Dealt(s)' PROVE Dealt(s)
      BY <2>5, <3>1, <3>3 DEF Dealt
    <3> QED
      BY <1>2, <2>5, <3>1, <3>2, <3>3 DEF UndoDone
  <2> QED
    BY <2>1, <2>2, <2>3, <2>4, <2>5
<1>3. CASE Forward /\ cmd.op \notin Undoing
  BY <1>3 DEF Forward, UndoDone
<1> QED
  BY <1>1, <1>2, <1>3, PlainEffect

\* The steps of install and apply, and a command's first, have nothing to show.
LEMMA ChangingDone ==
    ASSUME TypeOK, Commanded, Ordered, orderly, orderly',
           LookAround \/ Announce \/ SetWake
    PROVE  UndoDone'
<1>1. CommandsOK /\ cmd.op \in Changing
  BY DEF Commanded, InOrder, LookAround, Announce, SetWake
<1>2. ASSUME cmd'.op \in {cmd.op, "none"} PROVE UndoDone'
  BY <1>1, <1>2 DEF UndoDone, Changing, Undoing
<1>3. CASE cmd' = Idle
  BY <1>2, <1>3 DEF Idle
<1>4. CASE Announce /\ cmd' # Idle
  <2> DEFINE v == WakeTarget(cmd)
             l == WithIntent(cmd.st, "wake", v)
  <2>1. \/ cmd' = [cmd EXCEPT !.step = "reload"]
        \/ cmd' = [cmd EXCEPT !.step = "wake", !.st = l, !.goal = v]
    BY <1>4, ZenonT(30) DEF Announce, Then, Return
  <2> HIDE DEF v, l
  <2>2. cmd'.op = cmd.op
    BY <1>1, <2>1 DEF CommandsOK
  <2> QED
    BY <1>2, <2>2
<1>5. CASE SetWake /\ cmd' # Idle
  <2> DEFINE l == Committed(cmd.st, "wake", cmd.goal)
  <2>1. cmd' = [cmd EXCEPT !.step = "commit", !.st = l]
    BY <1>5, ZenonT(30) DEF SetWake, Set, Return
  <2> HIDE DEF l
  <2>2. cmd'.op = cmd.op
    BY <1>1, <2>1 DEF CommandsOK
  <2> QED
    BY <1>2, <2>2
<1>6. CASE LookAround /\ cmd' # Idle
  <2>1. PICK o \in [Settings -> AnyValue] :
           IF cmd.op = "install"
           THEN cmd' = [cmd EXCEPT !.step = "load", !.look = o]
           ELSE Checked([cmd EXCEPT !.look = o])
    BY <1>6 DEF LookAround, Return
  <2>2. CASE cmd.op = "install"
    <3>1. cmd' = [cmd EXCEPT !.step = "load", !.look = o]
      BY <2>1, <2>2
    <3>2. cmd'.op = cmd.op
      BY <1>1, <3>1 DEF CommandsOK
    <3> QED
      BY <1>2, <3>2
  <2>3. CASE cmd.op # "install"
    <3> DEFINE c == [cmd EXCEPT !.look = o]
               x == IF c.op = "install" THEN "record" ELSE "configure"
    <3>1. cmd' = [c EXCEPT !.step = x]
      BY <1>6, <2>1, <2>3, ZenonT(30) DEF Checked
    <3>2. /\ c.op = cmd.op
          /\ c \in [op : Ops \cup {"none"}, step : CommandSteps,
                    new : Configs \cup {Invalid}, replace : BOOLEAN,
                    st : {cmd.st}, look : {Nothing} \cup [Settings -> AnyValue],
                    on : Settings \cup {"none"},
                    goal : BOOLEAN \cup Exact \cup {None}, ok : BOOLEAN]
      BY <1>1 DEF CommandsOK
    <3> HIDE DEF c, x
    <3>3. cmd'.op = cmd.op
      BY <3>1, <3>2
    <3> QED
      BY <1>2, <3>3
  <2> QED
    BY <2>2, <2>3
<1> QED
  BY <1>3, <1>4, <1>5, <1>6

LEMMA BeginDone ==
    ASSUME NEW op \in Ops, Begin(op)
    PROVE  UndoDone'
<1>1. PICK c \in Configs, replace \in BOOLEAN :
         cmd' = [Idle EXCEPT
                    !.op = op,
                    !.step = [install |-> "look", apply |-> "load",
                              off |-> "force", uninstall |-> "bootout"][op],
                    !.new = IF op \in {"install", "apply"} THEN c ELSE Invalid,
                    !.replace = replace]
  BY DEF Begin
<1>2. /\ cmd'.st = None
      /\ cmd'.step \in {"look", "load", "force", "bootout"}
      /\ cmd'.op \in Undoing => cmd'.step \in {"force", "bootout"}
  BY <1>1 DEF Idle, Ops, Undoing
<1> QED
  BY <1>2 DEF UndoDone

LEMMA LoadLedgerDone ==
    ASSUME TypeOK, Commanded, Ordered, UndoDone, orderly, orderly', LoadLedger
    PROVE  UndoDone'
<1>1. /\ UNCHANGED <<events, loaded>>
      /\ cmd.step = "load"
      /\ CommandsOK /\ HistoryOK'
  BY DEF LoadLedger, machine, Commanded, CommandsOK, HistoryOK
<1>2. ASSUME cmd'.op \notin Undoing PROVE UndoDone'
  BY <1>2 DEF UndoDone
<1>3. CASE cmd' = Idle
  BY <1>2, <1>3 DEF Idle, Undoing
<1>4. ASSUME cmd.op \in Undoing, cmd'.op = cmd.op, cmd'.ok = cmd.ok,
             \/ cmd'.step = "inspect" /\ (cmd'.op = "uninstall" => cmd'.on = "sleep")
             \/ cmd'.step = "remove" /\ cmd'.st = None
      PROVE  UndoDone'
  <2>1. cmd.ok => ~loaded /\ events = {}
    BY <1>1, <1>4 DEF UndoDone
  <2>2. cmd'.st # None => \A s \in Settings : ~Dealt(s)'
    BY <1>4 DEF Dealt
  <2> QED
    BY <1>1, <1>4, <2>1, <2>2 DEF UndoDone
<1>5. CASE cmd.op \in Changing
  <2>1. ASSUME NEW l, cmd' = [cmd EXCEPT !.step = "look", !.st = l]
        PROVE  UndoDone'
    <3>1. cmd'.op = cmd.op
      BY <1>1, <2>1 DEF CommandsOK
    <3> QED
      BY <1>2, <1>5, <3>1 DEF Changing, Undoing
  <2>2. ASSUME NEW l, cmd.op = "install", Checked([cmd EXCEPT !.st = l]),
               cmd' # Idle
        PROVE  UndoDone'
    <3> DEFINE c == [cmd EXCEPT !.st = l]
               x == IF c.op = "install" THEN "record" ELSE "configure"
    <3>1. cmd' = [c EXCEPT !.step = x]
      BY <2>2, ZenonT(30) DEF Checked
    <3>2. /\ c.op = cmd.op
          /\ c \in [op : Ops \cup {"none"}, step : CommandSteps,
                    new : Configs \cup {Invalid}, replace : BOOLEAN,
                    st : {l}, look : {Nothing} \cup [Settings -> AnyValue],
                    on : Settings \cup {"none"},
                    goal : BOOLEAN \cup Exact \cup {None}, ok : BOOLEAN]
      BY <1>1 DEF CommandsOK
    <3> HIDE DEF c, x
    <3>3. cmd'.op = cmd.op
      BY <3>1, <3>2
    <3> QED
      BY <1>2, <1>5, <3>3 DEF Changing, Undoing
  <2> QED
    BY <1>3, <1>5, <2>1, <2>2 DEF LoadLedger, Changing, Then, Return
<1>6. CASE cmd.op \in Undoing /\ cmd' # Idle
  <2>1. cmd.st = None
    BY <1>1, <1>6 DEF Commanded, Informed
  <2>2. CASE /\ cmd.op = "off"
             /\ cmd' = [cmd EXCEPT !.step = "inspect", !.on = "wake",
                           !.st = Committed(disk, "sleep", FALSE)]
    <3> DEFINE l == Committed(disk, "sleep", FALSE)
    <3>1. cmd' = [cmd EXCEPT !.step = "inspect", !.on = "wake", !.st = l]
      BY <2>2
    <3> HIDE DEF l
    <3>2. cmd'.op = cmd.op /\ cmd'.step = "inspect" /\ cmd'.ok = cmd.ok
      BY <1>1, <3>1 DEF CommandsOK
    <3> QED
      BY <1>4, <1>6, <2>2, <3>2
  <2>3. CASE /\ cmd.op = "uninstall"
             /\ cmd' = [cmd EXCEPT !.step = "inspect", !.on = "sleep",
                           !.st = disk]
    <3>1. /\ cmd'.op = cmd.op /\ cmd'.step = "inspect" /\ cmd'.ok = cmd.ok
          /\ cmd'.on = "sleep"
      BY <1>1, <2>3 DEF CommandsOK
    <3> QED
      BY <1>4, <1>6, <3>1
  <2>4. CASE cmd' = [cmd EXCEPT !.step = "remove"]
    <3>1. /\ cmd'.op = cmd.op /\ cmd'.step = "remove" /\ cmd'.ok = cmd.ok
          /\ cmd'.st = None
      BY <1>1, <2>1, <2>4 DEF CommandsOK
    <3> QED
      BY <1>4, <1>6, <3>1
  <2> QED
    BY <1>6, <2>2, <2>3, <2>4 DEF LoadLedger, Undoing, Then, Return
<1>7. cmd.op \in Changing \cup Undoing
  BY <1>1 DEF CommandsOK, Commanded, InOrder, Ops, Changing, Undoing
<1> QED
  BY <1>3, <1>5, <1>6, <1>7

\* An undoing command is done with a setting and goes on to the next.
LEMMA OnwardDone ==
    ASSUME CommandsOK, HistoryOK', orderly, UndoDone,
           UNCHANGED <<events, loaded>>,
           cmd.op \in Undoing, cmd.on \in Settings,
           cmd.op = "off" => cmd.on = "wake",
           cmd.step \in {"inspect", "restore"}, cmd.st # None,
           NEW l, IsLedger(l), l.base = cmd.st.base, NEW ok \in BOOLEAN,
           cmd' = Onward([cmd EXCEPT !.st = l, !.ok = ok]),
           ok => /\ cmd.ok
                 /\ \A s \in Settings : s = cmd.on => GivenBack(s)'
                 /\ cmd.on = "wake" =>
                       sys'["sleep"] = sys["sleep"] /\ drifted \ {"wake"} \subseteq drifted'
    PROVE  UndoDone'
<1>1. /\ cmd'.op = cmd.op /\ cmd'.st = l /\ cmd'.ok = ok
      /\ \/ cmd.op = "off" /\ cmd'.step = "save"
         \/ /\ cmd.op = "uninstall" /\ cmd.on = "sleep"
            /\ cmd'.step = "inspect" /\ cmd'.on = "wake"
         \/ cmd.op = "uninstall" /\ cmd.on = "wake" /\ cmd'.step = "remove"
  BY OnwardType
<1>2. ASSUME ok, NEW s \in Settings, Dealt(s)' PROVE GivenBack(s)'
  <2>1. CASE s = cmd.on
    BY <1>2, <2>1
  <2>2. CASE s # cmd.on
    <3>1. cmd.op = "uninstall" /\ cmd.on = "wake" /\ s = "sleep"
      BY <1>1, <1>2, <2>2, LifecycleAssumption DEF Dealt
    <3>2. GivenBack(s)
      BY <1>2, <3>1 DEF UndoDone, Dealt
    <3>3. sys'[s] = sys[s] /\ (s \in drifted => s \in drifted')
      BY <1>2, <3>1
    <3>4. cmd'.st.base = cmd.st.base
      BY <1>1
    <3> QED
      BY <3>1, <3>2, <3>3, <3>4 DEF GivenBack, Ambiguous
  <2> QED
    BY <2>1, <2>2
<1>3. cmd.ok => ~loaded /\ events = {}
  BY DEF UndoDone
<1> QED
  BY <1>1, <1>2, <1>3 DEF UndoDone

LEMMA InspectDone ==
    ASSUME TypeOK, Commanded, Ordered, UndoDone, orderly, orderly', Inspect
    PROVE  UndoDone'
<1>1. /\ UNCHANGED <<sys, disk, drifted, events, loaded>>
      /\ cmd.step = "inspect"
      /\ HistoryOK'
  BY DEF Inspect, machine, files, Commanded, CommandsOK, HistoryOK
<1>2. /\ CommandsOK
      /\ cmd.op \in Undoing /\ cmd.on \in Settings
      /\ IsLedger(cmd.st) /\ cmd.st # None
      /\ cmd.ok \in BOOLEAN
      /\ cmd.ok => cmd.st.pending = Nothing /\ Kept(cmd.st)
      /\ cmd.op = "off" => cmd.on = "wake"
  BY <1>1, UndoingKnows, LedgerAssumption DEF IsLedger
<1>3. CASE /\ cmd' = Onward([cmd EXCEPT !.st = cmd.st, !.ok = cmd.ok])
           /\ \/ cmd.st.last[cmd.on] = None
              \/ \E o \in Reading(cmd.on, sys[cmd.on]) :
                    ~TakenBack(cmd.on, cmd.st, o)
  <2>1. cmd.ok => GivenBack(cmd.on)
    BY <1>2, <1>3, LeftAlone
  <2>2. cmd'.st = cmd.st
    BY <1>1, <1>2, <1>3, OnwardType
  <2>3. ASSUME NEW s \in Settings, GivenBack(s) PROVE GivenBack(s)'
    BY <1>1, <2>2, <2>3 DEF GivenBack, Ambiguous
  <2> QED
    BY <1>1, <1>2, <1>3, <2>1, <2>3, OnwardDone
<1>4. CASE cmd' = Onward([cmd EXCEPT !.st = cmd.st, !.ok = FALSE])
  BY <1>1, <1>2, <1>4, OnwardDone
<1>5. CASE cmd' = [cmd EXCEPT !.step = "restore",
                              !.goal = Restored(cmd.on, cmd.st.base[cmd.on])]
  <2> DEFINE v == Restored(cmd.on, cmd.st.base[cmd.on])
  <2>1. /\ cmd'.op = cmd.op /\ cmd'.st = cmd.st /\ cmd'.step = "restore"
        /\ cmd'.ok = cmd.ok /\ cmd'.on = cmd.on
        /\ cmd'.goal = v
    <3> HIDE DEF v
    <3>1. cmd' = [cmd EXCEPT !.step = "restore", !.goal = v]
      BY <1>5 DEF v
    <3> QED
      BY <1>2, <3>1 DEF CommandsOK
  <2>2. cmd'.goal = Restored(cmd'.on, cmd'.st.base[cmd'.on])
    BY <2>1
  <2>3. ASSUME NEW s \in Settings, Dealt(s)' PROVE Dealt(s)
    BY <1>1, <2>1, <2>3 DEF Dealt
  <2>4. ASSUME NEW s \in Settings, GivenBack(s) PROVE GivenBack(s)'
    BY <1>1, <2>1, <2>4 DEF GivenBack, Ambiguous
  <2> HIDE DEF v
  <2> QED
    BY <1>1, <1>2, <2>1, <2>2, <2>3, <2>4 DEF UndoDone
<1> QED
  BY <1>2, <1>3, <1>4, <1>5, InspectEffect

LEMMA RestoreDone ==
    ASSUME TypeOK, TypeOK', Commanded, Ordered, UndoDone, orderly, orderly',
           Restore
    PROVE  UndoDone'
<1> DEFINE l == [cmd.st EXCEPT !.last[cmd.on] = cmd.goal]
<1>1. /\ cmd.step = "restore" /\ HistoryOK'
      /\ UNCHANGED <<events, loaded>>
  BY DEF Restore, Commanded, CommandsOK, HistoryOK
<1>2. /\ CommandsOK
      /\ cmd.op \in Undoing /\ cmd.on \in Settings
      /\ IsLedger(cmd.st) /\ cmd.st # None
      /\ cmd.ok \in BOOLEAN
      /\ cmd.op = "off" => cmd.on = "wake"
      /\ cmd.goal \in SystemValue(cmd.on)
  BY <1>1, UndoingKnows, LedgerAssumption DEF IsLedger
<1>3. /\ SetEffect(cmd.on, cmd.goal)
      /\ \/ /\ cmd' = Onward([cmd EXCEPT !.st = l, !.ok = cmd.ok])
            /\ Verified(cmd.on, sys'[cmd.on], cmd.goal)
         \/ cmd' = Onward([cmd EXCEPT !.st = cmd.st, !.ok = FALSE])
  BY RestoreEffect DEF SetEffect
<1>4. CASE cmd' = Onward([cmd EXCEPT !.st = cmd.st, !.ok = FALSE])
  BY <1>1, <1>2, <1>4, OnwardDone
<1>5. CASE /\ cmd' = Onward([cmd EXCEPT !.st = l, !.ok = cmd.ok])
           /\ Verified(cmd.on, sys'[cmd.on], cmd.goal)
  <2>1. l.base = cmd.st.base /\ IsLedger(l)
    BY <1>2, LastType DEF IsLedger, Ledgers
  <2> HIDE DEF l
  <2>2. cmd'.st = l
    BY <1>1, <1>2, <1>5, <2>1, OnwardType
  <2>3. cmd.ok => Look(cmd.on, sys'[cmd.on])
                     = Look(cmd.on, Restored(cmd.on, cmd'.st.base[cmd.on]))
    <3>1. Look(cmd.on, sys'[cmd.on]) = Look(cmd.on, cmd.goal)
      BY <1>2, <1>5, VerifiedLooks DEF TypeOK, MachineOK
    <3>2. cmd.ok => cmd.goal = Restored(cmd.on, cmd.st.base[cmd.on])
      BY <1>1, <1>2 DEF UndoDone
    <3> QED
      BY <2>1, <2>2, <3>1, <3>2
  <2>4. cmd.ok => \A s \in Settings : s = cmd.on => GivenBack(s)'
    BY <2>3 DEF GivenBack
  <2>5. cmd.on = "wake" =>
           sys'["sleep"] = sys["sleep"] /\ drifted \ {"wake"} \subseteq drifted'
    BY <1>2, <1>3, LifecycleAssumption DEF SetEffect, TypeOK, MachineOK
  <2> QED
    BY <1>1, <1>2, <1>5, <2>1, <2>4, <2>5, OnwardDone
<1> QED
  BY <1>3, <1>4, <1>5

LEMMA CommandDone ==
    ASSUME TypeOK, TypeOK', Control, Commanded, Ordered, UndoDone,
           CommandStep \/ Abort \/ \E op \in Ops : Begin(op)
    PROVE  UndoDone'
<1>1. CASE ~orderly'
  BY <1>1 DEF UndoDone
<1>2. CASE orderly'
  <2>1. orderly
    BY <1>2, CommandAlone
  <2> QED
    BY <1>2, <2>1, PlainDone, ChangingDone, BeginDone, LoadLedgerDone,
       InspectDone, RestoreDone
    DEF CommandStep, Plain
<1> QED
  BY <1>1, <1>2

LEMMA LifecycleStepDone ==
    ASSUME LifecycleInv, UndoDone, [LifecycleNext]_allVars
    PROVE  UndoDone'
<1>1. TypeOK'
  BY LifecycleStepType DEF LifecycleInv
<1>2. CASE CommandStep \/ Abort \/ \E op \in Ops : Begin(op)
  BY <1>1, <1>2, CommandDone DEF LifecycleInv
<1>3. CASE Moves
  BY <1>3, MovesDone DEF LifecycleInv
<1> QED
  BY <1>2, <1>3 DEF LifecycleNext, Moves

LEMMA AlwaysDone == LifecycleSpec => []UndoDone
<1>1. LifecycleInit => UndoDone
  BY DEF LifecycleInit, Idle, UndoDone, Undoing
<1>2. UndoDone /\ LifecycleInv /\ [LifecycleNext]_allVars => UndoDone'
  BY LifecycleStepDone
<1> QED
  BY <1>1, <1>2, LifecycleAlwaysInv, PTL DEF LifecycleSpec

\* Which step a command that succeeds returns from.
LEMMA SucceedingStep ==
    ASSUME LifecycleInv, [LifecycleNext]_allVars, NEW op \in Undoing, Succeeds(op)
    PROVE  \/ op = "uninstall" /\ cmd.step = "remove"
           \/ op = "off" /\ cmd.step = "report"
           \/ op = "off" /\ cmd.step = "load"
<1>1. /\ cmd.op \in Undoing /\ cmd.step # "idle"
      /\ cmd'.op = "none" /\ faults' = faults
      /\ CommandsOK
  BY DEF Succeeds, LifecycleInv, Commanded, InOrder, Undoing
<1>2. ~Fault
  BY <1>1 DEF Fault, LifecycleInv, TypeOK, BudgetsOK
<1>3. ~Moves
  BY <1>1, RunMoves DEF Moves, Undoing
<1>4. ~Abort /\ ~ \E o \in Ops : Begin(o)
  BY <1>1, <1>2 DEF Abort, Begin
<1>5. CommandStep
  BY <1>3, <1>4 DEF LifecycleNext, Moves
<1>6. ASSUME NEW x \in CommandSteps,
             \/ cmd' = [cmd EXCEPT !.step = x]
             \/ cmd' = [cmd EXCEPT !.step = x, !.ok = FALSE]
      PROVE  FALSE
  BY <1>1, <1>6 DEF CommandsOK, Undoing
<1>7. cmd.step \notin {"look", "record", "configure", "announce", "wake",
                       "commit", "reload", "bootstrap"}
  BY <1>1 DEF LifecycleInv, Commanded, InOrder, Changing, Undoing
<1>8. CASE ForceSleep \/ Bootout \/ CancelEvents \/ SaveOff
  <2>1. \E x \in {"bootout", "cancel", "load", "report"} :
           \/ cmd' = [cmd EXCEPT !.step = x]
           \/ cmd' = [cmd EXCEPT !.step = x, !.ok = FALSE]
    BY <1>1, <1>8, ZenonT(30)
    DEF ForceSleep, Set, Bootout, CancelEvents, SaveOff, Then, Despite, Undoing
  <2> QED
    BY <1>6, <2>1 DEF CommandSteps
<1>9. CASE Inspect \/ Restore
  <2>1. /\ Commanded'
        /\ cmd.step \in {"inspect", "restore"}
        /\ HistoryOK'
        /\ IsLedger(cmd.st) /\ cmd.on \in Settings
    BY <1>9, InspectType, RestoreType
    DEF LifecycleInv, Inspect, Restore, Commanded, CommandsOK, HistoryOK,
        Informed
  <2>2. ASSUME NEW l, IsLedger(l), NEW ok \in BOOLEAN,
               cmd' = Onward([cmd EXCEPT !.st = l, !.ok = ok])
        PROVE  FALSE
    BY <1>1, <2>1, <2>2, OnwardType DEF Undoing
  <2>3. CASE Inspect
    <3>1. cmd' # [cmd EXCEPT !.step = "restore",
                             !.goal = Restored(cmd.on, cmd.st.base[cmd.on])]
      BY <1>1 DEF CommandsOK, Undoing
    <3>2. cmd.ok \in BOOLEAN
      BY <1>1 DEF CommandsOK
    <3> QED
      BY <2>1, <2>2, <2>3, <3>1, <3>2, InspectEffect DEF LifecycleInv
  <2>4. CASE Restore
    <3>1. cmd.ok \in BOOLEAN /\ cmd.goal \in SystemValue(cmd.on)
      BY <1>1, <2>4 DEF CommandsOK, Restore, LifecycleInv, Commanded, Informed
    <3>2. IsLedger([cmd.st EXCEPT !.last[cmd.on] = cmd.goal])
      BY <2>1, <3>1, LastType
    <3> QED
      BY <2>1, <2>2, <2>4, <3>1, <3>2, RestoreEffect DEF LifecycleInv
  <2> QED
    BY <1>9, <2>3, <2>4
<1>10. CASE LoadLedger
  <2>1. cmd.op = "off" \/ cmd.op = "uninstall"
    BY <1>1 DEF Undoing
  <2>2. cmd.op = "uninstall" => FALSE
    <3> SUFFICES ASSUME cmd.op = "uninstall" PROVE FALSE
      OBVIOUS
    <3>1. \/ cmd' = [cmd EXCEPT !.step = "inspect", !.on = "sleep", !.st = disk]
          \/ cmd' = [cmd EXCEPT !.step = "remove"]
      BY <1>10 DEF LoadLedger, Then
    <3> QED
      BY <1>1, <3>1 DEF CommandsOK
  <2> QED
    BY <1>1, <1>10, <2>1, <2>2 DEF Succeeds, LoadLedger
<1>11. CASE ReportStatus \/ Remove
  BY <1>1, <1>11
  DEF Succeeds, ReportStatus, Remove, LifecycleInv, Commanded, InOrder, Undoing
<1> QED
  BY <1>5, <1>7, <1>8, <1>9, <1>10, <1>11
  DEF CommandStep, LookAround, Record, Configure, Announce, SetWake, CommitWake,
      Reload, Bootstrap

\* An undoing command that has had the ledger to itself runs alone.
LEMMA UndoingAlone ==
    ASSUME LifecycleInv, orderly, cmd.op \in Undoing
    PROVE  pc[Daemon] = "idle"
<1>1. ~Handed
  BY DEF Handed, LifecycleInv, Commanded, InOrder, Undoing
<1> QED
  BY <1>1, Unlocked, ReconcileAssumption DEF LifecycleInv, Ordered, Alone

LEMMA UninstallStep ==
    ASSUME LifecycleInv, UndoDone, [LifecycleNext]_allVars, orderly
    PROVE  Uninstalled
<1> SUFFICES ASSUME Succeeds("uninstall")
             PROVE  /\ Silenced
                    /\ cmd.st # None => \A s \in Settings : GivenBack(s)
  BY DEF Uninstalled, Unledgered
<1>1. /\ cmd.op = "uninstall" /\ cmd.ok /\ cmd.step = "remove"
      /\ cmd.op \in Undoing
  BY SucceedingStep DEF Succeeds, Undoing
<1>2. /\ ~loaded /\ events = {}
      /\ cmd.st # None => \A s \in Settings : GivenBack(s)
  BY <1>1 DEF UndoDone, Dealt
<1> QED
  BY <1>1, <1>2, UndoingAlone DEF Silenced

LEMMA EmergencyStep ==
    ASSUME LifecycleInv, UndoDone, [LifecycleNext]_allVars, orderly
    PROVE  Released
<1> SUFFICES ASSUME Succeeds("off")
             PROVE  /\ "sleep" \notin drifted => ~sys["sleep"]
                    /\ Silenced
                    /\ cmd.st # None => GivenBack("wake")
  BY DEF Released, Unledgered
<1>1. /\ cmd.op = "off" /\ cmd.ok /\ cmd.step \in {"report", "load"}
      /\ cmd.op \in Undoing
  BY SucceedingStep DEF Succeeds, Undoing
<1>2. "sleep" \notin drifted => ~sys["sleep"]
  BY <1>1 DEF LifecycleInv, Ordered, UndoAccounts
<1>3. ~loaded /\ events = {}
  BY <1>1 DEF UndoDone
<1>4. cmd.st # None => cmd.step = "report"
  BY <1>1 DEF LifecycleInv, Commanded, Informed
<1>5. cmd.st # None => GivenBack("wake")
  BY <1>1, <1>4, LifecycleAssumption DEF UndoDone, Dealt
<1> QED
  BY <1>1, <1>2, <1>3, <1>5, UndoingAlone DEF Silenced

\* After an uninstall that has had the ledger to itself and reports no error the
\* daemon is out of the way and its reservations are cancelled; and if it found
\* a ledger it could use, each setting looks as it did before installation.
THEOREM UninstallAlwaysGivesBack == LifecycleSpec => UninstallRestores
<1>1. LifecycleInv /\ UndoDone /\ [LifecycleNext]_allVars
         => [orderly => Uninstalled]_allVars
  BY UninstallStep
<1> QED
  BY <1>1, LifecycleAlwaysInv, AlwaysDone, PTL
  DEF LifecycleSpec, UninstallRestores

\* The same of emergency-off, which forces sleep to be allowed and gives the wake
\* schedule back.
THEOREM EmergencyAlwaysLetsGo == LifecycleSpec => EmergencyReleases
<1>1. LifecycleInv /\ UndoDone /\ [LifecycleNext]_allVars
         => [orderly => Released]_allVars
  BY EmergencyStep
<1> QED
  BY <1>1, LifecycleAlwaysInv, AlwaysDone, PTL
  DEF LifecycleSpec, EmergencyReleases

-----------------------------------------------------------------------------
\* Doctor.  What a run will say of sleep: when it knew the power source and what
\* it read of a flag never written is no conflict, it has read the baseline.
Deciding == {"intent", "write", "commit", "events", "save", "status"}

SaysBaseline(r) ==
    /\ pc[r] \in Deciding
    /\ rep[r].source
    /\ "sleep" \notin rep[r].drift
    /\ mem[r].last["sleep"] = None
    /\ obs[r]["sleep"] # None
    => obs[r]["sleep"] = mem[r].base["sleep"]

RunsSayBaseline == \A r \in Runners : SaysBaseline(r)

\* The same of the status of a run that has compared sleep with a baseline.
StatusSaysBaseline ==
    witnessed # None =>
       /\ status # None
       /\ \/ "sleep" \in status.drift
          \/ status.observed["sleep"] = witnessed

\* While one run is under way the others have nothing to say.
LEMMA OtherSays ==
    ASSUME TypeOK, Control, NEW r \in Runners, pc[r] # "idle",
           \A q \in Runners \ {r} : pc'[q] = pc[q],
           SaysBaseline(r)'
    PROVE  RunsSayBaseline'
BY DEF Control, Working, TypeOK, InputsOK, RunsSayBaseline, SaysBaseline, Deciding

LEMMA EndedSays ==
    ASSUME TypeOK, Control, NEW r \in Runners, pc[r] # "idle", Ended(r)
    PROVE  RunsSayBaseline'
BY EndedType DEF RunsSayBaseline, SaysBaseline, Deciding

\* A run has nothing else to say after a step that leaves alone what it knows of
\* sleep, whether or not the step has failed.
LEMMA KeptSays ==
    ASSUME TypeOK, RunsSayBaseline, NEW r \in Runners, pc[r] \in Deciding,
           \/ rep' = rep
           \/ rep' = [rep EXCEPT ![r] = Failed(rep[r])]
           \/ rep' = [rep EXCEPT ![r] = [rep[r] EXCEPT !.dirty = TRUE]],
           mem'[r].last["sleep"] = mem[r].last["sleep"],
           mem'[r].base["sleep"] = mem[r].base["sleep"],
           obs'[r]["sleep"] = obs[r]["sleep"]
    PROVE  SaysBaseline(r)'
<1>1. rep[r] \in Report /\ rep \in [Runners -> Report]
  BY DEF TypeOK, PlansOK
<1>2. rep'[r] \in {rep[r], Failed(rep[r]), [rep[r] EXCEPT !.dirty = TRUE]}
  BY <1>1
<1>3. rep'[r].source = rep[r].source /\ rep'[r].drift = rep[r].drift
  BY <1>1, <1>2 DEF Report, Failed
<1> QED
  BY <1>3 DEF RunsSayBaseline, SaysBaseline

LEMMA DecisionSays ==
    ASSUME TypeOK, Control, NEW r \in Runners, Evaluate(r)
    PROVE  RunsSayBaseline'
<1> USE DEF TypeOK
<1>1. PICK acKnown \in BOOLEAN, prevent \in BOOLEAN :
         Conclude(r, acKnown, prevent)
  BY DEF Evaluate, Prevent
<1>2. pc[r] = "evaluate"
  BY DEF Evaluate
<1>3. CASE Ended(r)
  BY <1>2, <1>3, EndedSays
<1>4. CASE ~Ended(r)
  <2> DEFINE write == ToWrite(r, acKnown, prevent)
             drift == {s \in Known(r, acKnown) : Drift(s, mem[r], obs[r][s])}
             draft == [rep[r] EXCEPT !.requested = acKnown /\ prevent,
                                     !.source = acKnown, !.drift = drift]
  <2>1. /\ rep' = [rep EXCEPT ![r] =
                      IF Erred(r, acKnown, prevent) THEN Failed(draft)
                      ELSE draft]
        /\ Goto(r, AfterSettings(r, write))
        /\ UNCHANGED <<mem, obs>>
    BY <1>1, <1>4 DEF Conclude
  <2>2. /\ draft.drift = drift /\ Failed(draft).drift = drift
        /\ draft.source = acKnown /\ Failed(draft).source = acKnown
    BY DEF PlansOK, Report, Failed
  <2> HIDE DEF draft, write, drift
  <2>3. \A q \in Runners \ {r} : pc'[q] = pc[q]
    BY <2>1 DEF Goto, InputsOK
  <2>4. rep'[r].drift = drift /\ rep'[r].source = acKnown
    BY <2>1, <2>2 DEF PlansOK
  <2>5. acKnown /\ obs[r]["sleep"] # None => "sleep" \in Known(r, acKnown)
    BY LifecycleAssumption DEF Known, Applied
  <2>6. acKnown /\ obs[r]["sleep"] # None /\ "sleep" \notin drift
           => obs[r]["sleep"] = Expected(mem[r], "sleep")
    BY <2>5 DEF drift, Drift
  <2>7. SaysBaseline(r)'
    BY <2>1, <2>4, <2>6 DEF SaysBaseline, Expected
  <2> QED
    BY <1>2, <2>3, <2>7, OtherSays
<1> QED
  BY <1>3, <1>4

\* A write that has succeeded leaves a last one, and the other setting alone.
LEMMA WrittenSays ==
    ASSUME TypeOK, Control, NEW r \in Runners, Write(r),
           RunsSayBaseline
    PROVE  RunsSayBaseline'
<1> USE DEF TypeOK
<1> DEFINE s == First(todo[r])
           v == goal[r][s]
<1>1. /\ s \in Settings /\ v \in SystemValue(s) /\ v # None
      /\ IsLedger(mem[r])
  BY FirstIsIn, SystemValueIsSome
  DEF Write, Control, Working, PlansOK, MemoryOK
<1>2. pc[r] = "write" /\ \A q \in Runners \ {r} : pc'[q] = pc[q]
  BY DEF Write, Finished, Goto, InputsOK
<1>3. CASE rep' = [rep EXCEPT ![r] = Failed(rep[r])] /\ UNCHANGED <<mem, obs>>
  BY <1>2, <1>3, KeptSays, OtherSays DEF Deciding
<1> HIDE DEF v
<1>4. CASE /\ mem' = [mem EXCEPT ![r] = Committed(mem[r], s, v)]
           /\ obs' = [obs EXCEPT ![r][s] = v]
           /\ Goto(r, "commit")
           /\ UNCHANGED rep
  <2> HIDE DEF s
  <2>1. /\ mem'[r] = Committed(mem[r], s, v)
        /\ \A t \in Settings \ {s} : obs'[r][t] = obs[r][t]
    BY <1>1, <1>4 DEF MemoryOK, PlansOK
  <2>2. /\ mem'[r].base = mem[r].base
        /\ mem'[r].last = [mem[r].last EXCEPT ![s] = v]
    BY <1>1, <2>1 DEF Committed, IsLedger, Ledgers
  <2>3. SaysBaseline(r)'
    <3>1. CASE s = "sleep"
      BY <1>1, <2>2, <3>1 DEF SaysBaseline, IsLedger, Ledgers
    <3>2. CASE s # "sleep"
      <4>1. /\ mem'[r].last["sleep"] = mem[r].last["sleep"]
            /\ obs'[r]["sleep"] = obs[r]["sleep"]
        BY <1>1, <2>1, <2>2, <3>2, LifecycleAssumption DEF IsLedger, Ledgers
      <4> QED
        BY <1>2, <1>4, <2>2, <4>1, KeptSays DEF Deciding
    <3> QED
      BY <3>1, <3>2
  <2> QED
    BY <1>2, <2>3, OtherSays
<1> QED
  BY <1>3, <1>4 DEF Write, s, v

LEMMA StepSays ==
    ASSUME TypeOK, Control, RunsSayBaseline, [Next]_vars
    PROVE  RunsSayBaseline'
<1> USE DEF machine, files, inputs, plans, budgets, TypeOK
<1>1. ASSUME NEW r \in Runners, NEW d \in BOOLEAN, Start(r, d)
      PROVE  RunsSayBaseline'
  BY <1>1 DEF Start, Goto, InputsOK, RunsSayBaseline, SaysBaseline, Deciding
<1>2. ASSUME NEW r \in Runners, pc[r] # "idle",
             \E step \in {"config", "observe", "evaluate"} : Goto(r, step)
      PROVE  RunsSayBaseline'
  <2>1. /\ \A q \in Runners \ {r} : pc'[q] = pc[q]
        /\ pc'[r] \notin Deciding
    BY <1>2 DEF Goto, InputsOK, Deciding
  <2> QED
    BY <1>2, <2>1, OtherSays DEF SaysBaseline
<1>3. ASSUME NEW r \in Runners,
             \/ Load(r)
             \/ ReadConfig(r)
             \/ Observe(r)
             \/ WriteStatus(r)
             \/ Crash(r)
      PROVE  RunsSayBaseline'
  <2>1. pc[r] # "idle"
    BY <1>3 DEF Load, ReadConfig, Observe, WriteStatus, Crash
  <2>2. \/ Ended(r)
        \/ \E step \in {"config", "observe", "evaluate"} : Goto(r, step)
    BY <1>3 DEF Load, ReadConfig, Observe, WriteStatus, Crash
  <2> QED
    BY <1>2, <2>1, <2>2, EndedSays
<1>4. ASSUME NEW r \in Runners, Intent(r) PROVE RunsSayBaseline'
  <2> DEFINE s == First(todo[r])
  <2>1. s \in Settings /\ IsLedger(mem[r])
    BY <1>4, FirstIsIn DEF Intent, Control, Working, PlansOK, MemoryOK
  <2> HIDE DEF s
  <2>2. /\ pc[r] = "intent"
        /\ \A q \in Runners \ {r} : pc'[q] = pc[q]
        /\ UNCHANGED obs
    BY <1>4 DEF Intent, Finished, Goto, InputsOK
  <2>3. /\ rep' \in {rep, [rep EXCEPT ![r] = Failed(rep[r])]}
        /\ \/ mem' = [mem EXCEPT ![r] = WithIntent(mem[r], s, goal[r][s])]
           \/ mem' = [mem EXCEPT ![r] = WithoutIntent(mem[r], s)]
    BY <1>4 DEF Intent, s
  <2>4. mem'[r].base = mem[r].base /\ mem'[r].last = mem[r].last
    BY <2>1, <2>3 DEF MemoryOK, WithIntent, WithoutIntent, IsLedger, Ledgers
  <2>5. SaysBaseline(r)'
    BY <2>2, <2>3, <2>4, KeptSays DEF Deciding
  <2> QED
    BY <2>2, <2>5, OtherSays
<1>5. ASSUME NEW r \in Runners, Commit(r) \/ Events(r) \/ Save(r)
      PROVE  RunsSayBaseline'
  <2>1. /\ pc[r] \in {"commit", "events", "save"}
        /\ \A q \in Runners \ {r} : pc'[q] = pc[q]
        /\ UNCHANGED <<mem, obs>>
    BY <1>5 DEF Commit, Finished, Events, Arrange, Save, Goto, InputsOK
  <2>2. \/ rep' = rep
        \/ rep' = [rep EXCEPT ![r] = Failed(rep[r])]
        \/ rep' = [rep EXCEPT ![r] = [rep[r] EXCEPT !.dirty = TRUE]]
    BY <1>5 DEF Commit, Events, Arrange, Save
  <2>3. SaysBaseline(r)'
    BY <2>1, <2>2, KeptSays DEF Deciding
  <2> QED
    BY <2>1, <2>3, OtherSays
<1>6. CASE \/ \E s \in Settings : DriftAway(s)
           \/ LoseLedger \/ ChangeWorld \/ ChangeConfig \/ UNCHANGED vars
  BY <1>6
  DEF DriftAway, LoseLedger, ChangeWorld, ChangeConfig, vars, RunsSayBaseline,
      SaysBaseline
<1> QED
  BY <1>1, <1>3, <1>4, <1>5, <1>6, DecisionSays, WrittenSays
  DEF Next, Step, Environment

LEMMA LifecycleStepSays ==
    ASSUME TypeOK, Control, RunsSayBaseline, [LifecycleNext]_allVars
    PROVE  RunsSayBaseline'
<1>1. CASE CommandStep \/ Abort \/ \E op \in Ops : Begin(op)
  <2>1. UNCHANGED processes \/ DaemonKilled
    BY <1>1, CommandProcesses
  <2>2. CASE UNCHANGED processes
    BY <2>2 DEF processes, plans, RunsSayBaseline, SaysBaseline
  <2>3. CASE pc[Daemon] # "idle" /\ Ended(Daemon)
    BY <2>3, EndedSays, ReconcileAssumption
  <2> QED
    BY <2>1, <2>2, <2>3 DEF DaemonKilled
<1>2. CASE \/ \E r \in Runners, d \in BOOLEAN : StartRun(r, d)
           \/ (\E r \in Runners : Step(r)) /\ UNCHANGED lifecycle
           \/ Environment /\ UNCHANGED lifecycle
           \/ UNCHANGED allVars
  BY <1>2, RunMoves, StepSays
<1> QED
  BY <1>1, <1>2 DEF LifecycleNext

\* What a run has said holds until the status is replaced.
LEMMA PublishedSays ==
    ASSUME TypeOK, RunsSayBaseline, StatusSaysBaseline, [DoctorNext]_doctorVars
    PROVE  StatusSaysBaseline'
<1>1. ASSUME NEW r \in Runners, Published(r), witnessed' = Witness(r)
      PROVE  StatusSaysBaseline'
  <2> SUFFICES ASSUME Witness(r) # None
               PROVE  /\ status' # None
                      /\ \/ "sleep" \in status'.drift
                         \/ status'.observed["sleep"] = Witness(r)
    BY <1>1 DEF StatusSaysBaseline
  <2>1. pc[r] = "status" /\ status' = StatusOf(r)
    BY <1>1 DEF Published, WriteStatus
  <2>2. status'.drift = rep[r].drift /\ status'.observed = obs[r]
    BY <2>1 DEF StatusOf
  <2>3. "sleep" \in rep[r].drift \/ obs[r]["sleep"] = Witness(r)
    BY <2>1 DEF Witness, RunsSayBaseline, SaysBaseline, Deciding
  <2>4. StatusOf(r) # None
    BY StatusOfType, StatusAssumption DEF TypeOK
  <2> QED
    BY <2>1, <2>2, <2>3, <2>4
<1>2. CASE witnessed' = IF status' = status THEN witnessed ELSE None
  BY <1>2 DEF StatusSaysBaseline
<1>3. CASE UNCHANGED doctorVars
  BY <1>3 DEF doctorVars, allVars, vars, files, StatusSaysBaseline
<1> QED
  BY <1>1, <1>2, <1>3 DEF DoctorNext

\* A conflict about a value that is resolved against the ledger is a difference
\* from the last write, or of a flag that was never written from its baseline.
LEMMA ReportedOf ==
    ASSUME IsLedger(disk), NEW s \in Settings, NEW o, WillReport(s, o)
    PROVE  \/ disk.last[s] # None /\ ~Same(s, o, disk.last[s])
           \/ s = "sleep" /\ disk.last[s] = None /\ o # disk.base[s]
<1> DEFINE l == ResolvePending(disk, s, o)
<1>1. CASE disk.pending[s] # None /\ Same(s, o, disk.pending[s])
  <2>1. l.last[s] = disk.pending[s]
    BY <1>1 DEF ResolvePending, Committed, IsLedger, Ledgers
  <2> QED
    BY <1>1, <2>1 DEF WillReport, Drift, Expected, Same
<1>2. CASE ~(disk.pending[s] # None /\ Same(s, o, disk.pending[s]))
  <2>1. l.last = disk.last /\ l.base = disk.base
    BY <1>2 DEF ResolvePending, WithoutIntent, IsLedger, Ledgers
  <2> HIDE DEF l
  <2>2. Drift(s, l, o)
    BY DEF WillReport, l
  <2> QED
    BY <2>1, <2>2 DEF Drift, Expected, Same
<1> QED
  BY <1>1, <1>2

\* A flag that was never written differs from its baseline, which is what the
\* run that published the status has found or reported a conflict about.
LEMMA UnwrittenReported ==
    ASSUME IsLedger(disk), StatusSaysBaseline, ~Unwitnessed("sleep"),
           disk.last["sleep"] = None, NEW o, o # disk.base["sleep"]
    PROVE  ConflictLine("sleep") \/ ReadingBad("sleep", o)
<1>1. disk.base["sleep"] # None
  BY LifecycleAssumption, SettingsAssumption DEF IsLedger, Observation
<1>2. witnessed = disk.base["sleep"]
  BY DEF Unwitnessed
<1> QED
  BY <1>1, <1>2 DEF StatusSaysBaseline, ConflictLine, ReadingBad

\* Whatever failed, was killed or changed before, while schlaflos is installed
\* doctor has a line about every setting that the next run will report as a
\* conflict, except for a disablesleep that is Unwitnessed (doctor.go, the
\* conflicts of the last run, the readings and the ownership).
THEOREM DriftAlwaysForetold == DoctorSpec => []DriftForetold
<1> DEFINE Sayings == RunsSayBaseline /\ StatusSaysBaseline
<1>1. DoctorInit => LifecycleInit /\ Sayings
  BY DEF DoctorInit, LifecycleInit, Init, RunsSayBaseline, SaysBaseline,
         Deciding, StatusSaysBaseline
<1>2. [DoctorNext]_doctorVars => [LifecycleNext]_allVars
  BY DEF DoctorNext, doctorVars
<1>3. LifecycleInv /\ Sayings /\ [DoctorNext]_doctorVars => Sayings'
  BY <1>2, LifecycleStepSays, PublishedSays DEF LifecycleInv
<1>4. LifecycleInv /\ Sayings => DriftForetold
  <2> SUFFICES ASSUME LifecycleInv, Sayings, installed, disk # None,
                      NEW s \in Settings, NEW o \in Reading(s, sys[s]),
                      WillReport(s, o), ~Unwitnessed(s)
               PROVE  Reports(s, o)
    BY DEF DriftForetold
  <2>1. IsLedger(disk)
    BY DEF LifecycleInv, TypeOK, FilesOK
  <2>2. CASE disk.last[s] # None /\ ~Same(s, o, disk.last[s])
    BY <2>2 DEF Reports, OwnershipBad
  <2>3. CASE s = "sleep" /\ disk.last[s] = None /\ o # disk.base[s]
    BY <2>1, <2>3, UnwrittenReported DEF Reports
  <2> QED
    BY <2>1, <2>2, <2>3, ReportedOf
<1> HIDE DEF Sayings
<1>5. LifecycleSpec => []LifecycleInv
  BY LifecycleAlwaysInv
<1>6. DoctorSpec => LifecycleSpec
  BY <1>1, <1>2, PTL DEF DoctorSpec, LifecycleSpec
<1> QED
  BY <1>1, <1>3, <1>4, <1>5, <1>6, PTL DEF DoctorSpec
=============================================================================
