------------------------------ MODULE Lifecycle ------------------------------
(***************************************************************************)
(* The privileged lifecycle commands (package install) beside the          *)
(* reconciliations: install, config apply, emergency-off and uninstall.    *)
(* They work on the same ledger, configuration and settings, they start,   *)
(* stop and restart the daemon through launchd, and they do not take the   *)
(* reconciliation lock.                                                    *)
(*                                                                         *)
(* One command runs at a time, step by step like a reconciliation: a step  *)
(* is one call that leaves the process.  Most errors end a command; those  *)
(* of emergency-off and uninstall are collected and the command goes on.   *)
(* The plist, the binary and their directories are one variable: they      *)
(* are there as long as any of them may be.  The convenience link is left  *)
(* out.  Uninstall's removal of the lock file does not disturb a run that  *)
(* holds it, and the state directory is taken to stay, as it does when a   *)
(* killed save left a temporary file.                                      *)
(***************************************************************************)
EXTENDS Reconcile

CONSTANT MaxCommands    \* bound: lifecycle commands

ASSUME LifecycleAssumption ==
    /\ Settings = {"sleep", "wake"}
    /\ MaxCommands \in Nat

VARIABLES
    loaded,       \* the LaunchDaemon is loaded
    installed,    \* the files of an installation are there
    cmd,          \* the command under way
    orderly,      \* history: every command so far has had the ledger to itself
    commands      \* history: commands begun

lifecycle == <<loaded, installed, cmd, orderly, commands>>
processes == <<lock, pc, inputs, mem, plans>>
allVars   == <<vars, lifecycle>>

Ops == {"install", "apply", "off", "uninstall"}

CommandSteps == {"idle", "load", "look", "record", "configure", "announce",
                 "wake", "commit", "reload", "bootout", "bootstrap", "force",
                 "cancel", "inspect", "restore", "save", "report", "remove"}

\* No command is under way.
Idle == [op |-> "none", step |-> "idle", new |-> Invalid, replace |-> FALSE,
         st |-> None, look |-> Nothing, on |-> "none", goal |-> None,
         ok |-> TRUE]

Then(step) == cmd' = [cmd EXCEPT !.step = step]

\* An error of emergency-off or uninstall: remembered, and on to the next step.
Despite(step) == cmd' = [cmd EXCEPT !.step = step, !.ok = FALSE]

\* The command returns.
Return == cmd' = Idle

\* launchd kills the daemon's run, if there is one.
DaemonKilled ==
    IF pc[Daemon] = "idle" THEN UNCHANGED processes ELSE Ended(Daemon)

-----------------------------------------------------------------------------
\* Mutant of Restored: an unknown mask is written back as it was printed.
RestoredAsPrinted(s, v) == v

\* The schedule to restore: one whose days are unknown is cancelled instead.
Restored(s, v) == IF s = "wake" /\ ~IsExact(v) THEN NoSchedule ELSE v

\* checkWakeConflict
Conflict(c) ==
    /\ c.new.wake # None
    /\ ~IsEmpty(c.look["wake"])
    /\ ~Same("wake", c.look["wake"], c.new.wake)
    /\ ~Owned(c.st, "wake", c.look["wake"])
    /\ ~c.replace

\* The target of Installer.applyWake.
WakeTarget(c) ==
    IF c.new.wake # None THEN c.new.wake
    ELSE IF Owned(c.st, "wake", c.look["wake"])
         THEN Restored("wake", c.st.base["wake"])
         ELSE None

\* A write of value v and its verification, from a command.
Set(s, v, Verify, Refuse) ==
    \E effective, verified \in BOOLEAN :
       /\ IF effective
          THEN sys' = [sys EXCEPT ![s] = v] /\ drifted' = drifted \ {s}
          ELSE UNCHANGED <<sys, drifted>>
       /\ IF effective /\ verified THEN Fine ELSE Fault
       /\ IF verified THEN Verified(s, sys'[s], v) /\ Verify ELSE Refuse

-----------------------------------------------------------------------------
\* The operator enters a command with a valid configuration.
Begin(op) ==
    /\ cmd.step = "idle"
    /\ commands < MaxCommands
    /\ commands' = commands + 1
    /\ \E c \in Configs, replace \in BOOLEAN :
          /\ replace => op \in {"install", "apply"} /\ c.wake # None
          /\ cmd' = [Idle EXCEPT
                !.op = op,
                !.step = [install |-> "look", apply |-> "load", off |-> "force",
                          uninstall |-> "bootout"][op],
                !.new = IF op \in {"install", "apply"} THEN c ELSE Invalid,
                !.replace = replace]
    /\ orderly' = (orderly /\ lock = None)
    /\ UNCHANGED <<vars, loaded, installed>>

\* Both the ledger and the settings are known: refuse, or go on.
Checked(c) ==
    cmd' = IF Conflict(c) THEN Idle
           ELSE [c EXCEPT !.step = IF c.op = "install" THEN "record"
                                   ELSE "configure"]

\* Install reads both settings; Apply verifies that the binary is there and
\* reads the wake schedule.
LookAround ==
    /\ cmd.step = "look"
    /\ \/ \E o \in [Settings -> AnyValue] :
             /\ \A s \in Settings : o[s] \in Reading(s, sys[s])
             /\ \/ /\ cmd.op = "install"
                   /\ cmd' = [cmd EXCEPT !.step = "load", !.look = o]
                \/ /\ cmd.op = "apply"
                   /\ installed
                   /\ Checked([cmd EXCEPT !.look = o])
             /\ Fine
       \/ cmd.op = "apply" /\ ~installed /\ Return /\ Fine
       \/ Return /\ Fault
    /\ UNCHANGED <<machine, files, processes, drifted, drifts, changes, loaded,
                   installed, orderly, commands>>

\* LoadState.  Only install does anything without a ledger, and that only when
\* the file does not exist; emergency-off and uninstall leave the settings alone.
LoadLedger ==
    /\ cmd.step = "load"
    /\ \/ /\ disk # None
          /\ Fine
          /\ orderly' = (orderly /\ disk.pending = Nothing)
          /\ \/ cmd.op = "install" /\ Checked([cmd EXCEPT !.st = disk])
             \/ /\ cmd.op = "apply"
                /\ cmd' = [cmd EXCEPT !.step = "look", !.st = disk]
             \/ /\ cmd.op = "off"
                /\ cmd' = [cmd EXCEPT !.step = "inspect", !.on = "wake",
                              !.st = Committed(disk, "sleep", FALSE)]
             \/ /\ cmd.op = "uninstall"
                /\ cmd' = [cmd EXCEPT !.step = "inspect", !.on = "sleep",
                              !.st = disk]
       \/ /\ disk = None
          /\ Fine
          /\ cmd.op = "install"
          /\ Checked([cmd EXCEPT !.st = NewLedger(cmd.look)])
          /\ UNCHANGED orderly
       \/ /\ IF disk = None THEN Fine ELSE Fault
          /\ IF cmd.op = "uninstall" THEN Then("remove") ELSE Return
          /\ orderly' = (orderly /\ cmd.op # "off")
    /\ UNCHANGED <<machine, files, processes, drifted, drifts, changes, loaded,
                   installed, commands>>

\* Install makes its directories, and the baselines durable before anything is
\* changed.
Record ==
    /\ cmd.step = "record"
    /\ \/ installed' = TRUE /\ Saved(cmd.st) /\ Then("configure") /\ Fine
       \/ /\ \/ installed' \in {installed, TRUE} /\ UNCHANGED disk
             \/ installed' = TRUE /\ SaveFailed(cmd.st)
          /\ Return
          /\ Fault
    /\ UNCHANGED <<machine, status, processes, drifted, drifts, changes, loaded,
                   orderly, commands>>

\* The configuration, and with it the binary and the plist.
Configure ==
    /\ cmd.step = "configure"
    /\ \/ cfg' = cmd.new /\ Then("announce") /\ Fine
       \/ cfg' \in {cfg, cmd.new} /\ Return /\ Fault
    /\ UNCHANGED <<sys, events, world, files, processes, drifted, drifts,
                   changes, loaded, installed, orderly, commands>>

\* Mutant of Announce: the intent is kept in memory only.
AnnounceQuietly ==
    /\ cmd.step = "announce"
    /\ LET v == WakeTarget(cmd)
       IN  cmd' = IF Differs("wake", cmd.look["wake"], v)
                  THEN [cmd EXCEPT !.step = "wake", !.goal = v]
                  ELSE [cmd EXCEPT !.step = "reload"]
    /\ UNCHANGED <<vars, loaded, installed, orderly, commands>>

\* applyWake: intent, write, commit.
Announce ==
    /\ cmd.step = "announce"
    /\ LET v == WakeTarget(cmd)
           l == WithIntent(cmd.st, "wake", v)
       IN  IF ~Differs("wake", cmd.look["wake"], v)
           THEN Then("reload") /\ Fine /\ UNCHANGED disk
           ELSE \/ /\ Saved(l)
                   /\ cmd' = [cmd EXCEPT !.step = "wake", !.st = l, !.goal = v]
                   /\ Fine
                \/ SaveFailed(l) /\ Return /\ Fault
    /\ UNCHANGED <<machine, status, processes, drifted, drifts, changes, loaded,
                   installed, orderly, commands>>

SetWake ==
    /\ cmd.step = "wake"
    /\ Set("wake", cmd.goal,
           cmd' = [cmd EXCEPT !.step = "commit",
                              !.st = Committed(@, "wake", cmd.goal)],
           Return)
    /\ UNCHANGED <<events, world, cfg, files, processes, drifts, changes,
                   loaded, installed, orderly, commands>>

CommitWake ==
    /\ cmd.step = "commit"
    /\ \/ Saved(cmd.st) /\ Then("reload") /\ Fine
       \/ SaveFailed(cmd.st) /\ Return /\ Fault
    /\ UNCHANGED <<machine, status, processes, drifted, drifts, changes, loaded,
                   installed, orderly, commands>>

-----------------------------------------------------------------------------
\* launchd.  A failed launchctl may have had its effect.

\* Apply restarts a service that is loaded with the same plist (kickstart -k),
\* and reloads it otherwise.  Install always reloads it.
Reload ==
    /\ cmd.step = "reload"
    /\ \/ Then("bootout") /\ Fine /\ UNCHANGED processes
       \/ cmd.op = "apply" /\ loaded /\ Return /\ Fine /\ DaemonKilled
       \/ /\ cmd.op = "apply" /\ Return /\ Fault
          /\ \/ loaded /\ DaemonKilled
             \/ UNCHANGED processes
    /\ UNCHANGED <<machine, files, drifted, drifts, changes, loaded, installed,
                   orderly, commands>>

\* The service is unloaded and the daemon's run killed.
Bootout ==
    /\ cmd.step = "bootout"
    /\ \/ /\ loaded' = FALSE
          /\ DaemonKilled
          /\ Then(IF cmd.op \in {"install", "apply"} THEN "bootstrap" ELSE "cancel")
          /\ Fine
       \/ /\ \/ loaded' = FALSE /\ DaemonKilled
             \/ UNCHANGED <<loaded, processes>>
          /\ IF cmd.op \in {"install", "apply"} THEN Return ELSE Despite("cancel")
          /\ Fault
    /\ UNCHANGED <<machine, files, drifted, drifts, changes, installed, orderly,
                   commands>>

Bootstrap ==
    /\ cmd.step = "bootstrap"
    /\ \/ /\ loaded' = TRUE
          /\ IF cmd.op = "install" THEN Then("report") ELSE Return
          /\ Fine
       \/ loaded' \in {loaded, TRUE} /\ Return /\ Fault
    /\ UNCHANGED <<machine, files, processes, drifted, drifts, changes,
                   installed, orderly, commands>>

-----------------------------------------------------------------------------
\* emergency-off and uninstall.

\* SetSleepDisabled(false), whatever the ledger says.
ForceSleep ==
    /\ cmd.step = "force"
    /\ Set("sleep", FALSE, Then("bootout"), Despite("bootout"))
    /\ UNCHANGED <<events, world, cfg, files, processes, drifts, changes,
                   loaded, installed, orderly, commands>>

\* cancelOwnedEvents: every event of schlaflos's own, each on its own.
CancelEvents ==
    /\ cmd.step = "cancel"
    /\ \/ events' = {} /\ Then("load") /\ Fine
       \/ events' \in SUBSET events /\ Despite("load") /\ Fault
    /\ UNCHANGED <<sys, world, cfg, files, processes, drifted, drifts, changes,
                   loaded, installed, orderly, commands>>

\* Mutant of TakenBack: a schedule that cannot be restored is left as it is.
TakenBackIfExact(s, st, o) ==
    /\ Same(s, o, st.last[s])
    /\ s = "wake" => IsExact(st.base[s])

\* A value is taken back when schlaflos wrote it and it is not what it should
\* become anyway.
TakenBack(s, st, o) ==
    Same(s, o, st.last[s]) /\ ~Same(s, o, Restored(s, st.base[s]))

\* Mutant of Onward: uninstall stops after the first setting.
OnwardOnce(c) == [c EXCEPT !.step = IF c.op = "off" THEN "save" ELSE "remove"]

\* The setting is done with: uninstall restores sleep, then wake.
Onward(c) ==
    IF c.op = "off" THEN [c EXCEPT !.step = "save"]
    ELSE IF c.on = "sleep" THEN [c EXCEPT !.step = "inspect", !.on = "wake"]
    ELSE [c EXCEPT !.step = "remove"]

\* restoreBaselines, and the same for the wake schedule in EmergencyOff.
Inspect ==
    /\ cmd.step = "inspect"
    /\ LET s == cmd.on
       IN  IF cmd.st.last[s] = None
           THEN cmd' = Onward(cmd) /\ Fine
           ELSE \/ /\ \E o \in Reading(s, sys[s]) :
                         cmd' = IF TakenBack(s, cmd.st, o)
                                THEN [cmd EXCEPT
                                         !.step = "restore",
                                         !.goal = Restored(s, cmd.st.base[s])]
                                ELSE Onward(cmd)
                   /\ Fine
                \/ cmd' = Onward([cmd EXCEPT !.ok = FALSE]) /\ Fault
    /\ UNCHANGED <<machine, files, processes, drifted, drifts, changes, loaded,
                   installed, orderly, commands>>

Restore ==
    /\ cmd.step = "restore"
    /\ Set(cmd.on, cmd.goal,
           cmd' = Onward([cmd EXCEPT !.st.last[cmd.on] = cmd.goal]),
           cmd' = Onward([cmd EXCEPT !.ok = FALSE]))
    /\ UNCHANGED <<events, world, cfg, files, processes, drifts, changes,
                   loaded, installed, orderly, commands>>

\* EmergencyOff saves the ledger ...
SaveOff ==
    /\ cmd.step = "save"
    /\ \/ Saved(cmd.st) /\ Then("report") /\ Fine
       \/ SaveFailed(cmd.st) /\ Despite("report") /\ Fault
    /\ UNCHANGED <<machine, status, processes, drifted, drifts, changes, loaded,
                   installed, orderly, commands>>

\* ... and, as Install does, publishes a status of its own.  It reports sleep as
\* allowed whether or not the write succeeded.
StatusOfCommand ==
    [mode      |-> cmd.op,
     wake      |-> IF cmd.op = "install" THEN cmd.new.wake ELSE None,
     observed  |-> IF cmd.op = "install" THEN cmd.look
                   ELSE [Nothing EXCEPT !["sleep"] = FALSE],
     requested |-> FALSE,
     drift     |-> {},
     ok        |-> cmd.ok]

ReportStatus ==
    /\ cmd.step = "report"
    /\ \/ status' = StatusOfCommand /\ Fine
       \/ status' \in {status, StatusOfCommand} /\ Fault
    /\ Return
    /\ orderly' = (orderly /\ cmd.ok)
    /\ UNCHANGED <<machine, disk, processes, drifted, drifts, changes, loaded,
                   installed, commands>>

\* Uninstall removes the plist, the configuration, the binary, the status and
\* the ledger, each on its own, and the directories when they are empty.
Remove ==
    /\ cmd.step = "remove"
    /\ \/ /\ cfg' = Invalid /\ installed' = FALSE
          /\ status' = None /\ disk' = None
          /\ Fine
       \/ /\ cfg' \in {cfg, Invalid}
          /\ installed' \in {installed, FALSE}
          /\ cfg' # Invalid => installed' = installed
          /\ status' \in {status, None}
          /\ disk' \in {disk, None}
          /\ Fault
    /\ Return
    /\ orderly' = (orderly /\ disk' = None)
    /\ UNCHANGED <<sys, events, world, processes, drifted, drifts, changes,
                   loaded, commands>>

-----------------------------------------------------------------------------
CommandStep ==
    \/ LookAround
    \/ LoadLedger
    \/ Record
    \/ Configure
    \/ Announce
    \/ SetWake
    \/ CommitWake
    \/ Reload
    \/ Bootout
    \/ Bootstrap
    \/ ForceSleep
    \/ CancelEvents
    \/ Inspect
    \/ Restore
    \/ SaveOff
    \/ ReportStatus
    \/ Remove

\* The command is killed.  What it was doing is only half done.
Abort ==
    /\ cmd.step # "idle"
    /\ Fault
    /\ Return
    /\ orderly' = (orderly /\ cmd.op \in {"install", "apply"})
    /\ UNCHANGED <<machine, files, processes, drifted, drifts, changes, loaded,
                   installed, commands>>

\* The command has done its work: install loads the daemon, then reports.
Handed == cmd.step = "idle" \/ (cmd.op = "install" /\ cmd.step = "report")

\* launchd starts the daemon only while it is loaded.  A run that starts while
\* a command is at work shares the ledger and the settings with it.
StartRun(r, d) ==
    /\ r = Daemon => loaded
    /\ Start(r, d)
    /\ orderly' = (orderly /\ Handed)
    /\ UNCHANGED <<loaded, installed, cmd, commands>>

\* Installed and loaded.
LifecycleInit ==
    /\ Init
    /\ loaded = TRUE
    /\ installed = TRUE
    /\ cmd = Idle
    /\ orderly = TRUE
    /\ commands = 0

LifecycleNext ==
    \/ \E op \in Ops : Begin(op)
    \/ CommandStep
    \/ Abort
    \/ \E r \in Runners, d \in BOOLEAN : StartRun(r, d)
    \/ (\E r \in Runners : Step(r)) /\ UNCHANGED lifecycle
    \/ Environment /\ UNCHANGED lifecycle

LifecycleSpec == LifecycleInit /\ [][LifecycleNext]_allVars

-----------------------------------------------------------------------------
CommandsOK ==
    /\ loaded \in BOOLEAN
    /\ installed \in BOOLEAN
    /\ orderly \in BOOLEAN
    /\ commands \in 0..MaxCommands
    /\ cmd \in [op : Ops \cup {"none"}, step : CommandSteps,
                new : Configs \cup {Invalid}, replace : BOOLEAN,
                st : {cmd.st}, look : {Nothing} \cup [Settings -> AnyValue],
                on : Settings \cup {"none"},
                goal : BOOLEAN \cup Exact \cup {None}, ok : BOOLEAN]
    /\ cmd.st = None \/ IsLedger(cmd.st)

\* Every variable holds a value of its kind.
LifecycleTypeOK == TypeOK /\ CommandsOK

\* The ledger accounts for the settings across install, config apply and
\* reconciliation in any order, whatever fails and wherever they are killed, and
\* after an emergency-off or uninstall that completes.  While one of these two is
\* under way it need not (InterruptionsAccounted).
AccountsWhenOrderly ==
    orderly /\ cmd.op \notin {"off", "uninstall"} => LedgerAccounts

\* The command returns without an error.
Succeeds(op) ==
    cmd.op = op /\ cmd.ok /\ cmd'.op = "none" /\ faults' = faults

\* A schedule that shares its label: a write of the one may have been verified
\* by the other, which then is not taken for the last one written.
Ambiguous(s) == s = "wake" /\ \E v \in Exact \ {sys[s]} : Label(v) = Label(sys[s])

\* What schlaflos wrote of a setting is gone: the setting looks as it did before
\* installation, or is cancelled because that is not known exactly.
GivenBack(s) ==
    \/ s \in drifted
    \/ Look(s, sys[s]) \in {Look(s, cmd.st.base[s]),
                             Look(s, Restored(s, cmd.st.base[s]))}
    \/ Ambiguous(s)

\* The daemon is out of the way and its reservations are cancelled.
Silenced == ~loaded /\ pc[Daemon] = "idle" /\ events = {}

\* Exempt from giving settings back: the command found no ledger it could use.
\* It warns, leaves the settings as they are and still reports no error.
Unledgered == cmd.st = None

Uninstalled ==
    Succeeds("uninstall") =>
       /\ Silenced
       /\ Unledgered \/ \A s \in Settings : GivenBack(s)

Released ==
    Succeeds("off") =>
       /\ "sleep" \notin drifted => ~sys["sleep"]
       /\ Silenced
       /\ Unledgered \/ GivenBack("wake")

\* An uninstall that had the ledger to itself and reports no error has unloaded
\* the daemon and cancelled its reservations.  With a usable ledger it has also
\* given every setting back, so that an unreadable setting or a failed write is
\* an error; without one (Unledgered) it leaves both settings behind as they are.
UninstallRestores == [][orderly => Uninstalled]_allVars

\* The same of emergency-off, which forces sleep to be allowed, ledger or not.
EmergencyReleases == [][orderly => Released]_allVars

\* operations.md:163-166 promises it of every uninstall: it "restores the
\* recorded `disablesleep` and wake-schedule baselines when the current values
\* are still the ones schlaflos wrote".
UninstallAlwaysRestores == [][Uninstalled]_allVars

\* security.md:81-83: "Mutations and state updates are ordered so that an
\* interrupted process can distinguish an owned value from an external value on
\* the next run."
InterruptionsAccounted == cmd.op = "none" => LedgerAccounts

\* architecture.md:326: "`emergency-off` explicitly forces `disablesleep = 0`".
EmergencyAlwaysReleases == [][Released]_allVars
=============================================================================
