# A formal model of schlaflos

schlaflos is a small root daemon for macOS. launchd starts `schlaflos
reconcile` at every poll interval; each run compares the machine with a policy
and adjusts two system settings through `pmset`: the `disablesleep` flag and
the single recurring wake schedule. It also reserves one-off wake events
through IOKit. Nothing stays resident between two runs: what one run knows of
the runs before it is `state.json`, the *ownership ledger*.

The difficulty is therefore not in any single run. It is in what remains when
a run is killed between two steps, when a `pmset` call fails after having had
its effect, when a save fails after its rename, when the operator or another
program changes a setting at the same time, and when a schedule cannot be read
back precisely. The model is about that.

## 1. Inventory

| Part | State it keeps | Operations | Interacts with |
|---|---|---|---|
| reconciliation (`internal/reconcile`) | one run: the ledger in memory, what it observed, what it will report | `Run`, `execute`, `resolvePending*`, `applySleep`, `applyWake`, `applyWakeEvents` | everything below |
| ledger and status (`internal/state`) | `state.json`: baseline, last write and pending write of both settings; `status.json` | `New`, `Validate`, `LoadState`, `SaveState`, `WriteStatus`, `ReadStatus` | safefs |
| policy (`internal/policy/policy.go`) | none | `Evaluate`, `InsideAnyWindow`, `NextWindowTransition` | reconciliation |
| wake event plan (`internal/policy/wakeplan.go`) | none | `PlanWakeEvents` | reconciliation |
| wake adapter (`platform/macos/wake`) | the recurring schedule, held by powerd | `Current`, `Apply`, `Equal`, `Exact` | `pmset`, `plutil` |
| power adapter (`platform/macos/power`) | `disablesleep`, held by powerd | `SleepDisabled`, `SetSleepDisabled`, `Source` | `pmset` |
| one-off events (`platform/macos/wakeevents`) | the events, held by powerd, each with its owner | `List`, `Schedule`, `Cancel`, `Owned` | IOKit |
| safe filesystem (`internal/safefs`) | the files and `reconcile.lock` | `WriteFile`, `ReadFile`, `Lock`, `RemoveFile` | the kernel |
| lifecycle commands (`internal/install`) | the installation, the ledger, both settings | `Install`, `Apply`, `Uninstall`, `EmergencyOff` | launchd and all adapters, **without the lock** |
| launchd (`platform/macos/launchd`) | whether the service is loaded | `Bootstrap`, `Bootout`, `Kickstart`, `Loaded` | starts and kills reconciliations |
| doctor (`internal/doctor`) | none | one report over status, ledger, configuration, service and settings | reads everything, changes nothing |
| process guards, configuration, subprocess runner, layout, command line | none of their own | parsing, matching, printing | read-only or pure |

Where the behaviour is hard:

* **crashes**: a run may be killed between any two of its saves and writes
  (`launchctl kickstart -k`, `bootout`, power loss); the kernel then drops the
  `flock` and the memory is gone;
* **failures with an effect**: a `pmset` call bounded by a timeout may have
  taken effect, a verification may fail after a good write, `WriteFile` may
  fail after its rename;
* **concurrency**: a manual run against the scheduled one (excluded by the
  lock), a foreign `pmset` against any of them (excluded by nothing), and the
  lifecycle commands, which do not take the lock;
* **ambiguity of observation**: `pmset -g sched` prints any mask of days
  without a name of its own as "Some days", so equal readings need not mean
  equal schedules.

What makes each part correct:

* reconciliation: runs do not overlap; the ledger on disk always accounts for
  what schlaflos wrote; an inhibition from before the installation is never
  released; a reported conflict is really somebody else's change; a status
  that says the run went well is true; in quiet times the machine reaches the
  policy and the runs stop writing;
* lifecycle: after `emergency-off` sleep is not inhibited by schlaflos;
  uninstall restores what schlaflos wrote and preserves what it did not; an
  unrelated schedule is replaced only when the operator says so (the guard
  `Conflict`, of which no property says more: see section 7);
* policy and plan: a time is inside a window exactly when an occurrence of the
  window contains it; every planned instant lies inside a window, none is
  missed between margin and horizon;
* safe filesystem: a reader sees the old file or the new one, through failures,
  kills and a power loss; at most one process holds the lock *on the path*;
* doctor: of a setting the next run will report as a conflict, doctor warns.

## 2. Modules

| Module | Models | Depends on |
|---|---|---|
| `WakeSchedule` | values of the recurring schedule: labels, exactness, `Equal`, what `Current` may return | – |
| `Ledger` | `state.State` and every operation on it, for one setting or for both | `WakeSchedule` |
| `Ownership` | what the ledger promises: an abstract write-ahead protocol between settings and ledger | `Ledger` |
| `Policy` | `policy.Evaluate` | – |
| `Reconcile` | reconciliation as a state machine: runs, files, lock, machine, environment; it implements `Ownership` | `Ledger`, `Policy`, `Ownership` |
| `MCReconcile` | instances for TLC | `Reconcile` |
| `Lifecycle` | install, config apply, emergency-off and uninstall beside the reconciliations, and launchd | `Reconcile` |
| `Doctor` | the doctor command as a predicate of the state | `Lifecycle` |
| `MCLifecycle` | instances for TLC | `Doctor` |
| `AtomicFile` | what `safefs` promises of a file | – |
| `SafeFS` | `WriteFile`, `ReadFile`, `Lock`, `RemoveFile` down to inodes; it implements `AtomicFile` | `AtomicFile` |
| `MCSafeFS` | instances for TLC | `SafeFS` |
| `Windows` | the calendar of package policy and the plan of wake events, while the clock runs | – |
| `MCWindows` | an instance for TLC | `Windows` |
| `ReconcileProofs` | types, the lock, the account of the ledger | `Reconcile`, `TLAPS` |
| `OwnershipProofs`, `BaselineProofs`, `ConflictProofs` | the refinement of `Ownership`; the baseline; the conflicts | `ReconcileProofs` |
| `StatusProofs` | the truth of the status | `ConflictProofs`, `OwnershipProofs` |
| `LifecycleProofs` | the commands and doctor: types, the account, what is given back, the drift foretold | `Doctor`, `ReconcileProofs` |
| `WindowsProofs` | the calendar and the plan of wake events | `Windows`, `WellFoundedInduction`, `TLAPS` |
| `SafeFSProofs` | the lock and the refinement of `AtomicFile` | `SafeFS`, `TLAPS` |

### WakeSchedule and Ledger

A schedule is one value: the two events, their type, minute and mask are told
apart by no property. `Exact` are the schedules whose days are known, `LabelOf`
gives what `pmset -g sched` prints for each, and `Lossy` are the labels several
masks share. `Equal` is `Schedule.Equal`: masks when both are exact, labels
otherwise. `Current(v)` is what `Adapter.Current` may return while powerd holds
`v`: the schedule when the label has a mask of its own or the preference file
is readable, else the label only.

`applySleep` and `applyWake` follow the same protocol, so the ledger is a
record of three functions over `Settings` (`base`, `last`, `pending`) and each
operation takes the setting. A nil pointer is `None`.

`Ownership` is the abstract specification of what the ledger is for. It knows
the settings, the ledger on disk and which settings others have changed, and no
process, memory, failure or crash. A setting only ever takes a value the ledger
announces (`Perform`); the ledger only ever takes over as last written what it
had announced, and only into something that still accounts for every setting
nobody else has changed (`Record`, `Follows`, `Accountable`); it may be lost, and
come back from the copy a run holds (`Lose`, `Recover`). `Reconcile` maps
`value <- sys`, `ledger <- disk`, `foreign <- drifted`. `Record` speaks of any
number of settings at once: the file is replaced as a whole, and a save for one
setting may carry what the run has found out about the other.

### Reconcile

One step of the model is one call that leaves the process, or a stretch of code
that makes none:

| Action | Code |
|---|---|
| `Start(r, d)` | `FS.Lock`; `d` is `--dry-run`, which launchd never passes |
| `Load(r)` | `Store.LoadState`; without a usable ledger the run returns |
| `ReadConfig(r)` | `Clock()` and `LoadInstalledConfig` |
| `Observe(r)` | `Power.SleepDisabled`, then `Wake.Current`, with `resolvePending*` |
| `Evaluate(r)` | power source, processes, `policy.Evaluate` and the part of `applySleep` and `applyWake` before the write; a dry run ends here |
| `Intent(r)` | the pending write and its `SaveState` |
| `Write(r)` | `SetSleepDisabled` or `Wake.Apply`, with its verification |
| `Commit(r)` | the last write and its `SaveState` |
| `Events(r)` | `applyWakeEvents` |
| `Save(r)` | the final `SaveState`, when the ledger differs from the one loaded |
| `WriteStatus(r)` | `Store.WriteStatus`, and the deferred release of the lock |
| `Crash(r)` | the process is killed; memory and lock are gone |
| `LoseLedger`, `DriftAway(s)`, `ChangeWorld`, `ChangeConfig` | what happens outside |

Every call can fail; a failure, a crash and the loss of the ledger use up one
of `MaxFaults`. A failed save leaves the old file or the new one; a failed
write leaves the old value or the new one.

`applySleep` runs to its end before `applyWake` begins in the code. `Evaluate`
takes both decisions at once, which is the same: each reads only the
observations and its own part of the ledger, and the order of the writes is
kept (`First`).

`drifted` is a history variable: the settings another process has changed since
schlaflos last wrote them. Properties about what schlaflos itself does exclude
them.

Left out: timestamps, reason codes, log lines, the text of `pmset`, the fields
of the status no property reads. Whether the ledger changed (a comparison of
two encodings in the code) is the flag `dirty`: every path that changes the
ledger also changes one of its timestamps. A `pmset` call and its verification
are one step, so a crash falls before or after both; what a crash in between
leaves behind, the new value with the intent on disk, is what a failed
verification leaves too. The clock, the power source and the processes are
sampled together, at `ReadConfig`. Owned events are a set of instants, and an
event about to fire disappears from it when the world moves on.

### Lifecycle

One lifecycle command runs beside the reconciliations, on the same files and
settings and without the lock. Its memory is the record `cmd`; `loaded` says
whether launchd has the service, `installed` whether the plist, the binary and
their directories are there.

| Action | Code |
|---|---|
| `Begin(op)` | the operator enters the command with a valid configuration |
| `LookAround` | `Power.SleepDisabled` and `Wake.Current`, the binary `Apply` needs; the conflict of `checkWakeConflict` once the ledger is known |
| `LoadLedger` | `Store.LoadState`, with what each command does when there is none |
| `Record` | install makes its directories and saves the ledger before anything else is changed |
| `Configure` | binary, configuration and plist; the configuration stands for all |
| `Announce`, `SetWake`, `CommitWake` | `applyWake`: intent, write, commit |
| `Reload`, `Bootout`, `Bootstrap` | `Launchd`; `Reload` is the choice of `Apply` and holds its `Kickstart` |
| `ForceSleep` | `SetSleepDisabled(false)` of `EmergencyOff` |
| `CancelEvents` | `cancelOwnedEvents` |
| `Inspect`, `Restore` | `restoreBaselines`, and the schedule's part of `EmergencyOff` |
| `SaveOff`, `ReportStatus` | the ledger and the status of `EmergencyOff`; the status of `Install` |
| `Remove` | uninstall removes its files, and the directories when they are empty |
| `Abort` | the command is killed |
| `StartRun` | `Start`, for the daemon only while it is loaded |

An error ends install and apply; emergency-off and uninstall note it in
`cmd.ok` and go on. `Bootout` and `Kickstart` kill the run of the daemon.

`orderly` is a history variable: so far no reconciliation has run while a
command was at work on the ledger, no command has met a write left pending by a
killed run, and no emergency-off or uninstall has failed or been killed half
way. An install that has loaded the daemon is done with the ledger (`Handed`),
so the run it starts may overlap its last step. The properties that hold need
`orderly`, and the three runs that find a promise of the documents violated show
what happens without it.

Left out: the convenience link, two commands at once, and which of the plist,
the binary and the directories a failed removal has left (`installed` then may
stay). The removal of the lock file is in `SafeFS`.

`Doctor` adds no action: each line doctor may print about one setting is a
definition that says when it is a warning, for a state and an observation of the
setting. There are three: the conflict the last run reported, the reading that
differs from the status, and the reading that differs from the last write.
Without `installed` doctor says "not installed" and stops. Its history variable
`witnessed` is the baseline with which the run that published the status has
compared `disablesleep`, and `None` when there is no such run: the status is
missing or that of a command, the flag or the power source could not be read, or
the flag had been written before.

### SafeFS

A path names an inode (`entry`). What a power loss may leave of a name or of
contents is kept explicitly: `kept` holds every inode a path may come back to
until the directory is synced, and the contents of an inode not in `synced` come
back as `Torn`.

| Action | Code |
|---|---|
| `Create`, `Fill`, `Sync`, `Rename`, `Finish` | `WriteFile`: temporary file; owner, mode and contents; `fsync`; `rename`; sync of the directory and `VerifyFile` |
| `OpenFile`, `ReadAll` | `ReadFile` |
| `OpenLock`, `Flock`, `Release` | `Lock`, and the function it returns |
| `RemoveFile(x)` | `RemoveFile` on the file or on the lock, as an uninstall calls it, without the lock |
| `Crash(p)`, `PowerLoss` | a kill; the machine loses its power |

Every call may fail, and a failed `WriteFile` may leave its temporary file
behind. An inode that nothing refers to is free and may be used again. The
mapping to `AtomicFile` takes the contents of the inode the path names, the
contents of those it may come back to, and for every reader the contents of the
inode it has open. `undermined` is a history variable: the lock file was removed
while a process had it open.

`Reconcile` and `Lifecycle` use the files at this level: a save happens or does
not, whatever it returns, and the lock belongs to one run.

### Windows

Time is counted in ticks of which a day has `DayLength`. A zone is one change of
the local time: the tick, the shift forward or back, and how `time.Date`
resolves a reading that occurs twice or never, which its documentation leaves
open. The operators carry the names of the functions they translate; the only
action is the tick of the clock.

A tick stands for the hour by which the local time jumps, and windows begin and
end at whole ticks. A jump by several ticks (windows at half hours) and a second
jump are not modelled: `WindowsAssumption` says so.

## 3. Properties

| Property | Meaning |
|---|---|
| `TypeOK` | every variable has its type; a value about to be written is exactly known |
| `OneReconciler` | whoever is past `Lock` holds the lock (docs/security.md, Concurrency) |
| `LedgerAccounts` | the ledger on disk accounts for every setting nobody else has changed: the setting looks like the last write (or the baseline), or it is the pending write |
| `BaselineRespected` | an inhibition older than the installation is never released |
| `ConflictsAreForeign` | a run reports a conflict only for a setting another process changed |
| `StatusTruthful` | a status with `run_ok` shows the settings as they are, and sleep is inhibited exactly when requested or when the baseline was |
| `ImplementsOwnership` | every step is one of the write-ahead protocol of `Ownership`, or none |
| `SettingsConverge` | in quiet times both settings reach the policy and stay there |
| `EventsConverge` | in quiet times the reservations come to be those of the plan |
| `HandsBack` | in quiet times a disabled wake schedule gives way to the pre-install one |
| `ComesToRest` | in quiet times runs stop writing |
| `LifecycleTypeOK` | every variable of the composition has its type; only exactly known schedules are ever written |
| `AccountsWhenOrderly` | `LedgerAccounts` across install, apply and reconciliations in any order, killed anywhere, and after a complete emergency-off or uninstall |
| `UninstallRestores` | after an uninstall without error the daemon is unloaded and the events are cancelled, and the settings are given back if it had a usable ledger |
| `EmergencyReleases` | after an emergency-off without error sleep is allowed, the daemon is unloaded, the events are cancelled, and the schedule is given back if it had a usable ledger |
| `DriftForetold` | at rest and installed, doctor warns of every setting the next run will report as a conflict, in a line about that setting (operations.md:136-138) |
| `SafeFSTypeOK` | every variable has its type, and what a path names is among what it may name after a power loss |
| `OneHolder` | at most one process holds the lock, unless the lock file was removed from under one |
| `ImplementsAtomicFile` | the file is absent or holds one document; a reader keeps the one it opened; a power loss leaves a document the file held |
| `LockExcludes` | `OneHolder` without its premise, as security.md:124-126 has it; it does not hold |
| `InsideAsConfigured` | a time is inside a window exactly when the window of some listed day contains it |
| `TransitionIsNext` | the announced transition is the first instant at which the union of the windows changes |
| `PlanCovers` | planned instants lie in windows, and every instant of a window that can be reserved for has a wake less than an interval before it |
| `PlanKeeps` | what one run reserves the next one plans again, until it is about to fire |
| `UninstallAlwaysRestores`, `EmergencyAlwaysReleases`, `InterruptionsAccounted` | what the documents say of the commands without the premise `orderly`; they do not hold |
| `NotRequestedMeansBaseline` | what llms.txt:184 says of the status; it does not hold |

`LedgerAccounts` is the core: it is what makes a restart safe without any
knowledge of where the previous run stopped. `ConflictsAreForeign` and uninstall
both rest on it. It speaks of how a value *looks* because a schedule whose label
is shared can be verified, and adopted, in place of another; for the same
reason `ConflictsAreForeign` exempts values whose label is in `Lossy`: with
equality by label, two masks printed as "Some days" are the same schedule to one
reading and different ones to the next.

`UninstallRestores` and `EmergencyReleases` speak of the commands that had the
ledger to themselves, and exempt two settings: one another process has changed,
which is preserved, and a schedule that shares its label with another
(`Ambiguous`): the verification of a write may have passed on a schedule that a
more exact reading then tells from the one recorded, and the command preserves
it. Both exempt a command that found no ledger it could use (`Unledgered`) from
giving settings back. Uninstall then only warns that "power settings are left
unchanged" (`install.go:235`), removes the ledger and reports no error; a test
asks for that (`install_test.go:305`). An inhibition of schlaflos's own stays
behind in this case. Emergency-off forces `disablesleep` in every case and leaves
only the schedule.

`DriftForetold` holds whatever is interleaved with what. Only a warning about the
setting itself counts: that a run has failed, or that a write is pending, tells
the operator nothing of a drift. It does not speak of an installation that is
gone: an uninstall that fails to remove `state.json` alone leaves a ledger of
which doctor says nothing ("not installed").

It makes one exception, `Unwitnessed`, and there the code does less than
operations.md:136-138 says. Of a `disablesleep` that schlaflos has never written
the ledger has no last value, and doctor compares the flag with the status alone,
never with the baseline, while the next run compares it with the baseline. If
the status is not that of a run which has made this comparison, the drift passes
unseen: a run could not read `disablesleep` (the status then shows none, and
doctor finds the flag in order) or the power source, there is no status yet, or
it is that of an install over an existing ledger, which shows what it found as if
that were in order. TLC finds the property violated without the exception.

## 4. Runs

Two runners in the runs of `MCReconcile`: the one launchd starts and a manual
one, which may also run dry. Two suffice: the lock admits one run at a time, and
whatever a third could leave behind, one of the two can.

| Run | Settings and values | Faults / drifts / changes | Checks |
|---|---|---|---|
| `both` (MCBoth) | both settings and an event; in and out of a window, guard, AC, battery | 1 / 1 / 1 | `TypeOK`, `OneReconciler`, `BaselineRespected`, `LedgerAccounts`, `StatusTruthful`, `ImplementsOwnership` |
| `wake` (MCWake) | four schedules, two of which share a label; wake disabled, and enabled with either of these | 2 / 1 / 1 | `LedgerAccounts`, `ConflictsAreForeign`, `StatusTruthful` |
| `live` (MCLive) | `disablesleep` and two events: planned, about to fire, fired | 1 / 1 / 2 | `SettingsConverge`, `EventsConverge`, `ComesToRest` |
| `wake_live` (MCWakeLive) | three schedules, two of which share a label | 1 / 1 / 1 | `SettingsConverge`, `HandsBack`, `ComesToRest` |
| `sleep_doc` (MCSleepDoc) | `disablesleep` | 1 / 0 / 0 | `NotRequestedMeansBaseline` is violated |
| `lifecycle` (MCLifecycle) | both settings, three schedules, one without a label of its own; two commands; the daemon | 1 / 1 / 0 | `LifecycleTypeOK`, `AccountsWhenOrderly`, `DriftForetold`, `UninstallRestores`, `EmergencyReleases` |
| `uninstall_doc` (MCUninstallDoc) | one command | 0 / 0 / 0 | `UninstallAlwaysRestores` is violated |
| `emergency_doc` (MCEmergencyDoc) | one command | 0 / 0 / 0 | `EmergencyAlwaysReleases` is violated |
| `ledger_doc` (MCLedgerDoc) | one command | 1 / 0 / 0 | `InterruptionsAccounted` is violated |
| `files` (MCSafeFS) | two processes, two documents, four inodes; failures, kills and power losses without a bound | – | `SafeFSTypeOK`, `OneHolder`, `ImplementsAtomicFile` |
| `lock_doc` (MCLockDoc) | two processes | – | `LockExcludes` is violated |
| `windows` (MCWindows) | a week of two days of six ticks, 150 sets of one or two windows, 25 zones, fifteen ticks around the change | – | `InsideAsConfigured`, `TransitionIsNext`, `PlanCovers`, `PlanKeeps` |

Two faults let a run crash and its successor fail as well, which is what a
protocol of intent, write and commit has to survive: a lost commit followed by
a lost resolution. One foreign change and one change of policy let each fall
between any two steps of either run. `both` has one fault, as two settings
multiply the places it can fall in, and checks every safety property that needs
them side by side; `wake` has two. Deadlock is checked in these runs: the
daemon can always be started again. It is not in the others, where the system
may stop: the daemon stays unloaded once the commands are used up, and the
clock of `Windows` reaches its bound.

The run `lifecycle` has two commands, because what one leaves is what the next
finds (emergency-off and then uninstall, uninstall and then install, apply and
then uninstall). It follows a behaviour under the constraint `Followed`: at most
one thing goes wrong, a foreign change goes with one command, and once a command
has shared the ledger, so that the properties with the premise `orderly` say
nothing any more, it is followed to its end for the type invariant. What
`DriftForetold` says of the states after that is proved, not run. The world
is one night inside a window; the policy is checked elsewhere.

In `files` four inodes let each of two writers have one beside the old file and
the lock, or one be left behind by a kill; when all are in use a process waits
for one to become free, which is a bound of the model. Inodes and documents are
interchangeable: nothing distinguishes their values, and none of the properties
is a liveness property, so `SYMMETRY` is sound. The `VIEW` forgets the contents
of free inodes: `Create` begins them anew before anything can read them, so two
states that differ there have the same successors under the view, and no
property reads them.

In `windows` two weekdays suffice: a window lasts at most a day, so an instant
is touched by the windows of two days only. The clock changes at every tick of
one day, its first included; the interval is longer than the
margin, so an offset by one is seen at either. The clock runs for fifteen ticks,
from the day before the change until the plans no longer reach back to it.

Each property is also run against a faulty variant of the code it is about
(the definitions marked "Mutant of", listed in `PROJECT.json`): a run that does not wait for the lock, an interrupted write
that is always discarded, a save that returns early, a target that forgets the
baseline, and so on. TLC finds each property violated by its variant.

### Fairness

`Fairness` asks for `WF(Step(r))`: a run that has begun goes on. `cmdrun.Exec`
bounds every subprocess by a timeout, and file calls return. It asks for
`SF(Start(Daemon, FALSE))`: launchd starts the daemon at every interval; a
start that finds the lock held gives up, so weak fairness would allow manual
runs to be in the way each time, but these are short and the operator's. The
environment owes nothing: faults, drifts and changes may or may not happen, and
their bounds are what "in quiet times" means.

### What the code and its documentation disagree on

`llms.txt:184` says that `requested = false` with `observed = true` in a status
means that the baseline was `disablesleep = 1`. The run `sleep_doc` shows
another way to that status: a run inside a window sets the inhibition, then a
run that cannot read the power source sets `requested` to false
(`reconcile.go:206`) and, as the architecture document asks, makes no power
mutation.

The lifecycle commands promise more than they keep when a reconciliation is
under way (`internal/install/install.go`):

* `uninstall_doc`: uninstall begins by unloading the daemon, which kills a run
  between its `pmset` write and its `SaveState`. `restoreBaselines` (line 476)
  looks at the last recorded write and not at the pending one, takes the
  inhibition for foreign, and removes the ledger. No call fails, and sleep stays
  disabled (operations.md:163-166).
* `emergency_doc`: emergency-off clears `disablesleep` (line 260) and then
  unloads the daemon (line 265). A run in between inhibits sleep again; the
  command and its status say that it does not (architecture.md:326).
* `ledger_doc`: emergency-off writes without an intent. Killed before its
  `SaveState` (line 304), it leaves a value the next run reports as foreign
  (security.md:81-83).

`lock_doc` is about the lock itself. `Uninstall` removes the lock file
(`install.go:241`) without holding the lock, and `Lock` (`safefs.go:240`) does not
check that the inode it has locked is still the one the path names. A run that
holds the removed inode then goes on beside one that has made the file anew,
where security.md:124-126 promises one mutation sequence at a time.

Two properties of the calendar have to exempt zones whose clock skips the hour
beside midnight, where `time.Date` leaves open which instant a skipped reading
names:

* `InsideAsConfigured` exempts `Displaced`: when the hour after midnight is
  skipped, an instant of the day before may come back for a window that starts
  in that hour, and `HasDay` is then asked about the wrong weekday;
* `PlanKeeps` exempts `Postponed`: when the hour before midnight is skipped, an
  instant of the day after may come back, the window then lasts until the day
  after that, longer than the code looks back, and from midnight on its rest is
  planned by the window of the day in between, at other multiples of the
  interval.

TLC finds each of the two violated without its exemption. The second case came
to light in the proof of `PlanKeeps`; the clock of the run then stopped too
early to reach that midnight, and has been given the time since.

## 5. Proofs

The proofs hold for every set of runners or processes, every configuration and
world, schedules with any labels, documents, inodes, any number of commands,
every length of day and week, every set of windows, and every bound:

| Theorem | Module | Statement |
|---|---|---|
| `TypeCorrect` | `ReconcileProofs` | `Spec => []TypeOK` |
| `MutualExclusion` | `ReconcileProofs` | `Spec => []OneReconciler` |
| `LedgerAlwaysAccounts` | `ReconcileProofs` | `Spec => []LedgerAccounts` |
| `OwnershipImplemented` | `OwnershipProofs` | `Spec => ImplementsOwnership` |
| `BaselineAlwaysRespected` | `BaselineProofs` | `Spec => []BaselineRespected` |
| `ConflictsAlwaysForeign` | `ConflictProofs` | `Spec => ConflictsAreForeign` |
| `StatusAlwaysTruthful` | `StatusProofs` | `Spec => StatusTruthful` |
| `LifecycleTypeCorrect` | `LifecycleProofs` | `LifecycleSpec => []LifecycleTypeOK` |
| `LedgerAccountsAcrossCommands` | `LifecycleProofs` | `LifecycleSpec => []AccountsWhenOrderly` |
| `UninstallAlwaysGivesBack` | `LifecycleProofs` | `LifecycleSpec => UninstallRestores` |
| `EmergencyAlwaysLetsGo` | `LifecycleProofs` | `LifecycleSpec => EmergencyReleases` |
| `DriftAlwaysForetold` | `LifecycleProofs` | `DoctorSpec => []DriftForetold` |
| `SafeFSTypeCorrect` | `SafeFSProofs` | `Spec => []SafeFSTypeOK` |
| `LockIsExclusive` | `SafeFSProofs` | `Spec => []OneHolder` |
| `FileIsAtomic` | `SafeFSProofs` | `Spec => ImplementsAtomicFile` |
| `InsideAlwaysAsConfigured` | `WindowsProofs` | `Spec => []InsideAsConfigured` |
| `TransitionIsAlwaysNext` | `WindowsProofs` | `Spec => []TransitionIsNext` |
| `PlanAlwaysCovers` | `WindowsProofs` | `Spec => []PlanCovers` |
| `PlanAlwaysKeeps` | `WindowsProofs` | `Spec => PlanKeeps` |

Assumed: `ScheduleAssumption` (a label shared by several masks is not an exact
schedule, every other label names its own mask, "no schedule" is one of them),
`SettingsAssumption`, `LedgerAssumption` and `StatusAssumption` (`None` is
neither a ledger nor a status),
`ReconcileAssumption` (the constants have their types; `None` is not a value),
`LifecycleAssumption` (both settings are there, as the commands handle each by
name), for the files `SafeFSAssumption` (`Torn` is not a
document; `None` is neither document, inode nor process), and for the calendar
`WindowsAssumption` (lengths, windows and the interval have their types; the
local time jumps by at most one tick). TLC evaluates each in every run that uses
it.

**Types and the lock.** `TypeOK` is not inductive on its own: `First(todo[r])`
has to be a setting, the value to write must not be `None`, and only the holder
of the lock may be under way. `Control` says so, and `TypeOK /\ Control` is
inductive (`StepControl`).

**The account.** `LedgerAccounts` is not inductive either, because a save writes
what a run holds in memory. `Accounting` adds, for every run:

* `Resolved`: once a setting has been observed its earlier intent is settled,
  and at most the setting being written has an intent;
* `Announced`: while a run writes, its intent is the value it writes, and the
  ledger on disk is the one in memory, or gone;
* `MemoryAccounts`: the ledger in memory accounts for the settings as the one
  on disk does.

The lemmas before it are the argument itself: whatever is read of a value looks
like the value (`ReadingLooks`), a reading of the very value in question is
taken for it (`ReadingSame`), so the resolution of an intent keeps the account
(`ResolveAccounts`), as do announcing a write (`IntentAccounts`) and committing
a verified one (`CommittedAccounts`), and no operation on one setting touches
the account of the other (`OtherAccounts`). `StepAccounting` has one step per
action.

**The refinement of `Ownership`.** A save replaces the whole ledger by a run's
copy, so the copy must never stray from the file by more than the protocol
allows. `Copies` says how far: the same baselines, nothing announced that the
file does not announce, and at most what the file announces taken over
(`CopyOf`). It survives a save that failed with either outcome
(`WithdrawnCopies`), and together with `Accounting` it makes every save a
`Record` or, after a loss, a `Recover`.

**The baseline.** `Respects` adds to `BaselineRespected` the ledger in memory,
which can come back after the one on disk is lost, and the goal a run has set
itself, which is never the release of an inhibition its baseline records.

**The conflicts.** A run decides on a conflict from what it has read. `Fresh`
says that this is still a reading of the setting when it decides, unless another
process has changed the setting since; with `Accounting` a setting that differs
from what is expected (`AccountedIsNoDrift`) is then in `drifted`.

**The status.** What a run publishes it has decided long before. `Honest` says
what it owes from the decision on, as long as nothing has failed: a setting
nobody else has changed is still to be written, and then to the value the report
stands for, or it looks as the run has recorded it. That the decision starts so
is `Fresh`; that the baseline the run goes by is the one of the file is `Copies`.

**The commands.** `Commanded` says which step belongs to which command and what
the command knows there; with it the types of the composition are inductive.
`AccountsWhenOrderly` needs `Ordered`: while a command has the ledger to itself
no run is under way (`Alone`), so that a step of the one leaves the account of
the other alone; every run satisfies the three parts of `Accounting`
(`RunsAccount`); install and apply hold a copy that accounts for the settings
whenever they save it, and announce a write before they make it
(`ChangeAccounts`); emergency-off, which writes without announcing, has a copy
that accounts for everything by the time it saves it (`UndoAccounts`). The proof
has one lemma per step of a command.

**What is given back.** `UndoDone` says what an uninstall or emergency-off
without an error has achieved at each of its steps: the daemon unloaded, then
the reservations cancelled, then, with a ledger, one setting after the other
given back. A
setting that is left alone is one that looks as it should become (`LeftAlone`);
this is where `Ambiguous` is needed. Both theorems are about the step with which
the command returns.

**The drift foretold.** However the next run resolves an interrupted write, what
it reports as a conflict differs from the last write, or is a `disablesleep` never
written that differs from its baseline (`ReportedOf`). In the first case doctor
makes the same comparison. In the second it sees the difference only through the
status, which must show the baseline or the conflict (`UnwrittenReported`).
`RunsSayBaseline` (a run that knew the power source and found no conflict in a
flag never written has read the baseline, whatever failed afterwards) makes
`StatusSaysBaseline` inductive.

**The calendar.** `Instant` is the reading `time.Date` resolves, `Covers` that
the window of a day contains an instant. From the bounds of a day (`DayBounds`)
it follows that the window of a day opens in it unless displaced, and closes by
the end of the day after (`OpensIn`, `ClosesBy`), so only the windows of today
and yesterday can contain an instant: that is `InsideAsConfigured`. For
`TransitionIsNext`, the union changes only at an opening or a closing
(`ChangesAtEdges`); the first change is then a boundary the search reaches
(`FirstFlipIsBoundary`, `BoundaryInReach`), and the least of those that change
it. For the plans, the last multiple of the interval before an instant of an
occurrence is planned (`LastMultiple`, `PlanIs`), and when midnight passes the
occurrences that still matter stay within the days looked at (`NextDay`). The
one use of induction is that a non-empty set of numbers has a least one
(`LeastNumber`), from the well-foundedness of the order in the library.

**The files.** `Sound` says that the inode of a writer is its own (`Private`),
that what is about to be named is wholly written and synced (`Written`), and that
this holds of all the file may come back to (`Durable`). A step that leaves the
file and the open inodes alone is a stutter (`SameFile`); the others are one step
each of `AtomicFile`. `Guarded` says that a lock belongs to the process that has
it and that, while nothing has undermined it, all have the same inode open.

Only model-checked are the liveness properties (`SettingsConverge`,
`EventsConverge`, `HandsBack`, `ComesToRest`): fairness and `ENABLED` are out of
the prover's reach. Every other property of a passing run is proved. The
documented promises that do not hold are refuted by a trace.

## 6. Not modelled

* The parsers and printers: the text of `pmset`, property lists, TOML, JSON, the
  plist template. They are pure, and table tests reach them; their outcome (a
  value, or a failure) is an input of the model. What a printed label hides of a
  schedule is modelled (`LabelOf`, `Lossy`).
* The checks of owners, modes and symbolic links: outcomes of a call. The
  convenience link; and of creating and removing directories all but `installed`:
  the state directory is taken to stay.
* The subprocess runner: a call that exceeds its timeout is a call that fails
  after it has, or has not, had its effect. Durations are not measured, so the
  margin of the wake events is not compared with that of a run.
* The matching of process paths by the guards: active, inactive or unknown is an
  input.
* The command line: flags, root checks and printing around the packages.
* Of doctor, the lines that speak of no single setting: paths and modes, the age
  and the outcome of the last run, the configuration, launchd, the private state,
  pending writes and the number of events.
* Two lifecycle commands at once.

## 7. What is left

1. The calendar for a jump of several ticks. TLC finds that the exemptions then
   have to grow: a clock that goes back to the day before repeats that day's
   windows, and a gap across midnight displaces the end of a window as well as
   its start. Without these two cases a jump of two ticks keeps all four
   properties on the instance of `windows`.
2. That a reconciliation beside the commands keeps the properties of
   `Reconcile` that do not speak of the ledger on disk, as `StatusTruthful` for
   the runs that share it with no command.
3. A property for a schedule that has been handed back and is then replaced by a
   later apply, once the documents say whose it is.
