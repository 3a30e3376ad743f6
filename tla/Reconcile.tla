------------------------------ MODULE Reconcile ------------------------------
(***************************************************************************)
(* One reconciliation after another (reconcile.Run): launchd starts one at *)
(* every poll interval and an operator may start more by hand.  A run      *)
(* takes the lock, loads the ledger, reads the configuration and the       *)
(* machine, evaluates the policy, brings each setting to its target with a *)
(* persisted intent around every write, arranges the one-off wake events,  *)
(* saves the ledger and publishes a status.                                *)
(*                                                                         *)
(* Between any two steps another process may change a setting, the world   *)
(* or the configuration, the run may be killed, and every call that leaves *)
(* the process may fail with or without having had its effect.             *)
(***************************************************************************)
EXTENDS Ledger, Policy, Naturals

CONSTANTS
    Runners,      \* processes that run `schlaflos reconcile`
    Daemon,       \* the one launchd starts
    Configs,      \* installed configurations: [wake, interval, requireAC]
    Invalid,      \* an installed configuration that cannot be used
    Worlds,       \* what a run can read besides the settings
    Slots,        \* one-off wake events
    MaxFaults,    \* bound: failed calls, killed runs, lost ledgers
    MaxDrifts,    \* bound: settings changed by another process
    MaxChanges    \* bound: changes of the world or of the configuration

ASSUME ReconcileAssumption ==
    /\ Settings # {}
    /\ Daemon \in Runners
    /\ None \notin Runners
    /\ Configs \subseteq [wake : Exact \cup {None}, interval : BOOLEAN,
                          requireAC : BOOLEAN]
    /\ Invalid \notin Configs
    /\ Worlds \subseteq [inside : BOOLEAN, guard : BOOLEAN, ac : BOOLEAN,
                         plan : SUBSET Slots, soon : SUBSET Slots]
    /\ {MaxFaults, MaxDrifts, MaxChanges} \subseteq Nat

VARIABLES
    sys,          \* the settings as the operating system holds them
    events,       \* the one-off wake events that schlaflos owns
    world,        \* the time, power source and processes
    cfg,          \* the installed configuration
    disk,         \* state.json, None when absent or unusable
    status,       \* status.json, None before the first run
    lock,         \* the run that holds reconcile.lock
    pc,           \* per run: the step it is at
    dry,          \* per run: --dry-run
    mem,          \* per run: the ledger in memory
    rcfg,         \* per run: the configuration it read
    seen,         \* per run: the world it read
    obs,          \* per run: the observation of each setting, None on failure
    todo,         \* per run: the settings still to read or to write
    goal,         \* per run: the value to write, None for nothing
    rep,          \* per run: what the status will say
    drifted,      \* history: settings changed by others since our last write
    faults, drifts, changes

machine == <<sys, events, world, cfg>>
files   == <<disk, status>>
inputs  == <<dry, rcfg, seen>>
plans   == <<obs, todo, goal, rep>>
budgets == <<faults, drifts, changes>>
vars    == <<machine, files, lock, pc, inputs, mem, plans, drifted, budgets>>

-----------------------------------------------------------------------------
Steps == {"idle", "load", "config", "observe", "evaluate", "intent", "write",
          "commit", "events", "save", "status"}

\* What a status may have been published by.
Modes == {"reconcile", "install", "off"}

Nothing == [s \in Settings |-> None]

\* The status as a run starts it, whether the ledger has changed, and whether
\* the power source, where it matters, is known.
Report == [ok : BOOLEAN, dirty : BOOLEAN, requested : BOOLEAN,
           source : BOOLEAN, drift : SUBSET Settings]
NewReport == [ok |-> TRUE, dirty |-> FALSE, requested |-> FALSE,
              source |-> FALSE, drift |-> {}]

\* state.Status.
Statuses == [mode : Modes, wake : Exact \cup {None},
             observed : [Settings -> AnyValue \cup {None}],
             requested : BOOLEAN, drift : SUBSET Settings, ok : BOOLEAN]

ASSUME StatusAssumption == None \notin Statuses

\* Sleep is read and applied before wake.
First(T) == IF "sleep" \in T THEN "sleep" ELSE "wake"

\* A step goes well, or it uses up one of the faults.
Fine  == UNCHANGED faults
Fault == faults < MaxFaults /\ faults' = faults + 1

\* Mutant of Failed: the error is logged and not counted against the run.
FailedQuietly(report) == [report EXCEPT !.dirty = TRUE]

\* r.record: the error enters the ledger, so the ledger differs from before.
Failed(report) == [report EXCEPT !.ok = FALSE, !.dirty = TRUE]

Goto(r, step) == pc' = [pc EXCEPT ![r] = step]

\* The next setting to write, or what follows the settings.
AfterSettings(r, rest) ==
    IF rest # {} THEN "intent"
    ELSE IF rcfg[r] = Invalid THEN "save" ELSE "events"

\* The run is over, by return or by death: the lock and the memory go with
\* the process.
Ended(r) ==
    /\ lock' = None
    /\ Goto(r, "idle")
    /\ dry'  = [dry  EXCEPT ![r] = FALSE]
    /\ mem'  = [mem  EXCEPT ![r] = None]
    /\ rcfg' = [rcfg EXCEPT ![r] = Invalid]
    /\ seen' = [seen EXCEPT ![r] = None]
    /\ obs'  = [obs  EXCEPT ![r] = Nothing]
    /\ todo' = [todo EXCEPT ![r] = {}]
    /\ goal' = [goal EXCEPT ![r] = Nothing]
    /\ rep'  = [rep  EXCEPT ![r] = NewReport]

\* Mutant of Saved: the save returns before the file is replaced.
SavedLater(l) == disk' \in {disk, l}

\* SaveState replaces the file, or fails before or after the rename.
Saved(l)      == disk' = l
SaveFailed(l) == disk' \in {disk, l}

-----------------------------------------------------------------------------
\* The decisions execute takes before it changes anything.

Decision(c, w, acKnown, procsKnown) ==
    PreventSleep([inside    |-> w.inside,
                  guard     |-> procsKnown /\ w.guard,
                  onAC      |-> acKnown /\ w.ac,
                  requireAC |-> c.requireAC])

\* An invalid configuration leaves only sleep to manage, an unknown power
\* source everything but sleep.
Applied(c, acKnown) ==
    IF c = Invalid THEN Settings \cap {"sleep"}
    ELSE IF acKnown THEN Settings ELSE Settings \ {"sleep"}

\* The schedule is schlaflos's own: it wrote one and still observes it.
Owned(l, s, o) == l.last[s] # None /\ Same(s, o, l.last[s])

\* Mutants of Target: the baseline forgotten; a schedule that is not its own
\* left alone though one is configured; nothing restored.
TargetWithoutBaseline(s, c, l, o, prevent) ==
    IF s = "sleep" THEN prevent ELSE c.wake
TargetIfOwned(s, c, l, o, prevent) ==
    IF s = "sleep" THEN l.base[s] \/ prevent
    ELSE IF l.last[s] # None /\ ~Owned(l, s, o) THEN None
    ELSE IF c.wake # None THEN c.wake ELSE None
TargetIfEnabled(s, c, l, o, prevent) ==
    IF s = "sleep" THEN l.base[s] \/ prevent ELSE c.wake

\* The value a setting should have, None to leave it alone.
Target(s, c, l, o, prevent) ==
    IF s = "sleep" THEN l.base[s] \/ prevent
    ELSE IF c.wake # None THEN c.wake
    ELSE IF Owned(l, s, o) THEN l.base[s] ELSE None

\* The conflict applySleep and applyWake report.
Drift(s, l, o) ==
    IF s = "sleep" THEN o # Expected(l, s)
    ELSE l.last[s] # None /\ ~Same(s, o, l.last[s])

\* Mutants of Differs: every run writes; days compared as masks even when only
\* their label is known.
DiffersAlways(s, o, t) == t # None
DiffersByMask(s, o, t) == t # None /\ o # t

Differs(s, o, t) == t # None /\ ~Same(s, o, t)

-----------------------------------------------------------------------------
\* Mutant of Start: the lock is not waited for.
StartUnlocked(r, d) ==
    /\ pc[r] = "idle"
    /\ d => r # Daemon
    /\ lock' = r
    /\ Goto(r, "load")
    /\ dry' = [dry EXCEPT ![r] = d]
    /\ UNCHANGED <<machine, files, rcfg, seen, mem, plans, drifted, budgets>>

\* FS.Lock: only a free lock is taken; a run that finds it held just exits.
\* launchd never passes --dry-run.
Start(r, d) ==
    /\ pc[r] = "idle"
    /\ lock = None
    /\ d => r # Daemon
    /\ lock' = r
    /\ Goto(r, "load")
    /\ dry' = [dry EXCEPT ![r] = d]
    /\ UNCHANGED <<machine, files, rcfg, seen, mem, plans, drifted, budgets>>

\* Mutant of Load: a run without a usable ledger goes on.
LoadAnyway(r) ==
    /\ pc[r] = "load"
    /\ mem' = [mem EXCEPT ![r] = disk]
    /\ Goto(r, "config")
    /\ UNCHANGED <<machine, files, lock, inputs, plans, drifted, budgets>>

\* Store.LoadState.  Without a usable ledger the run returns at once, leaving
\* even the status alone.
Load(r) ==
    /\ pc[r] = "load"
    /\ \/ /\ disk # None
          /\ mem' = [mem EXCEPT ![r] = disk]
          /\ Goto(r, "config")
          /\ Fine
          /\ UNCHANGED <<lock, inputs, plans>>
       \/ /\ IF disk = None THEN Fine ELSE Fault
          /\ Ended(r)
    /\ UNCHANGED <<machine, files, drifted, drifts, changes>>

\* The clock is read, then LoadInstalledConfig.  The power source and the
\* processes are taken at the same instant as the clock.
ReadConfig(r) ==
    /\ pc[r] = "config"
    /\ \/ rcfg' = [rcfg EXCEPT ![r] = cfg] /\ Fine
       \/ rcfg' = [rcfg EXCEPT ![r] = Invalid] /\ cfg # Invalid /\ Fault
    /\ seen' = [seen EXCEPT ![r] = world]
    /\ todo' = [todo EXCEPT ![r] = Settings]
    /\ Goto(r, "observe")
    /\ UNCHANGED <<machine, files, lock, dry, mem, obs, goal, rep, drifted,
                   drifts, changes>>

\* Power.SleepDisabled, Wake.Current and the resolution of an interrupted
\* write against what they return.
Observe(r) ==
    /\ pc[r] = "observe"
    /\ LET s == First(todo[r])
       IN  /\ \/ \E o \in Reading(s, sys[s]) :
                    /\ obs' = [obs EXCEPT ![r][s] = o]
                    /\ mem' = [mem EXCEPT ![r] = ResolvePending(@, s, o)]
                    /\ rep' = IF mem[r].pending[s] = None THEN rep
                              ELSE [rep EXCEPT ![r].dirty = TRUE]
                    /\ Fine
              \/ Fault /\ UNCHANGED <<obs, mem, rep>>
           /\ todo' = [todo EXCEPT ![r] = @ \ {s}]
           /\ Goto(r, IF todo[r] = {s} THEN "evaluate" ELSE "observe")
    /\ UNCHANGED <<machine, files, lock, inputs, goal, drifted, drifts, changes>>

\* What the run knows and wants once it has read everything.
Prevent(r, acKnown, procsKnown) ==
    rcfg[r] # Invalid /\ Decision(rcfg[r], seen[r], acKnown, procsKnown)

Known(r, acKnown) == {s \in Applied(rcfg[r], acKnown) : obs[r][s] # None}

Goal(r, s, prevent) == Target(s, rcfg[r], mem[r], obs[r][s], prevent)

\* The settings off their target, and those of them that can be written.
Off(r, acKnown, prevent) ==
    {s \in Known(r, acKnown) : Differs(s, obs[r][s], Goal(r, s, prevent))}

\* Mutant of ToWrite: a setting in conflict is not written.
ToWriteUnlessDrift(r, acKnown, prevent) ==
    {s \in Off(r, acKnown, prevent) :
        /\ Writable(s, Goal(r, s, prevent))
        /\ ~Drift(s, mem[r], obs[r][s])}

ToWrite(r, acKnown, prevent) ==
    {s \in Off(r, acKnown, prevent) : Writable(s, Goal(r, s, prevent))}

\* Mutant of Erred: an unknown power source is no error.
ErredSettings(r, acKnown, prevent) ==
    \/ rcfg[r] = Invalid
    \/ Known(r, acKnown) # Applied(rcfg[r], acKnown)
    \/ ToWrite(r, acKnown, prevent) # Off(r, acKnown, prevent)

\* An unknown power source, a failed read, a schedule that cannot be restored.
Erred(r, acKnown, prevent) ==
    \/ rcfg[r] = Invalid
    \/ ~acKnown
    \/ Known(r, acKnown) # Applied(rcfg[r], acKnown)
    \/ ToWrite(r, acKnown, prevent) # Off(r, acKnown, prevent)

\* policy.Evaluate and the part of applySleep and applyWake that precedes the
\* write: which settings are in conflict, which have to be written and to what.
\* A dry run ends here with nothing written.
Conclude(r, acKnown, prevent) ==
    \/ dry[r] /\ Ended(r)
    \/ /\ ~dry[r]
       /\ LET write == ToWrite(r, acKnown, prevent)
              drift == {s \in Known(r, acKnown) : Drift(s, mem[r], obs[r][s])}
              draft == [rep[r] EXCEPT !.requested = acKnown /\ prevent,
                                      !.source = acKnown, !.drift = drift]
          IN  /\ goal' = [goal EXCEPT ![r] = [s \in Settings |->
                             IF s \in write THEN Goal(r, s, prevent) ELSE None]]
              /\ todo' = [todo EXCEPT ![r] = write]
              /\ rep' = [rep EXCEPT ![r] =
                            IF Erred(r, acKnown, prevent) THEN Failed(draft)
                            ELSE draft]
              /\ Goto(r, AfterSettings(r, write))
       /\ UNCHANGED <<lock, inputs, mem, obs>>

\* The power source and the processes may each be unreadable; only the first
\* is an error.  Neither matters to an invalid configuration.
Evaluate(r) ==
    /\ pc[r] = "evaluate"
    /\ \E acKnown, procsKnown \in BOOLEAN :
          /\ IF acKnown /\ procsKnown THEN Fine ELSE rcfg[r] # Invalid /\ Fault
          /\ Conclude(r, acKnown, Prevent(r, acKnown, procsKnown))
    /\ UNCHANGED <<machine, files, drifted, drifts, changes>>

-----------------------------------------------------------------------------
\* One setting at a time: intent, write, commit.

\* This setting is finished with.
Finished(r, s) ==
    /\ todo' = [todo EXCEPT ![r] = @ \ {s}]
    /\ Goto(r, AfterSettings(r, todo[r] \ {s}))

\* Mutant of Intent: the intent stays in memory until the write is done.
IntentLater(r) ==
    /\ pc[r] = "intent"
    /\ LET s == First(todo[r])
       IN  mem' = [mem EXCEPT ![r] = WithIntent(@, s, goal[r][s])]
    /\ Goto(r, "write")
    /\ UNCHANGED <<machine, files, lock, inputs, plans, drifted, budgets>>

\* The intent is saved before the write.  When that fails it is withdrawn from
\* memory and nothing is written, though the file may already hold it.
Intent(r) ==
    /\ pc[r] = "intent"
    /\ LET s == First(todo[r])
           l == WithIntent(mem[r], s, goal[r][s])
       IN  \/ /\ Saved(l)
              /\ mem' = [mem EXCEPT ![r] = l]
              /\ Goto(r, "write")
              /\ Fine
              /\ UNCHANGED <<todo, rep>>
           \/ /\ SaveFailed(l)
              /\ mem' = [mem EXCEPT ![r] = WithoutIntent(@, s)]
              /\ rep' = [rep EXCEPT ![r] = Failed(@)]
              /\ Finished(r, s)
              /\ Fault
    /\ UNCHANGED <<machine, status, lock, inputs, obs, goal, drifted, drifts,
                   changes>>

\* SetSleepDisabled, Wake.Apply: the write and the read that verifies it.  The
\* write may have no effect and the verification may fail; either way only the
\* verification is seen, and a lossy label can satisfy it.  Without it the
\* intent stays recorded for the next run.
Write(r) ==
    /\ pc[r] = "write"
    /\ LET s == First(todo[r])
           v == goal[r][s]
       IN  \E effective, verified \in BOOLEAN :
           /\ IF effective
              THEN /\ sys' = [sys EXCEPT ![s] = v]
                   /\ drifted' = drifted \ {s}
              ELSE UNCHANGED <<sys, drifted>>
           /\ IF effective /\ verified THEN Fine ELSE Fault
           /\ \/ /\ verified
                 /\ Verified(s, sys'[s], v)
                 /\ mem' = [mem EXCEPT ![r] = Committed(@, s, v)]
                 /\ obs' = [obs EXCEPT ![r][s] = v]
                 /\ Goto(r, "commit")
                 /\ UNCHANGED <<todo, rep>>
              \/ /\ ~verified
                 /\ rep' = [rep EXCEPT ![r] = Failed(@)]
                 /\ Finished(r, s)
                 /\ UNCHANGED <<mem, obs>>
    /\ UNCHANGED <<events, world, cfg, files, lock, inputs, goal, drifts,
                   changes>>

\* The verified write is saved as the last one.
Commit(r) ==
    /\ pc[r] = "commit"
    /\ \/ /\ Saved(mem[r])
          /\ rep' = [rep EXCEPT ![r].dirty = TRUE]
          /\ Fine
       \/ /\ SaveFailed(mem[r])
          /\ rep' = [rep EXCEPT ![r] = Failed(@)]
          /\ Fault
    /\ Finished(r, First(todo[r]))
    /\ UNCHANGED <<machine, status, lock, inputs, mem, obs, goal, drifted,
                   drifts, changes>>

-----------------------------------------------------------------------------
\* applyWakeEvents.  The plan holds the events to reserve as of the clock the
\* run read; an owned event about to fire is left to powerd although the plan
\* no longer holds it.  Every call may fail on its own.
Interval(c) == c.wake # None /\ c.interval
Planned(c, w) == IF Interval(c) THEN w.plan ELSE {}
Spared(c, w)  == IF Interval(c) THEN w.soon ELSE {}

\* Cancel the extra reservations, make the missing ones.
Arrange(r, extra, missing) ==
    /\ pc[r] = "events"
    /\ \/ /\ events' = (events \ extra) \cup missing
          /\ Fine
          /\ UNCHANGED rep
       \/ /\ \E cancelled \in SUBSET extra, reserved \in SUBSET missing :
                events' = (events \ cancelled) \cup reserved
          /\ Fault
          /\ rep' = [rep EXCEPT ![r] = Failed(@)]
    /\ Goto(r, "save")
    /\ UNCHANGED <<sys, world, cfg, files, lock, inputs, mem, obs, todo, goal,
                   drifted, drifts, changes>>

\* Mutant of Events: reservations are made and never cancelled.
EventsReserved(r) ==
    Arrange(r, {}, Planned(rcfg[r], seen[r]) \ events)

Events(r) ==
    Arrange(r,
            events \ (Planned(rcfg[r], seen[r]) \cup Spared(rcfg[r], seen[r])),
            Planned(rcfg[r], seen[r]) \ events)

\* The ledger is saved when it differs from the one loaded.  RunOK has been
\* decided before, so a failure here is returned but not published.
Save(r) ==
    /\ pc[r] = "save"
    /\ \/ rep[r].dirty /\ Saved(mem[r]) /\ Fine
       \/ rep[r].dirty /\ SaveFailed(mem[r]) /\ Fault
       \/ ~rep[r].dirty /\ UNCHANGED disk /\ Fine
    /\ Goto(r, "status")
    /\ UNCHANGED <<machine, status, lock, inputs, mem, plans, drifted, drifts,
                   changes>>

\* WriteStatus, and the deferred release of the lock.
StatusOf(r) ==
    [mode      |-> "reconcile",
     wake      |-> IF rcfg[r] = Invalid THEN None ELSE rcfg[r].wake,
     observed  |-> obs[r],
     requested |-> rep[r].requested,
     drift     |-> rep[r].drift,
     ok        |-> rep[r].ok]

WriteStatus(r) ==
    /\ pc[r] = "status"
    /\ \/ status' = StatusOf(r) /\ Fine
       \/ status' \in {status, StatusOf(r)} /\ Fault
    /\ Ended(r)
    /\ UNCHANGED <<machine, disk, drifted, drifts, changes>>

Step(r) ==
    \/ Load(r)
    \/ ReadConfig(r)
    \/ Observe(r)
    \/ Evaluate(r)
    \/ Intent(r)
    \/ Write(r)
    \/ Commit(r)
    \/ Events(r)
    \/ Save(r)
    \/ WriteStatus(r)

-----------------------------------------------------------------------------
\* The environment.

\* The run is killed or times out: the kernel drops the lock.
Crash(r) ==
    /\ pc[r] # "idle"
    /\ Fault
    /\ Ended(r)
    /\ UNCHANGED <<machine, files, drifted, drifts, changes>>

\* state.json is removed or becomes unusable.
LoseLedger ==
    /\ disk # None
    /\ Fault
    /\ disk' = None
    /\ UNCHANGED <<machine, status, lock, pc, inputs, mem, plans, drifted,
                   drifts, changes>>

\* Another process changes a setting.
DriftAway(s) ==
    /\ drifts < MaxDrifts
    /\ drifts' = drifts + 1
    /\ \E v \in SystemValue(s) \ {sys[s]} : sys' = [sys EXCEPT ![s] = v]
    /\ drifted' = drifted \cup {s}
    /\ UNCHANGED <<events, world, cfg, files, lock, pc, inputs, mem, plans,
                   faults, changes>>

\* Time passes, power is plugged or unplugged, processes come and go.  A wake
\* event that was about to fire and no longer is has fired.
ChangeWorld ==
    /\ changes < MaxChanges
    /\ changes' = changes + 1
    /\ world' \in Worlds \ {world}
    /\ events' = events \ (world.soon \ world'.soon)
    /\ UNCHANGED <<sys, cfg, files, lock, pc, inputs, mem, plans, drifted,
                   faults, drifts>>

\* The installed configuration is replaced, or damaged.
ChangeConfig ==
    /\ changes < MaxChanges
    /\ changes' = changes + 1
    /\ cfg' \in (Configs \cup {Invalid}) \ {cfg}
    /\ UNCHANGED <<sys, events, world, files, lock, pc, inputs, mem, plans,
                   drifted, faults, drifts>>

Environment ==
    \/ \E r \in Runners : Crash(r)
    \/ LoseLedger
    \/ \E s \in Settings : DriftAway(s)
    \/ ChangeWorld
    \/ ChangeConfig

-----------------------------------------------------------------------------
\* Freshly installed: the baselines have been observed and saved, nothing has
\* been written.
Init ==
    /\ sys \in [Settings -> BOOLEAN \cup Exact]
    /\ \A s \in Settings : sys[s] \in SystemValue(s)
    /\ events = {}
    /\ world \in Worlds
    /\ cfg \in Configs
    /\ \E o \in [Settings -> AnyValue] :
          /\ \A s \in Settings : o[s] \in Reading(s, sys[s])
          /\ disk = NewLedger(o)
    /\ status = None
    /\ lock = None
    /\ pc   = [r \in Runners |-> "idle"]
    /\ dry  = [r \in Runners |-> FALSE]
    /\ mem  = [r \in Runners |-> None]
    /\ rcfg = [r \in Runners |-> Invalid]
    /\ seen = [r \in Runners |-> None]
    /\ obs  = [r \in Runners |-> Nothing]
    /\ todo = [r \in Runners |-> {}]
    /\ goal = [r \in Runners |-> Nothing]
    /\ rep  = [r \in Runners |-> NewReport]
    /\ drifted = {}
    /\ faults = 0
    /\ drifts = 0
    /\ changes = 0

Next ==
    \/ \E r \in Runners, d \in BOOLEAN : Start(r, d)
    \/ \E r \in Runners : Step(r)
    \/ Environment

Spec == Init /\ [][Next]_vars

\* A run that has begun goes on: its calls return or time out.  launchd keeps
\* starting the daemon (StartInterval), and though a start that finds the lock
\* held gives up, other runs are short and cannot be in the way every time.
Fairness ==
    /\ \A r \in Runners : WF_vars(Step(r))
    /\ SF_vars(Start(Daemon, FALSE))

FairSpec == Spec /\ Fairness

-----------------------------------------------------------------------------
MachineOK ==
    /\ sys \in [Settings -> BOOLEAN \cup Exact]
    /\ \A s \in Settings : sys[s] \in SystemValue(s)
    /\ events \subseteq Slots
    /\ world \in Worlds
    /\ cfg \in Configs \cup {Invalid}
    /\ drifted \subseteq Settings

FilesOK ==
    /\ disk = None \/ IsLedger(disk)
    /\ status \in Statuses \cup {None}

InputsOK ==
    /\ lock \in Runners \cup {None}
    /\ pc \in [Runners -> Steps]
    /\ dry \in [Runners -> BOOLEAN]
    /\ rcfg \in [Runners -> Configs \cup {Invalid}]
    /\ seen \in [Runners -> Worlds \cup {None}]

MemoryOK ==
    /\ DOMAIN mem = Runners
    /\ \A r \in Runners :
          IF pc[r] \in {"idle", "load"} THEN mem[r] = None ELSE IsLedger(mem[r])

PlansOK ==
    /\ obs \in [Runners -> [Settings -> AnyValue \cup {None}]]
    /\ todo \in [Runners -> SUBSET Settings]
    /\ goal \in [Runners -> [Settings -> AnyValue \cup {None}]]
    /\ \A r \in Runners : \A s \in Settings :
          /\ obs[r][s] \in Observation(s) \cup {None}
          /\ goal[r][s] \in SystemValue(s) \cup {None}
    /\ rep \in [Runners -> Report]

BudgetsOK ==
    /\ faults \in 0..MaxFaults
    /\ drifts \in 0..MaxDrifts
    /\ changes \in 0..MaxChanges

\* Every variable holds a value of its kind; a run past LoadState has a ledger
\* in memory, and what it is about to write is exactly known.
TypeOK == MachineOK /\ FilesOK /\ InputsOK /\ MemoryOK /\ PlansOK /\ BudgetsOK

\* Manual and scheduled reconciliations never overlap: whoever is past Lock
\* holds the lock (security.md, "Concurrency").
OneReconciler == \A r \in Runners : pc[r] # "idle" => lock = r

\* Wherever a run was killed or a call failed, the ledger on disk accounts for
\* every setting that nobody else has changed: schlaflos never leaves a value
\* of its own behind that its next run would take for somebody else's.
LedgerAccounts ==
    disk # None => \A s \in Settings \ drifted : Accounts(disk, s, sys[s])

\* The run implements the write-ahead protocol of Ownership: no setting is ever
\* written before its value is announced on disk, the ledger takes over nothing
\* as written that it had not announced, and no baseline is ever replaced.
Promise == INSTANCE Ownership
              WITH value <- sys, ledger <- disk, foreign <- drifted

ImplementsOwnership == Promise!Spec

\* A sleep inhibition that was in force before installation is never released
\* by schlaflos, whatever the policy, the configuration and the failures.
BaselineRespected ==
    (/\ "sleep" \in Settings \ drifted
     /\ disk # None
     /\ disk.base["sleep"]) => sys["sleep"]

\* A conflict is a foreign change: a run blames another process only for a
\* setting another process did change, never for what an earlier run of its own
\* left unfinished.  The days of the schedule have to have a name of their own:
\* one that shares its label can be adopted in place of another.
ConflictsAreForeign ==
    [][\A r \in Runners : \A s \in rep'[r].drift \ rep[r].drift :
          s \in drifted \/ (s = "wake" /\ Label(sys[s]) \in Lossy)]_vars

\* A status that says the run went well shows each setting as it is, unless
\* another process has changed it, and sleep is inhibited exactly when
\* schlaflos requests it or the baseline had it inhibited.
StatusTruthful ==
    [][status' # status /\ status'.ok =>
          \A s \in Settings \ drifted :
             /\ Look(s, status'.observed[s]) = Look(s, sys[s])
             /\ s = "sleep" /\ disk # None =>
                   (sys[s] <=> status'.requested \/ disk.base[s])]_vars

\* llms.txt:184 says of the status: "`requested = false` with `observed = true`
\* means the pre-install baseline was already `disablesleep = 1`".
NotRequestedMeansBaseline ==
    [][(/\ "sleep" \in Settings
        /\ disk # None
        /\ status' # status
        /\ ~status'.requested
        /\ status'.observed["sleep"] = TRUE) => disk.base["sleep"]]_vars

-----------------------------------------------------------------------------
\* What the settings should be, judging from the present world.

SleepAsDecided ==
    sys["sleep"] =
       (\/ disk.base["sleep"]
        \/ cfg # Invalid /\ Decision(cfg, world, TRUE, TRUE))

WakeAsConfigured ==
    cfg # Invalid /\ cfg.wake # None =>
       Label(sys["wake"]) = Label(cfg.wake)

EventsAsPlanned ==
    cfg # Invalid =>
       /\ Planned(cfg, world) \subseteq events
       /\ events \subseteq Planned(cfg, world) \cup Spared(cfg, world)

\* Once failures and changes cease, reconciliation brings the settings to the
\* policy and keeps them there, unless the ledger has been lost.
SettingsConverge ==
    <>[](\/ disk = None
         \/ /\ "sleep" \in Settings => SleepAsDecided
            /\ "wake" \in Settings => WakeAsConfigured)

\* Likewise the reservations come to be those of the plan, through failed calls,
\* the margin before an event fires and the interval being switched off.
EventsConverge == <>[](disk = None \/ EventsAsPlanned)

\* With wake scheduling disabled the schedule ends up as it was before
\* installation, unless that is not known exactly, somebody else has changed
\* it, or every later status reports it as a conflict.
HandsBack ==
    <>[](\/ "wake" \notin Settings \/ disk = None \/ cfg = Invalid
         \/ cfg # Invalid /\ cfg.wake # None
         \/ ~IsExact(disk.base["wake"])
         \/ "wake" \in drifted
         \/ status # None /\ "wake" \in status.drift
         \/ Label(sys["wake"]) = Label(disk.base["wake"]))

\* Reconciliation is idempotent: in the end runs still run but none writes a
\* setting any more.
ComesToRest == <>[](\A r \in Runners : pc[r] \notin {"intent", "write"})
=============================================================================
