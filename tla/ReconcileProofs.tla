--------------------------- MODULE ReconcileProofs ---------------------------
(***************************************************************************)
(* Proofs about Reconcile, for every set of runners, every configuration,  *)
(* every assignment of labels to schedules and every bound.                *)
(***************************************************************************)
EXTENDS Reconcile, TLAPS

-----------------------------------------------------------------------------
\* Facts about schedules and observations.

\* Whatever is read of a value looks like the value.
LEMMA ReadingLooks ==
    ASSUME NEW s \in Settings, NEW v \in SystemValue(s), NEW o \in Reading(s, v)
    PROVE  o \in Observation(s) /\ Look(s, o) = Look(s, v)
BY ScheduleAssumption, SettingsAssumption
DEF SystemValue, Reading, Observation, Look, Current, Label, Schedules

\* Values the code takes for the same look the same.
LEMMA SameLooks ==
    ASSUME NEW s, NEW a, NEW b, Same(s, a, b)
    PROVE  Look(s, a) = Look(s, b)
BY DEF Same, Look, Equal

\* A reading of the very value in question is taken for it.
LEMMA ReadingSame ==
    ASSUME NEW s \in Settings, NEW v \in SystemValue(s), NEW o \in Reading(s, v)
    PROVE  Same(s, o, v)
<1>1. CASE s = "sleep"
  BY <1>1 DEF Reading, Same
<1>2. CASE s # "sleep"
  <2>1. v \in Exact /\ o \in {v, Label(v)}
    BY <1>2 DEF SystemValue, Reading, Current
  <2>2. CASE o = v
    BY <1>2, <2>1, <2>2 DEF Same, Equal, IsExact
  <2>3. CASE o = Label(v) /\ o # v
    <3>1. o \in Lossy /\ o \notin Exact
      BY <2>1, <2>3, ScheduleAssumption DEF Label
    <3>2. Label(o) = o
      BY <3>1 DEF Label
    <3> QED
      BY <1>2, <2>1, <2>3, <3>1, <3>2 DEF Same, Equal, IsExact
  <2> QED
    BY <2>1, <2>2, <2>3
<1> QED
  BY <1>1, <1>2

\* Facts about the ledger: every operation on it yields a ledger.
LEMMA NewLedgerType ==
    ASSUME NEW o \in [Settings -> AnyValue],
           \A s \in Settings : o[s] \in Observation(s)
    PROVE  IsLedger(NewLedger(o))
BY DEF IsLedger, Ledgers, NewLedger

LEMMA WithIntentType ==
    ASSUME NEW l, IsLedger(l), NEW s \in Settings, NEW v \in SystemValue(s)
    PROVE  IsLedger(WithIntent(l, s, v))
BY ScheduleAssumption
DEF IsLedger, Ledgers, WithIntent, SystemValue, AnyValue, Schedules

LEMMA WithoutIntentType ==
    ASSUME NEW l, IsLedger(l), NEW s \in Settings
    PROVE  IsLedger(WithoutIntent(l, s))
BY DEF IsLedger, Ledgers, WithoutIntent

LEMMA CommittedType ==
    ASSUME NEW l, IsLedger(l), NEW s \in Settings, NEW v \in SystemValue(s)
    PROVE  IsLedger(Committed(l, s, v))
BY ScheduleAssumption
DEF IsLedger, Ledgers, Committed, SystemValue, AnyValue, Schedules

LEMMA ResolvePendingType ==
    ASSUME NEW l, IsLedger(l), NEW s \in Settings, NEW o
    PROVE  IsLedger(ResolvePending(l, s, o))
<1>1. l.pending[s] \in SystemValue(s) \cup {None}
  BY DEF IsLedger, Ledgers
<1> QED
  BY <1>1, CommittedType, WithoutIntentType DEF ResolvePending

-----------------------------------------------------------------------------
\* The control of a run: it holds the lock, it has a setting to work on when
\* its step needs one, and a value to write when it is about to write.
Working(r) ==
    /\ pc[r] # "idle" => lock = r
    /\ pc[r] \in {"observe", "intent", "write", "commit"} => todo[r] # {}
    /\ pc[r] \in {"intent", "write", "commit"} =>
          \A s \in todo[r] : goal[r][s] # None
    /\ pc[r] \notin {"idle", "load", "config"} => seen[r] \in Worlds

Control == \A r \in Runners : Working(r)

LEMMA FirstIsIn ==
    ASSUME NEW T, T \subseteq Settings, T # {}
    PROVE  First(T) \in T
BY SettingsAssumption DEF First

\* A failure is counted within its bound.
LEMMA FaultType == BudgetsOK /\ (Fine \/ Fault) => faults' \in 0..MaxFaults
BY ReconcileAssumption DEF BudgetsOK, Fine, Fault

\* What a run that ends leaves of its locals.
LEMMA EndedType ==
    ASSUME TypeOK, Control, NEW r \in Runners, pc[r] # "idle", Ended(r)
    PROVE  /\ lock' = None
           /\ \A q \in Runners : pc'[q] = "idle"
           /\ InputsOK'
           /\ MemoryOK'
           /\ PlansOK'
           /\ Control'
<1> USE DEF TypeOK, Ended, Goto
<1>1. \A q \in Runners \ {r} : pc[q] = "idle"
  BY DEF Control, Working, InputsOK
<1>2. pc' \in [Runners -> Steps] /\ \A q \in Runners : pc'[q] = "idle"
  BY <1>1 DEF Steps, InputsOK
<1>3. InputsOK'
  BY <1>2 DEF InputsOK
<1>4. MemoryOK'
  BY <1>1, <1>2 DEF MemoryOK
<1>5. PlansOK'
  <2>1. /\ obs' \in [Runners -> [Settings -> AnyValue \cup {None}]]
        /\ goal' \in [Runners -> [Settings -> AnyValue \cup {None}]]
    BY DEF PlansOK, Nothing
  <2>2. \A q \in Runners : \A s \in Settings :
           /\ obs'[q][s] \in Observation(s) \cup {None}
           /\ goal'[q][s] \in SystemValue(s) \cup {None}
    BY DEF PlansOK, Nothing
  <2>3. rep' \in [Runners -> Report]
    BY DEF PlansOK, NewReport, Report
  <2>4. todo' \in [Runners -> SUBSET Settings]
    BY DEF PlansOK
  <2> QED
    BY <2>1, <2>2, <2>3, <2>4 DEF PlansOK
<1>6. Control'
  BY <1>2 DEF Control, Working
<1> QED
  BY <1>2, <1>3, <1>4, <1>5, <1>6

\* What a run sets out to write is a value the setting can have.
LEMMA GoalType ==
    ASSUME TypeOK, NEW r \in Runners, pc[r] = "evaluate",
           NEW acKnown \in BOOLEAN, NEW prevent \in BOOLEAN,
           NEW s \in ToWrite(r, acKnown, prevent)
    PROVE  s \in Settings /\ Goal(r, s, prevent) \in SystemValue(s)
<1>1. s \in Settings /\ Writable(s, Goal(r, s, prevent))
  BY DEF ToWrite, Off, Known, Applied
<1>2. IsLedger(mem[r])
  BY DEF TypeOK, MemoryOK
<1>3. CASE s = "sleep"
  <2>1. mem[r].base[s] \in BOOLEAN
    BY <1>1, <1>2, <1>3 DEF IsLedger, Ledgers, Observation
  <2> QED
    BY <1>1, <1>3, <2>1 DEF Goal, Target, SystemValue
<1>4. CASE s # "sleep"
  BY <1>1, <1>4 DEF Writable, IsExact, SystemValue
<1> QED
  BY <1>3, <1>4

LEMMA DraftType ==
    ASSUME NEW report \in Report, NEW requested \in BOOLEAN,
           NEW source \in BOOLEAN, NEW drift \in SUBSET Settings
    PROVE  [report EXCEPT !.requested = requested, !.source = source,
                          !.drift = drift] \in Report
BY DEF Report

\* What a run publishes is a status.
LEMMA StatusOfType ==
    ASSUME InputsOK, PlansOK, NEW r \in Runners
    PROVE  StatusOf(r) \in Statuses
<1>1. (IF rcfg[r] = Invalid THEN None ELSE rcfg[r].wake) \in Exact \cup {None}
  BY ReconcileAssumption DEF InputsOK
<1>2. obs[r] \in [Settings -> AnyValue \cup {None}] /\ rep[r] \in Report
  BY DEF PlansOK
<1> QED
  BY <1>1, <1>2 DEF StatusOf, Statuses, Report, Modes

LEMMA ReportType ==
    ASSUME NEW report \in Report
    PROVE  Failed(report) \in Report /\ [report EXCEPT !.dirty = TRUE] \in Report
BY DEF Report, Failed

LEMMA ReportsType ==
    ASSUME PlansOK, NEW r \in Runners,
           \/ rep' = rep
           \/ rep' = [rep EXCEPT ![r] = Failed(rep[r])]
           \/ rep' = [rep EXCEPT ![r] = [rep[r] EXCEPT !.dirty = TRUE]]
    PROVE  rep' \in [Runners -> Report]
<1>1. rep[r] \in Report /\ rep \in [Runners -> Report]
  BY DEF PlansOK
<1>2. Failed(rep[r]) \in Report /\ [rep[r] EXCEPT !.dirty = TRUE] \in Report
  BY <1>1, ReportType
<1> QED
  BY <1>1, <1>2

LEMMA ObservationsType ==
    ASSUME PlansOK, NEW r \in Runners, NEW s \in Settings,
           NEW o \in Observation(s),
           obs' = obs \/ obs' = [obs EXCEPT ![r][s] = o]
    PROVE  /\ obs' \in [Runners -> [Settings -> AnyValue \cup {None}]]
           /\ \A q \in Runners : \A t \in Settings :
                 obs'[q][t] \in Observation(t) \cup {None}
<1>1. o \in AnyValue
  BY DEF Observation, AnyValue
<1>2. [obs[r] EXCEPT ![s] = o] \in [Settings -> AnyValue \cup {None}]
  BY <1>1 DEF PlansOK
<1>3. obs' \in [Runners -> [Settings -> AnyValue \cup {None}]]
  BY <1>2 DEF PlansOK
<1> QED
  BY <1>1, <1>3 DEF PlansOK

LEMMA InitControl == Init => TypeOK /\ Control
<1> SUFFICES ASSUME Init PROVE TypeOK /\ Control
  OBVIOUS
<1>1. PICK o \in [Settings -> AnyValue] :
         /\ \A s \in Settings : o[s] \in Reading(s, sys[s])
         /\ disk = NewLedger(o)
  BY DEF Init
<1>2. IsLedger(disk)
  <2>1. \A s \in Settings : o[s] \in Observation(s)
    BY <1>1, ReadingLooks DEF Init
  <2> QED
    BY <1>1, <2>1, NewLedgerType
<1>3. MachineOK /\ FilesOK
  BY <1>2 DEF Init, MachineOK, FilesOK
<1>4. InputsOK /\ MemoryOK /\ PlansOK
  BY DEF Init, InputsOK, MemoryOK, PlansOK, Steps, Nothing, NewReport, Report
<1>5. BudgetsOK
  BY ReconcileAssumption DEF Init, BudgetsOK
<1>6. Control
  BY DEF Init, Control, Working
<1> QED
  BY <1>3, <1>4, <1>5, <1>6 DEF TypeOK

LEMMA StepControl == TypeOK /\ Control /\ [Next]_vars => TypeOK' /\ Control'
<1> SUFFICES ASSUME TypeOK, Control, [Next]_vars PROVE TypeOK' /\ Control'
  OBVIOUS
<1> USE DEF machine, files, inputs, plans, budgets, TypeOK
<1>1. ASSUME NEW r \in Runners, NEW d \in BOOLEAN, Start(r, d)
      PROVE  TypeOK' /\ Control'
  <2> USE <1>1 DEF Start, Goto
  <2>1. MachineOK' /\ FilesOK' /\ PlansOK' /\ BudgetsOK'
    BY DEF MachineOK, FilesOK, PlansOK, BudgetsOK
  <2>2. InputsOK' /\ MemoryOK'
    BY DEF InputsOK, MemoryOK, Steps
  <2>3. Control'
    BY ReconcileAssumption DEF InputsOK, Control, Working
  <2> QED BY <2>1, <2>2, <2>3
<1>2. ASSUME NEW r \in Runners, Load(r) PROVE TypeOK' /\ Control'
  <2> USE <1>2 DEF Load
  <2>1. MachineOK' /\ FilesOK' /\ BudgetsOK'
    BY FaultType DEF MachineOK, FilesOK, BudgetsOK
  <2>2. CASE Ended(r)
    BY <2>1, <2>2, EndedType
  <2>3. CASE disk # None /\ mem' = [mem EXCEPT ![r] = disk] /\ Goto(r, "config")
             /\ UNCHANGED <<lock, inputs, plans>>
    <3>1. InputsOK' /\ MemoryOK' /\ PlansOK'
      BY <2>3 DEF Goto, FilesOK, InputsOK, MemoryOK, PlansOK, Steps
    <3>2. Control'
      BY <2>3 DEF Goto, InputsOK, Control, Working
    <3> QED BY <2>1, <3>1, <3>2
  <2> QED
    BY <2>2, <2>3
<1>3. ASSUME NEW r \in Runners, ReadConfig(r) PROVE TypeOK' /\ Control'
  <2> USE <1>3 DEF ReadConfig, Goto
  <2>1. MachineOK' /\ FilesOK' /\ BudgetsOK'
    BY FaultType DEF MachineOK, FilesOK, BudgetsOK
  <2>2. InputsOK' /\ MemoryOK'
    BY DEF MachineOK, InputsOK, MemoryOK, Steps
  <2>3. PlansOK'
    BY DEF PlansOK
  <2>4. Control'
    BY ReconcileAssumption DEF MachineOK, InputsOK, PlansOK, Control, Working
  <2> QED BY <2>1, <2>2, <2>3, <2>4
<1>4. ASSUME NEW r \in Runners, Observe(r) PROVE TypeOK' /\ Control'
  <2> DEFINE s == First(todo[r])
  <2> USE <1>4 DEF Observe, Goto
  <2>1. s \in Settings /\ s \in todo[r]
    BY FirstIsIn DEF Control, Working, PlansOK
  <2>2. MachineOK' /\ FilesOK' /\ BudgetsOK'
    BY FaultType DEF MachineOK, FilesOK, BudgetsOK
  <2>3. InputsOK'
    BY DEF InputsOK, Steps
  <2>4. IsLedger(mem[r])
    BY DEF MemoryOK
  <2>5. ASSUME UNCHANGED <<obs, mem, rep>>
        PROVE  MemoryOK' /\ PlansOK'
    BY <2>5 DEF MemoryOK, InputsOK, PlansOK
  <2>6. ASSUME NEW o \in Reading(s, sys[s]),
               obs' = [obs EXCEPT ![r][s] = o],
               mem' = [mem EXCEPT ![r] = ResolvePending(@, s, o)],
               rep' = IF mem[r].pending[s] = None THEN rep
                      ELSE [rep EXCEPT ![r].dirty = TRUE]
        PROVE  MemoryOK' /\ PlansOK'
    <3>1. o \in Observation(s) /\ o \in AnyValue
      BY <2>1, <2>6, ReadingLooks DEF MachineOK, Observation, AnyValue
    <3>2. IsLedger(ResolvePending(mem[r], s, o))
      BY <2>1, <2>4, ResolvePendingType
    <3>3. MemoryOK'
      <4>1. mem'[r] = ResolvePending(mem[r], s, o) /\ IsLedger(mem'[r])
        BY <2>6, <3>2 DEF MemoryOK
      <4>2. DOMAIN mem' = Runners /\ \A q \in Runners \ {r} : mem'[q] = mem[q]
        BY <2>6 DEF MemoryOK
      <4> HIDE DEF s
      <4>3. pc'[r] \notin {"idle", "load"}
            /\ \A q \in Runners \ {r} : pc'[q] = pc[q]
        BY DEF InputsOK
      <4> QED BY <4>1, <4>2, <4>3 DEF MemoryOK
    <3>4. rep' \in [Runners -> Report]
      BY <2>6, ReportsType
    <3>5. /\ obs' \in [Runners -> [Settings -> AnyValue \cup {None}]]
          /\ \A q \in Runners : \A t \in Settings :
                obs'[q][t] \in Observation(t) \cup {None}
      BY <2>1, <2>6, <3>1, ObservationsType
    <3> QED BY <3>3, <3>4, <3>5 DEF PlansOK
  <2>7. MemoryOK' /\ PlansOK'
    BY <2>5, <2>6
  <2>8. Control'
    BY <2>1 DEF InputsOK, PlansOK, Control, Working
  <2> QED BY <2>2, <2>3, <2>7, <2>8
<1>5. ASSUME NEW r \in Runners, Evaluate(r) PROVE TypeOK' /\ Control'
  <2>1. PICK acKnown \in BOOLEAN, procsKnown \in BOOLEAN :
           /\ Fine \/ Fault
           /\ Conclude(r, acKnown, Prevent(r, acKnown, procsKnown))
    BY <1>5 DEF Evaluate
  <2> DEFINE prevent == Prevent(r, acKnown, procsKnown)
  <2> HIDE DEF prevent
  <2>2. MachineOK' /\ FilesOK' /\ BudgetsOK'
    BY <1>5, <2>1, FaultType DEF Evaluate, MachineOK, FilesOK, BudgetsOK
  <2>3. CASE Ended(r)
    BY <1>5, <2>2, <2>3, EndedType DEF Evaluate
  <2>4. CASE ~Ended(r)
    <3>1. PICK write : /\ write = ToWrite(r, acKnown, prevent)
                       /\ goal' = [goal EXCEPT ![r] = [s \in Settings |->
                             IF s \in write THEN Goal(r, s, prevent) ELSE None]]
                       /\ todo' = [todo EXCEPT ![r] = write]
                       /\ Goto(r, AfterSettings(r, write))
                       /\ UNCHANGED <<lock, inputs, mem, obs>>
      BY <2>1, <2>4 DEF Conclude, prevent
    <3>2. write \subseteq Settings /\ \A s \in write : Goal(r, s, prevent) # None
      BY <3>1 DEF ToWrite, Off, Known, Applied, Differs
    <3>3. \A s \in write : Goal(r, s, prevent) \in SystemValue(s)
      <4>1. prevent \in BOOLEAN
        BY DEF prevent, Prevent
      <4> QED BY <1>5, <3>1, <4>1, GoalType DEF Evaluate
    <3>4. InputsOK' /\ MemoryOK'
      BY <1>5, <3>1
      DEF Evaluate, Goto, AfterSettings, InputsOK, MemoryOK, Steps
    <3>5. rep' \in [Runners -> Report]
      <4> DEFINE drift == {s \in Known(r, acKnown) : Drift(s, mem[r], obs[r][s])}
                 requested == acKnown /\ prevent
                 draft == [rep[r] EXCEPT !.requested = requested,
                                         !.source = acKnown, !.drift = drift]
      <4>1. drift \in SUBSET Settings
        BY DEF Known, Applied
      <4>2. requested \in BOOLEAN
        OBVIOUS
      <4>3. draft \in Report /\ Failed(draft) \in Report
        BY <4>1, <4>2, DraftType, ReportType DEF PlansOK
      <4>4. rep' = [rep EXCEPT ![r] = draft] \/ rep' = [rep EXCEPT ![r] = Failed(draft)]
        BY <2>1, <2>4 DEF Conclude, prevent
      <4> QED BY <4>3, <4>4 DEF PlansOK
    <3>6. PlansOK'
      BY <3>1, <3>2, <3>3, <3>5, ScheduleAssumption
      DEF PlansOK, SystemValue, AnyValue, Schedules
    <3>7. Control'
      BY <1>5, <3>1, <3>2
      DEF Evaluate, Goto, AfterSettings, InputsOK, PlansOK, Control, Working
    <3> QED BY <2>2, <3>4, <3>6, <3>7
  <2> QED BY <2>3, <2>4
<1>6. ASSUME NEW r \in Runners, Intent(r) PROVE TypeOK' /\ Control'
  <2> DEFINE s == First(todo[r])
             l == WithIntent(mem[r], s, goal[r][s])
  <2>1. s \in Settings /\ s \in todo[r] /\ goal[r][s] \in SystemValue(s)
    BY <1>6, FirstIsIn DEF Intent, Control, Working, PlansOK
  <2>2. IsLedger(mem[r]) /\ IsLedger(l) /\ IsLedger(WithoutIntent(mem[r], s))
    BY <1>6, <2>1, WithIntentType, WithoutIntentType DEF Intent, MemoryOK
  <2> HIDE DEF s, l
  <2>3. MachineOK' /\ BudgetsOK'
    BY <1>6, FaultType DEF Intent, MachineOK, BudgetsOK
  <2>4. FilesOK'
    BY <1>6, <2>2 DEF Intent, FilesOK, Saved, SaveFailed, s, l
  <2>5. InputsOK'
    BY <1>6 DEF Intent, Finished, Goto, AfterSettings, InputsOK, Steps
  <2>6. /\ mem' = [mem EXCEPT ![r] = l]
           \/ mem' = [mem EXCEPT ![r] = WithoutIntent(mem[r], s)]
        /\ pc'[r] \notin {"idle", "load"}
        /\ \A q \in Runners \ {r} : pc'[q] = pc[q]
    BY <1>6 DEF Intent, Finished, Goto, AfterSettings, InputsOK, s, l
  <2>7. MemoryOK'
    BY <2>2, <2>6 DEF MemoryOK
  <2>8. PlansOK'
    <3>1. rep' = rep \/ rep' = [rep EXCEPT ![r] = Failed(rep[r])]
      BY <1>6 DEF Intent
    <3>2. rep' \in [Runners -> Report]
      BY <3>1, ReportsType
    <3>3. todo' = todo \/ todo' = [todo EXCEPT ![r] = @ \ {s}]
      BY <1>6 DEF Intent, Finished, s
    <3> QED
      BY <1>6, <3>2, <3>3 DEF Intent, PlansOK
  <2>9. Control'
    BY <1>6 DEF Intent, Finished, Goto, AfterSettings, InputsOK, PlansOK,
                Control, Working
  <2> QED BY <2>3, <2>4, <2>5, <2>7, <2>8, <2>9
<1>7. ASSUME NEW r \in Runners, Write(r) PROVE TypeOK' /\ Control'
  <2> DEFINE s == First(todo[r])
             v == goal[r][s]
  <2>1. s \in Settings /\ s \in todo[r] /\ v \in SystemValue(s)
    BY <1>7, FirstIsIn DEF Write, Control, Working, PlansOK
  <2>2. IsLedger(mem[r]) /\ IsLedger(Committed(mem[r], s, v))
    BY <1>7, <2>1, CommittedType DEF Write, MemoryOK
  <2>3. v \in BOOLEAN \cup Exact /\ v \in AnyValue /\ v \in Observation(s)
    BY <2>1 DEF SystemValue, AnyValue, Schedules, Observation
  <2> HIDE DEF s, v
  <2>4. /\ sys' = sys \/ sys' = [sys EXCEPT ![s] = v]
        /\ drifted' = drifted \/ drifted' = drifted \ {s}
        /\ Fine \/ Fault
        /\ mem' = mem \/ mem' = [mem EXCEPT ![r] = Committed(mem[r], s, v)]
        /\ obs' = obs \/ obs' = [obs EXCEPT ![r][s] = v]
        /\ rep' = rep \/ rep' = [rep EXCEPT ![r] = Failed(rep[r])]
        /\ \/ Goto(r, "commit") /\ todo' = todo
           \/ Finished(r, s)
        /\ UNCHANGED <<events, world, cfg, files, lock, inputs, goal, drifts,
                       changes>>
    BY <1>7 DEF Write, s, v
  <2>5. MachineOK' /\ FilesOK' /\ BudgetsOK'
    BY <2>1, <2>3, <2>4, FaultType DEF MachineOK, FilesOK, BudgetsOK
  <2>6. InputsOK'
    BY <2>4 DEF Finished, Goto, AfterSettings, InputsOK, Steps
  <2>7. pc'[r] \notin {"idle", "load"} /\ \A q \in Runners \ {r} : pc'[q] = pc[q]
    BY <2>4 DEF Finished, Goto, AfterSettings, InputsOK
  <2>8. MemoryOK'
    BY <2>2, <2>4, <2>7 DEF MemoryOK
  <2>9. PlansOK'
    <3>1. rep' \in [Runners -> Report]
      BY <2>4, ReportsType
    <3>2. todo' = todo \/ todo' = [todo EXCEPT ![r] = @ \ {s}]
      BY <2>4 DEF Finished
    <3>3. todo' \in [Runners -> SUBSET Settings]
      BY <3>2 DEF PlansOK
    <3>4. /\ obs' \in [Runners -> [Settings -> AnyValue \cup {None}]]
          /\ \A q \in Runners : \A t \in Settings :
                obs'[q][t] \in Observation(t) \cup {None}
      BY <2>1, <2>3, <2>4, ObservationsType
    <3> QED
      BY <2>4, <3>1, <3>3, <3>4 DEF PlansOK
  <2>10. Control'
    BY <1>7, <2>4 DEF Write, Finished, Goto, AfterSettings, InputsOK, PlansOK,
                Control, Working
  <2> QED BY <2>5, <2>6, <2>8, <2>9, <2>10
<1>8. ASSUME NEW r \in Runners, Commit(r) PROVE TypeOK' /\ Control'
  <2> DEFINE s == First(todo[r])
  <2>1. IsLedger(mem[r])
    BY <1>8 DEF Commit, MemoryOK
  <2> HIDE DEF s
  <2>2. MachineOK' /\ FilesOK' /\ BudgetsOK'
    BY <1>8, <2>1, FaultType
    DEF Commit, MachineOK, FilesOK, BudgetsOK, Saved, SaveFailed
  <2>3. InputsOK' /\ MemoryOK'
    BY <1>8
    DEF Commit, Finished, Goto, AfterSettings, InputsOK, MemoryOK, Steps
  <2>4. PlansOK'
    <3>1. \/ rep' = [rep EXCEPT ![r] = [rep[r] EXCEPT !.dirty = TRUE]]
          \/ rep' = [rep EXCEPT ![r] = Failed(rep[r])]
      BY <1>8 DEF Commit
    <3>2. rep' \in [Runners -> Report]
      BY <3>1, ReportsType
    <3> QED
      BY <1>8, <3>2 DEF Commit, Finished, PlansOK
  <2>5. Control'
    BY <1>8 DEF Commit, Finished, Goto, AfterSettings, InputsOK, PlansOK,
                Control, Working
  <2> QED BY <2>2, <2>3, <2>4, <2>5
<1>9. ASSUME NEW r \in Runners, Events(r) PROVE TypeOK' /\ Control'
  <2>1. events' \subseteq Slots
    <3>1. Planned(rcfg[r], seen[r]) \subseteq Slots
      <4>1. seen[r] \in Worlds
        BY <1>9 DEF Events, Arrange, Control, Working
      <4> QED BY <4>1, ReconcileAssumption DEF Planned
    <3> QED BY <1>9, <3>1 DEF Events, Arrange, MachineOK
  <2>2. MachineOK' /\ FilesOK' /\ BudgetsOK'
    BY <1>9, <2>1, FaultType DEF Events, Arrange, MachineOK, FilesOK, BudgetsOK
  <2>3. InputsOK' /\ MemoryOK'
    BY <1>9 DEF Events, Arrange, Goto, InputsOK, MemoryOK, Steps
  <2>4. rep' \in [Runners -> Report]
    BY <1>9, ReportsType DEF Events, Arrange
  <2>5. PlansOK'
    BY <1>9, <2>4 DEF Events, Arrange, PlansOK
  <2>6. Control'
    BY <1>9 DEF Events, Arrange, Goto, InputsOK, Control, Working
  <2> QED BY <2>2, <2>3, <2>5, <2>6
<1>10. ASSUME NEW r \in Runners, Save(r) PROVE TypeOK' /\ Control'
  <2>1. IsLedger(mem[r])
    BY <1>10 DEF Save, MemoryOK
  <2>2. MachineOK' /\ FilesOK' /\ BudgetsOK'
    BY <1>10, <2>1, FaultType
    DEF Save, MachineOK, FilesOK, BudgetsOK, Saved, SaveFailed
  <2>3. InputsOK' /\ MemoryOK' /\ PlansOK'
    BY <1>10 DEF Save, Goto, InputsOK, MemoryOK, PlansOK, Steps
  <2>4. Control'
    BY <1>10 DEF Save, Goto, InputsOK, Control, Working
  <2> QED BY <2>2, <2>3, <2>4
<1>11. ASSUME NEW r \in Runners, WriteStatus(r) PROVE TypeOK' /\ Control'
  <2>1. MachineOK' /\ FilesOK' /\ BudgetsOK'
    BY <1>11, StatusOfType, FaultType
    DEF WriteStatus, MachineOK, FilesOK, BudgetsOK
  <2> QED BY <1>11, <2>1, EndedType DEF WriteStatus
<1>12. ASSUME NEW r \in Runners, Crash(r) PROVE TypeOK' /\ Control'
  <2>1. MachineOK' /\ FilesOK' /\ BudgetsOK'
    BY <1>12, FaultType DEF Crash, MachineOK, FilesOK, BudgetsOK
  <2> QED BY <1>12, <2>1, EndedType DEF Crash
<1>13. CASE LoseLedger
  BY <1>13, FaultType
  DEF LoseLedger, MachineOK, FilesOK, InputsOK, MemoryOK, PlansOK, BudgetsOK,
      Control, Working
<1>14. ASSUME NEW s \in Settings, DriftAway(s) PROVE TypeOK' /\ Control'
  <2>1. MachineOK'
    BY <1>14 DEF DriftAway, MachineOK, SystemValue
  <2>2. drifts' \in 0..MaxDrifts
    BY <1>14, ReconcileAssumption DEF DriftAway, BudgetsOK
  <2> QED
    BY <1>14, <2>1, <2>2
    DEF DriftAway, FilesOK, InputsOK, MemoryOK, PlansOK, BudgetsOK, Control,
        Working
<1>15. CASE ChangeWorld
  <2>1. MachineOK'
    BY <1>15 DEF ChangeWorld, MachineOK
  <2>2. changes' \in 0..MaxChanges
    BY <1>15, ReconcileAssumption DEF ChangeWorld, BudgetsOK
  <2> QED
    BY <1>15, <2>1, <2>2
    DEF ChangeWorld, FilesOK, InputsOK, MemoryOK, PlansOK, BudgetsOK, Control,
        Working
<1>16. CASE ChangeConfig
  <2>1. MachineOK'
    BY <1>16 DEF ChangeConfig, MachineOK
  <2>2. changes' \in 0..MaxChanges
    BY <1>16, ReconcileAssumption DEF ChangeConfig, BudgetsOK
  <2> QED
    BY <1>16, <2>1, <2>2
    DEF ChangeConfig, FilesOK, InputsOK, MemoryOK, PlansOK, BudgetsOK, Control,
        Working
<1>17. CASE UNCHANGED vars
  BY <1>17
  DEF vars, MachineOK, FilesOK, InputsOK, MemoryOK, PlansOK, BudgetsOK, Control,
      Working
<1> QED
  BY <1>1, <1>2, <1>3, <1>4, <1>5, <1>6, <1>7, <1>8, <1>9, <1>10, <1>11, <1>12,
     <1>13, <1>14, <1>15, <1>16, <1>17
  DEF Next, Step, Environment

\* In every reachable state every variable holds a value of its kind.
THEOREM TypeCorrect == Spec => []TypeOK
<1>1. Spec => [](TypeOK /\ Control)
  BY InitControl, StepControl, PTL DEF Spec
<1> QED
  BY <1>1, PTL

\* Manual and scheduled reconciliations never overlap.
THEOREM MutualExclusion == Spec => []OneReconciler
<1>1. Spec => [](TypeOK /\ Control)
  BY InitControl, StepControl, PTL DEF Spec
<1>2. Control => OneReconciler
  BY DEF Control, Working, OneReconciler
<1> QED
  BY <1>1, <1>2, PTL

-----------------------------------------------------------------------------
\* What the operations on a ledger do to its accounts of a value.

LEMMA SystemValueIsSome ==
    ASSUME NEW s \in Settings, NEW v \in SystemValue(s)
    PROVE  v # None
BY SettingsAssumption DEF SystemValue, Schedules

\* The resolution of an interrupted write keeps the account, because the
\* observation it goes by is one of the very value.
LEMMA ResolveAccounts ==
    ASSUME NEW l, IsLedger(l), NEW s \in Settings, NEW v \in SystemValue(s),
           NEW o \in Reading(s, v), Accounts(l, s, v)
    PROVE  Accounts(ResolvePending(l, s, o), s, v)
<1>1. CASE l.pending[s] = None
  BY <1>1 DEF ResolvePending
<1>2. CASE l.pending[s] # None /\ Same(s, o, l.pending[s])
  <2>1. Look(s, v) = Look(s, l.pending[s])
    BY <1>2, SameLooks, ReadingLooks
  <2> QED
    BY <1>2, <2>1
    DEF ResolvePending, Committed, Accounts, Expected, IsLedger, Ledgers
<1>3. CASE l.pending[s] # None /\ ~Same(s, o, l.pending[s])
  <2>1. Look(s, v) = Look(s, Expected(l, s))
    BY <1>3, ReadingSame DEF Accounts
  <2> QED
    BY <1>3, <2>1
    DEF ResolvePending, WithoutIntent, Accounts, Expected, IsLedger, Ledgers
<1> QED
  BY <1>1, <1>2, <1>3

LEMMA IntentAccounts ==
    ASSUME NEW l, IsLedger(l), NEW s \in Settings, l.pending[s] = None,
           NEW v \in SystemValue(s), NEW g, Accounts(l, s, v)
    PROVE  /\ Accounts(WithIntent(l, s, g), s, v)
           /\ Accounts(WithoutIntent(l, s), s, v)
<1>1. v # None
  BY SystemValueIsSome
<1> QED
  BY <1>1 DEF WithIntent, WithoutIntent, Accounts, Expected, IsLedger, Ledgers

LEMMA CommittedAccounts ==
    ASSUME NEW l, IsLedger(l), NEW s \in Settings, NEW v,
           NEW g \in SystemValue(s), Look(s, v) = Look(s, g)
    PROVE  Accounts(Committed(l, s, g), s, v)
<1>1. g # None
  BY SystemValueIsSome
<1> QED
  BY <1>1 DEF Committed, Accounts, Expected, IsLedger, Ledgers

\* No operation on one setting touches the account of another.
LEMMA OtherAccounts ==
    ASSUME NEW l, IsLedger(l), NEW s \in Settings, NEW t \in Settings \ {s},
           NEW v, NEW w, NEW o
    PROVE  /\ Accounts(WithIntent(l, s, w), t, v) <=> Accounts(l, t, v)
           /\ Accounts(WithoutIntent(l, s), t, v) <=> Accounts(l, t, v)
           /\ Accounts(Committed(l, s, w), t, v) <=> Accounts(l, t, v)
           /\ Accounts(ResolvePending(l, s, o), t, v) <=> Accounts(l, t, v)
<1>1. ASSUME NEW m, \/ m = WithIntent(l, s, w)
                    \/ m = WithoutIntent(l, s)
                    \/ m = Committed(l, s, w)
                    \/ m = ResolvePending(l, s, o)
      PROVE  m.base = l.base /\ m.last[t] = l.last[t]
             /\ m.pending[t] = l.pending[t]
  BY <1>1
  DEF WithIntent, WithoutIntent, Committed, ResolvePending, IsLedger, Ledgers
<1>2. ASSUME NEW m, m.base = l.base, m.last[t] = l.last[t],
             m.pending[t] = l.pending[t]
      PROVE  Accounts(m, t, v) <=> Accounts(l, t, v)
  BY <1>2 DEF Accounts, Expected
<1> QED
  BY <1>1, <1>2

LEMMA OtherPending ==
    ASSUME NEW l, IsLedger(l), NEW s \in Settings, NEW t \in Settings \ {s},
           NEW w
    PROVE  /\ WithIntent(l, s, w).pending[t] = l.pending[t]
           /\ WithoutIntent(l, s).pending[t] = l.pending[t]
           /\ Committed(l, s, w).pending[t] = l.pending[t]
           /\ ResolvePending(l, s, w).pending[t] = l.pending[t]
BY DEF WithIntent, WithoutIntent, Committed, ResolvePending, IsLedger, Ledgers

LEMMA OwnPending ==
    ASSUME NEW l, IsLedger(l), NEW s \in Settings, NEW w
    PROVE  /\ WithIntent(l, s, w).pending[s] = w
           /\ WithoutIntent(l, s).pending[s] = None
           /\ Committed(l, s, w).pending[s] = None
           /\ ResolvePending(l, s, w).pending[s] = None
BY DEF WithIntent, WithoutIntent, Committed, ResolvePending, IsLedger, Ledgers

-----------------------------------------------------------------------------
\* The inductive invariant behind LedgerAccounts.  A run has resolved the
\* intent of every setting it has observed, it announces at most one write at a
\* time, what it announces is on disk while it writes, and its ledger in memory
\* accounts for the settings just as the one on disk does.

Resolved(r) ==
    /\ pc[r] \in {"idle", "load", "config"} =>
          \A s \in Settings : obs[r][s] = None
    /\ pc[r] \in {"observe", "evaluate"} =>
          \A s \in Settings : obs[r][s] # None => mem[r].pending[s] = None
    /\ pc[r] = "intent" => \A s \in todo[r] : mem[r].pending[s] = None
    /\ pc[r] \in {"write", "commit"} =>
          \A s \in todo[r] \ {First(todo[r])} : mem[r].pending[s] = None

Announced(r) ==
    pc[r] = "write" =>
       /\ mem[r].pending[First(todo[r])] = goal[r][First(todo[r])]
       /\ disk = None \/ disk = mem[r]

MemoryAccounts(r) ==
    pc[r] \notin {"idle", "load"} =>
       \A s \in Settings \ drifted : Accounts(mem[r], s, sys[s])

Accounting ==
    /\ LedgerAccounts
    /\ \A r \in Runners : Resolved(r) /\ Announced(r) /\ MemoryAccounts(r)

\* While one run is under way the others are idle and have nothing to account
\* for.
LEMMA OthersIdle ==
    ASSUME TypeOK, Control, Accounting, NEW r \in Runners, pc[r] # "idle",
           \A q \in Runners \ {r} :
              pc'[q] = pc[q] /\ mem'[q] = mem[q] /\ obs'[q] = obs[q]
    PROVE  \A q \in Runners \ {r} :
              Resolved(q)' /\ Announced(q)' /\ MemoryAccounts(q)'
<1>1. \A q \in Runners \ {r} : pc[q] = "idle" /\ mem[q] = None
  BY DEF Control, Working, TypeOK, InputsOK, MemoryOK
<1>2. \A q \in Runners \ {r} : \A s \in Settings : obs[q][s] = None
  BY <1>1 DEF Accounting, Resolved
<1> QED
  BY <1>1, <1>2 DEF Resolved, Announced, MemoryAccounts

\* A run that ends leaves only the ledger on disk.
LEMMA EndedAccounts ==
    ASSUME TypeOK, Control, Accounting, NEW r \in Runners, pc[r] # "idle",
           Ended(r)
    PROVE  \A q \in Runners :
              Resolved(q)' /\ Announced(q)' /\ MemoryAccounts(q)'
<1>1. \A q \in Runners : pc'[q] = "idle"
  BY EndedType
<1>2. \A q \in Runners : mem'[q] = None
  BY <1>1, EndedType DEF MemoryOK
<1>3. \A q \in Runners \ {r} :
         pc'[q] = pc[q] /\ mem'[q] = mem[q] /\ obs'[q] = obs[q]
  BY DEF Ended, Goto, TypeOK, InputsOK, MemoryOK, PlansOK
<1>4. \A s \in Settings : obs'[r][s] = None
  BY DEF Ended, TypeOK, PlansOK, Nothing
<1>5. Resolved(r)' /\ Announced(r)' /\ MemoryAccounts(r)'
  BY <1>1, <1>2, <1>4 DEF Resolved, Announced, MemoryAccounts
<1> QED
  BY <1>3, <1>5, OthersIdle

LEMMA InitAccounting == Init => Accounting
<1> SUFFICES ASSUME Init PROVE Accounting
  OBVIOUS
<1>1. PICK o \in [Settings -> AnyValue] :
         /\ \A s \in Settings : o[s] \in Reading(s, sys[s])
         /\ disk = NewLedger(o)
  BY DEF Init
<1>2. \A s \in Settings : Accounts(disk, s, sys[s])
  <2> TAKE s \in Settings
  <2>1. Look(s, o[s]) = Look(s, sys[s])
    BY <1>1, ReadingLooks DEF Init
  <2> QED
    BY <1>1, <2>1 DEF NewLedger, Accounts, Expected
<1>3. \A r \in Runners : Resolved(r) /\ Announced(r) /\ MemoryAccounts(r)
  BY DEF Init, Resolved, Announced, MemoryAccounts, Nothing
<1> QED
  BY <1>2, <1>3 DEF Accounting, LedgerAccounts

LEMMA StepAccounting ==
    TypeOK /\ Control /\ Accounting /\ [Next]_vars => Accounting'
<1> SUFFICES ASSUME TypeOK, Control, Accounting, [Next]_vars
             PROVE  Accounting'
  OBVIOUS
<1> USE DEF machine, files, inputs, plans, budgets, TypeOK
<1>1. ASSUME NEW r \in Runners, NEW d \in BOOLEAN, Start(r, d)
      PROVE  Accounting'
  BY <1>1
  DEF Start, Goto, InputsOK, MemoryOK, Accounting, LedgerAccounts, Resolved,
      Announced, MemoryAccounts
<1>2. ASSUME NEW r \in Runners, Load(r) PROVE Accounting'
  <2>1. LedgerAccounts'
    BY <1>2 DEF Load, Accounting, LedgerAccounts
  <2>2. CASE Ended(r)
    BY <1>2, <2>1, <2>2, EndedAccounts DEF Load, Accounting
  <2>3. CASE ~Ended(r)
    <3>1. /\ disk # None
          /\ mem' = [mem EXCEPT ![r] = disk]
          /\ Goto(r, "config")
          /\ UNCHANGED <<lock, inputs, plans>>
      BY <1>2, <2>3 DEF Load
    <3>2. Resolved(r)' /\ Announced(r)' /\ MemoryAccounts(r)'
      BY <1>2, <3>1
      DEF Load, Goto, InputsOK, MemoryOK, Accounting, LedgerAccounts, Resolved,
          Announced, MemoryAccounts
    <3>3. \A q \in Runners \ {r} :
             pc'[q] = pc[q] /\ mem'[q] = mem[q] /\ obs'[q] = obs[q]
      BY <3>1 DEF Goto, InputsOK, MemoryOK
    <3> QED
      BY <1>2, <2>1, <3>2, <3>3, OthersIdle DEF Load, Accounting
  <2> QED
    BY <2>2, <2>3
<1>3. ASSUME NEW r \in Runners, ReadConfig(r) PROVE Accounting'
  <2>1. Resolved(r)' /\ Announced(r)' /\ MemoryAccounts(r)'
    BY <1>3
    DEF ReadConfig, Goto, InputsOK, Accounting, Resolved, Announced,
        MemoryAccounts
  <2>2. \A q \in Runners \ {r} :
           pc'[q] = pc[q] /\ mem'[q] = mem[q] /\ obs'[q] = obs[q]
    BY <1>3 DEF ReadConfig, Goto, InputsOK
  <2> QED
    BY <1>3, <2>1, <2>2, OthersIdle DEF ReadConfig, Accounting, LedgerAccounts
<1>4. ASSUME NEW r \in Runners, Observe(r) PROVE Accounting'
  <2> DEFINE s == First(todo[r])
  <2>1. s \in Settings /\ s \in todo[r]
    BY <1>4, FirstIsIn DEF Observe, Control, Working, PlansOK
  <2>2. IsLedger(mem[r]) /\ sys[s] \in SystemValue(s)
    BY <1>4, <2>1 DEF Observe, MemoryOK, MachineOK
  <2>3. /\ \A t \in Settings : obs[r][t] # None => mem[r].pending[t] = None
        /\ \A t \in Settings \ drifted : Accounts(mem[r], t, sys[t])
    BY <1>4, <2>2 DEF Observe, Accounting, Resolved, MemoryAccounts
  <2> HIDE DEF s
  <2>4. /\ LedgerAccounts'
        /\ pc'[r] \in {"observe", "evaluate"}
        /\ \A q \in Runners \ {r} :
              pc'[q] = pc[q] /\ mem'[q] = mem[q] /\ obs'[q] = obs[q]
        /\ UNCHANGED <<sys, drifted>>
    BY <1>4
    DEF Observe, Goto, InputsOK, MemoryOK, PlansOK, Accounting, LedgerAccounts
  <2>5. CASE UNCHANGED <<obs, mem>>
    BY <2>3, <2>4, <2>5, OthersIdle, <1>4
    DEF Observe, Accounting, Resolved, Announced, MemoryAccounts
  <2>6. ASSUME NEW o \in Reading(s, sys[s]),
               obs' = [obs EXCEPT ![r][s] = o],
               mem' = [mem EXCEPT ![r] = ResolvePending(@, s, o)]
        PROVE  Accounting'
    <3>1. mem'[r] = ResolvePending(mem[r], s, o)
      BY <2>6 DEF MemoryOK
    <3>2. \A t \in Settings \ drifted : Accounts(mem'[r], t, sys[t])
      BY <2>1, <2>2, <2>3, <2>6, <3>1, ResolveAccounts, OtherAccounts
    <3>3. \A t \in Settings : obs'[r][t] # None => mem'[r].pending[t] = None
      <4>1. mem'[r].pending[s] = None
        BY <2>1, <2>2, <3>1, OwnPending
      <4>2. \A t \in Settings \ {s} : /\ obs'[r][t] = obs[r][t]
                                      /\ mem'[r].pending[t] = mem[r].pending[t]
        BY <2>1, <2>2, <2>6, <3>1, OtherPending DEF PlansOK
      <4> QED BY <2>3, <4>1, <4>2
    <3>4. Resolved(r)' /\ Announced(r)' /\ MemoryAccounts(r)'
      BY <2>4, <3>2, <3>3 DEF Resolved, Announced, MemoryAccounts
    <3> QED
      BY <1>4, <2>4, <3>4, OthersIdle DEF Observe, Accounting
  <2> QED
    BY <1>4, <2>5, <2>6 DEF Observe, s
<1>5. ASSUME NEW r \in Runners, Evaluate(r) PROVE Accounting'
  <2>1. LedgerAccounts'
    BY <1>5 DEF Evaluate, Accounting, LedgerAccounts
  <2>2. PICK acKnown \in BOOLEAN, prevent \in BOOLEAN :
           Conclude(r, acKnown, prevent)
    BY <1>5 DEF Evaluate, Prevent
  <2>3. CASE Ended(r)
    BY <1>5, <2>1, <2>3, EndedAccounts DEF Evaluate, Accounting
  <2>4. CASE ~Ended(r)
    <3>1. /\ todo' = [todo EXCEPT ![r] = ToWrite(r, acKnown, prevent)]
          /\ Goto(r, AfterSettings(r, ToWrite(r, acKnown, prevent)))
          /\ UNCHANGED <<mem, obs>>
      BY <2>2, <2>4 DEF Conclude
    <3>2. pc'[r] \in {"intent", "events", "save"}
      BY <3>1 DEF Goto, AfterSettings, InputsOK
    <3>3. \A s \in todo'[r] : mem'[r].pending[s] = None
      BY <1>5, <3>1
      DEF Evaluate, PlansOK, ToWrite, Off, Known, Applied, Accounting, Resolved
    <3>4. Resolved(r)' /\ Announced(r)'
      BY <3>2, <3>3 DEF Resolved, Announced
    <3>5. MemoryAccounts(r)'
      BY <1>5, <3>1 DEF Evaluate, Accounting, MemoryAccounts
    <3>6. \A q \in Runners \ {r} :
             pc'[q] = pc[q] /\ mem'[q] = mem[q] /\ obs'[q] = obs[q]
      BY <3>1 DEF Goto, InputsOK
    <3> QED
      BY <1>5, <2>1, <3>4, <3>5, <3>6, OthersIdle DEF Evaluate, Accounting
  <2> QED
    BY <2>3, <2>4
<1>6. ASSUME NEW r \in Runners, Intent(r) PROVE Accounting'
  <2> DEFINE s == First(todo[r])
             l == WithIntent(mem[r], s, goal[r][s])
  <2>1. s \in Settings /\ s \in todo[r] /\ todo[r] \subseteq Settings
    BY <1>6, FirstIsIn DEF Intent, Control, Working, PlansOK
  <2>2. /\ IsLedger(mem[r])
        /\ \A t \in todo[r] : mem[r].pending[t] = None
        /\ \A t \in Settings \ drifted : Accounts(mem[r], t, sys[t])
        /\ \A t \in Settings : sys[t] \in SystemValue(t)
    BY <1>6
    DEF Intent, MemoryOK, MachineOK, Accounting, Resolved, MemoryAccounts
  <2> HIDE DEF s
  <2>3. \A t \in Settings \ drifted :
           /\ Accounts(l, t, sys[t])
           /\ Accounts(WithoutIntent(mem[r], s), t, sys[t])
    BY <2>1, <2>2, IntentAccounts, OtherAccounts
  <2>4. l.pending[s] = goal[r][s]
        /\ WithoutIntent(mem[r], s).pending[s] = None
    BY <2>1, <2>2, OwnPending
  <2>5. \A t \in todo[r] \ {s} :
           /\ l.pending[t] = None
           /\ WithoutIntent(mem[r], s).pending[t] = None
    BY <2>1, <2>2, OtherPending
  <2> HIDE DEF l
  <2>6. /\ pc[r] # "idle"
        /\ \A q \in Runners \ {r} :
              pc'[q] = pc[q] /\ mem'[q] = mem[q] /\ obs'[q] = obs[q]
        /\ UNCHANGED <<sys, drifted, goal>>
    BY <1>6
    DEF Intent, Finished, Goto, InputsOK, MemoryOK
  <2>7. CASE /\ disk' = l
             /\ mem' = [mem EXCEPT ![r] = l]
             /\ Goto(r, "write")
             /\ todo' = todo
    <3>1. mem'[r] = l /\ pc'[r] = "write"
      BY <2>7 DEF Goto, InputsOK, MemoryOK
    <3>2. LedgerAccounts'
      BY <2>3, <2>6, <2>7 DEF LedgerAccounts
    <3>3. Resolved(r)' /\ Announced(r)' /\ MemoryAccounts(r)'
      BY <2>3, <2>4, <2>5, <2>6, <2>7, <3>1
      DEF Resolved, Announced, MemoryAccounts, s
    <3> QED
      BY <2>6, <3>2, <3>3, OthersIdle DEF Accounting
  <2>8. CASE /\ disk' \in {disk, l}
             /\ mem' = [mem EXCEPT ![r] = WithoutIntent(mem[r], s)]
             /\ Finished(r, s)
    <3>1. /\ mem'[r] = WithoutIntent(mem[r], s)
          /\ pc'[r] \in {"intent", "save", "events"}
          /\ todo'[r] = todo[r] \ {s}
      BY <2>8 DEF Finished, Goto, AfterSettings, InputsOK, MemoryOK, PlansOK
    <3>2. LedgerAccounts'
      BY <2>3, <2>6, <2>8 DEF Accounting, LedgerAccounts
    <3>3. Resolved(r)' /\ Announced(r)' /\ MemoryAccounts(r)'
      BY <2>3, <2>5, <2>6, <3>1 DEF Resolved, Announced, MemoryAccounts
    <3> QED
      BY <2>6, <3>2, <3>3, OthersIdle DEF Accounting
  <2> QED
    BY <1>6, <2>7, <2>8 DEF Intent, Saved, SaveFailed, s, l
<1>7. ASSUME NEW r \in Runners, Write(r) PROVE Accounting'
  <2> DEFINE s == First(todo[r])
             v == goal[r][s]
  <2>1. /\ s \in Settings /\ s \in todo[r] /\ todo[r] \subseteq Settings
        /\ v \in SystemValue(s)
    BY <1>7, FirstIsIn DEF Write, Control, Working, PlansOK
  <2>2. /\ IsLedger(mem[r])
        /\ \A t \in todo[r] \ {s} : mem[r].pending[t] = None
        /\ mem[r].pending[s] = v
        /\ disk = None \/ disk = mem[r]
        /\ \A t \in Settings \ drifted : Accounts(mem[r], t, sys[t])
    BY <1>7
    DEF Write, MemoryOK, Accounting, Resolved, Announced, MemoryAccounts
  <2> HIDE DEF s, v
  <2>3. /\ pc[r] # "idle"
        /\ \A q \in Runners \ {r} :
              pc'[q] = pc[q] /\ mem'[q] = mem[q] /\ obs'[q] = obs[q]
        /\ disk' = disk
    BY <1>7
    DEF Write, Finished, Goto, InputsOK, MemoryOK, PlansOK
  <2>4. \/ /\ sys' = [sys EXCEPT ![s] = v]
           /\ drifted' = drifted \ {s}
        \/ UNCHANGED <<sys, drifted>>
    BY <1>7 DEF Write, s, v
  <2>5. \A t \in Settings \ {s} :
           sys'[t] = sys[t] /\ (t \in drifted' <=> t \in drifted)
    BY <2>1, <2>4 DEF MachineOK
  <2>6. sys'[s] = v \/ (sys'[s] = sys[s] /\ drifted' = drifted)
    BY <2>1, <2>4 DEF MachineOK
  <2>7. \A t \in Settings \ drifted' : Accounts(mem[r], t, sys'[t])
    <3>1. Accounts(mem[r], s, v)
      BY <2>2 DEF Accounts
    <3> QED
      BY <2>1, <2>2, <2>5, <2>6, <3>1
  <2>8. LedgerAccounts'
    BY <2>2, <2>3, <2>7 DEF LedgerAccounts
  <2>9. CASE /\ Verified(s, sys'[s], v)
             /\ mem' = [mem EXCEPT ![r] = Committed(mem[r], s, v)]
             /\ Goto(r, "commit")
             /\ todo' = todo
    <3>1. mem'[r] = Committed(mem[r], s, v) /\ pc'[r] = "commit"
      BY <2>9 DEF Goto, InputsOK, MemoryOK
    <3>2. sys'[s] \in SystemValue(s)
      BY <2>1, <2>6 DEF MachineOK
    <3>3. Look(s, sys'[s]) = Look(s, v)
      BY <2>1, <2>9, <3>2, ReadingLooks, SameLooks DEF Verified
    <3>4. \A t \in Settings \ drifted' : Accounts(mem'[r], t, sys'[t])
      <4>1. Accounts(mem'[r], s, sys'[s])
        BY <2>1, <2>2, <3>1, <3>3, CommittedAccounts
      <4>2. \A t \in Settings \ {s} :
               Accounts(mem[r], t, sys'[t]) => Accounts(mem'[r], t, sys'[t])
        BY <2>1, <2>2, <3>1, OtherAccounts
      <4> QED
        BY <2>7, <4>1, <4>2
    <3>5. \A t \in todo'[r] \ {First(todo'[r])} : mem'[r].pending[t] = None
      BY <2>1, <2>2, <2>9, <3>1, OtherPending DEF s
    <3>6. Resolved(r)' /\ Announced(r)' /\ MemoryAccounts(r)'
      BY <3>1, <3>4, <3>5 DEF Resolved, Announced, MemoryAccounts
    <3> QED
      BY <2>3, <2>8, <3>6, OthersIdle DEF Accounting
  <2>10. CASE Finished(r, s) /\ UNCHANGED mem
    <3>1. /\ pc'[r] \in {"intent", "save", "events"}
          /\ todo'[r] = todo[r] \ {s}
      BY <2>10 DEF Finished, Goto, AfterSettings, InputsOK, PlansOK
    <3>2. Resolved(r)' /\ Announced(r)' /\ MemoryAccounts(r)'
      BY <2>2, <2>7, <2>10, <3>1 DEF Resolved, Announced, MemoryAccounts
    <3> QED
      BY <2>3, <2>8, <3>2, OthersIdle DEF Accounting
  <2> QED
    BY <1>7, <2>9, <2>10 DEF Write, s, v
<1>8. ASSUME NEW r \in Runners, Commit(r) PROVE Accounting'
  <2> DEFINE s == First(todo[r])
  <2>1. /\ IsLedger(mem[r])
        /\ \A t \in todo[r] \ {s} : mem[r].pending[t] = None
        /\ \A t \in Settings \ drifted : Accounts(mem[r], t, sys[t])
    BY <1>8 DEF Commit, MemoryOK, Accounting, Resolved, MemoryAccounts
  <2> HIDE DEF s
  <2>2. /\ UNCHANGED <<sys, mem, obs, drifted>>
        /\ disk' \in {disk, mem[r]}
        /\ pc[r] # "idle"
        /\ Finished(r, s)
    BY <1>8 DEF Commit, Saved, SaveFailed, s
  <2>3. /\ pc'[r] \in {"intent", "save", "events"}
        /\ todo'[r] = todo[r] \ {s}
        /\ \A q \in Runners \ {r} : pc'[q] = pc[q]
    BY <2>2 DEF Finished, Goto, AfterSettings, InputsOK, PlansOK
  <2>4. LedgerAccounts'
    BY <2>1, <2>2 DEF Accounting, LedgerAccounts
  <2>5. Resolved(r)' /\ Announced(r)' /\ MemoryAccounts(r)'
    BY <2>1, <2>2, <2>3 DEF Resolved, Announced, MemoryAccounts
  <2> QED
    BY <2>2, <2>3, <2>4, <2>5, OthersIdle DEF Accounting
<1>9. ASSUME NEW r \in Runners, Events(r) PROVE Accounting'
  <2>1. /\ UNCHANGED <<sys, disk, mem, obs, todo, goal, drifted>>
        /\ pc[r] = "events" /\ pc'[r] = "save"
        /\ \A q \in Runners \ {r} : pc'[q] = pc[q]
    BY <1>9 DEF Events, Arrange, Goto, InputsOK
  <2>2. Resolved(r)' /\ Announced(r)' /\ MemoryAccounts(r)'
    BY <2>1 DEF Accounting, Resolved, Announced, MemoryAccounts
  <2> QED
    BY <2>1, <2>2, OthersIdle DEF Accounting, LedgerAccounts
<1>10. ASSUME NEW r \in Runners, Save(r) PROVE Accounting'
  <2>1. /\ UNCHANGED <<sys, mem, obs, todo, goal, drifted>>
        /\ disk' \in {disk, mem[r]}
        /\ pc[r] = "save" /\ pc'[r] = "status"
        /\ \A q \in Runners \ {r} : pc'[q] = pc[q]
    BY <1>10 DEF Save, Saved, SaveFailed, Goto, InputsOK
  <2>2. Resolved(r)' /\ Announced(r)' /\ MemoryAccounts(r)'
    BY <2>1 DEF Accounting, Resolved, Announced, MemoryAccounts
  <2>3. LedgerAccounts'
    BY <2>1 DEF Accounting, LedgerAccounts, MemoryAccounts
  <2> QED
    BY <2>1, <2>2, <2>3, OthersIdle DEF Accounting
<1>11. ASSUME NEW r \in Runners, WriteStatus(r) PROVE Accounting'
  <2>1. Ended(r) /\ pc[r] # "idle" /\ UNCHANGED <<sys, disk, drifted>>
    BY <1>11 DEF WriteStatus
  <2> QED
    BY <2>1, EndedAccounts DEF Accounting, LedgerAccounts
<1>12. ASSUME NEW r \in Runners, Crash(r) PROVE Accounting'
  <2>1. Ended(r) /\ pc[r] # "idle" /\ UNCHANGED <<sys, disk, drifted>>
    BY <1>12 DEF Crash
  <2> QED
    BY <2>1, EndedAccounts DEF Accounting, LedgerAccounts
<1>13. CASE LoseLedger
  BY <1>13
  DEF LoseLedger, Accounting, LedgerAccounts, Resolved, Announced,
      MemoryAccounts
<1>14. ASSUME NEW s \in Settings, DriftAway(s) PROVE Accounting'
  <2>1. /\ \A t \in Settings \ drifted' : t # s /\ t \notin drifted
        /\ \A t \in Settings \ {s} : sys'[t] = sys[t]
        /\ UNCHANGED <<disk, pc, mem, obs, todo, goal>>
    BY <1>14 DEF DriftAway, MachineOK
  <2> QED
    BY <2>1
    DEF Accounting, LedgerAccounts, Resolved, Announced, MemoryAccounts
<1>15. CASE ChangeWorld
  BY <1>15
  DEF ChangeWorld, Accounting, LedgerAccounts, Resolved, Announced,
      MemoryAccounts
<1>16. CASE ChangeConfig
  BY <1>16
  DEF ChangeConfig, Accounting, LedgerAccounts, Resolved, Announced,
      MemoryAccounts
<1>17. CASE UNCHANGED vars
  BY <1>17
  DEF vars, Accounting, LedgerAccounts, Resolved, Announced, MemoryAccounts
<1> QED
  BY <1>1, <1>2, <1>3, <1>4, <1>5, <1>6, <1>7, <1>8, <1>9, <1>10, <1>11,
     <1>12, <1>13, <1>14, <1>15, <1>16, <1>17
  DEF Next, Step, Environment

\* Wherever a run is killed and whichever call fails, the ledger on disk
\* accounts for every setting nobody else has changed (state.go, the Pending
\* fields; reconcile.go, the saves around every write).
THEOREM LedgerAlwaysAccounts == Spec => []LedgerAccounts
<1>1. Init => TypeOK /\ Control /\ Accounting
  BY InitControl, InitAccounting
<1>2. TypeOK /\ Control /\ Accounting /\ [Next]_vars
         => (TypeOK /\ Control /\ Accounting)'
  BY StepControl, StepAccounting
<1>3. Accounting => LedgerAccounts
  BY DEF Accounting
<1> QED
  BY <1>1, <1>2, <1>3, PTL DEF Spec
=============================================================================
