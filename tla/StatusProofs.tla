----------------------------- MODULE StatusProofs -----------------------------
(***************************************************************************)
(* The proof that a status which says that the run went well tells the     *)
(* truth about every setting nobody else has changed, for every set of     *)
(* runners, every configuration, every assignment of labels to schedules   *)
(* and every bound.                                                        *)
(*                                                                         *)
(* It rests on what a run has read still being so when it decides (Fresh), *)
(* on its copy of the ledger having the baselines of the file (Copies),    *)
(* and on what a run owes to its report from the decision on (Honest).     *)
(***************************************************************************)
EXTENDS ConflictProofs, OwnershipProofs

-----------------------------------------------------------------------------
\* The settings a run has still to write.  A setting being committed has been.
Unwritten(r) == IF pc[r] = "commit" THEN todo[r] \ {First(todo[r])} ELSE todo[r]

\* The steps of a run after its decision.
Decided == {"intent", "write", "commit", "events", "save", "status"}

\* What the report and the baseline make of sleep.
SleepFor(r) == mem[r].base["sleep"] \/ rep[r].requested

\* As long as nothing has failed, a setting is still to be written, and sleep
\* to the value reported, or it is as the run has recorded it.
HonestFor(r) ==
    pc[r] \in Decided /\ rep[r].ok =>
       /\ pc[r] \in {"events", "save", "status"} => todo[r] = {}
       /\ "sleep" \in todo[r] => goal[r]["sleep"] = SleepFor(r)
       /\ \A s \in Settings \ drifted : s \notin Unwritten(r) =>
             /\ Look(s, obs[r][s]) = Look(s, sys[s])
             /\ s = "sleep" => sys[s] = SleepFor(r)

Honest == \A r \in Runners : HonestFor(r)

\* While one run is under way the others have nothing to report.
LEMMA OtherHonest ==
    ASSUME TypeOK, Control, NEW r \in Runners, pc[r] # "idle",
           \A q \in Runners \ {r} : pc'[q] = pc[q],
           HonestFor(r)'
    PROVE  Honest'
BY DEF Control, Working, TypeOK, InputsOK, Honest, HonestFor, Decided

LEMMA EndedHonest ==
    ASSUME TypeOK, Control, NEW r \in Runners, pc[r] # "idle", Ended(r)
    PROVE  Honest'
BY EndedType DEF Honest, HonestFor, Decided

\* A report of failure promises nothing.
LEMMA FailedHonest ==
    ASSUME TypeOK, NEW r \in Runners, rep' = [rep EXCEPT ![r] = Failed(rep[r])]
    PROVE  HonestFor(r)'
<1>1. rep'[r] = Failed(rep[r]) /\ rep[r] \in Report
  BY DEF TypeOK, PlansOK
<1>2. ~rep'[r].ok
  BY <1>1 DEF Failed, Report
<1> QED
  BY <1>2 DEF HonestFor

\* What no operation of a run on its ledger changes.
LEMMA BaseKept ==
    ASSUME NEW l, IsLedger(l), NEW s \in Settings, NEW v
    PROVE  /\ WithIntent(l, s, v).base = l.base
           /\ Committed(l, s, v).base = l.base
BY DEF WithIntent, Committed, IsLedger, Ledgers

LEMMA InitHonest == Init => Honest
BY DEF Init, Honest, HonestFor, Decided

-----------------------------------------------------------------------------
\* A decision without an error knows every setting, and leaves alone what is on
\* its target.
LEMMA SoundDecision ==
    ASSUME NEW r \in Runners, NEW acKnown \in BOOLEAN, NEW prevent \in BOOLEAN,
           ~Erred(r, acKnown, prevent)
    PROVE  /\ acKnown
           /\ \A s \in Settings :
                 /\ obs[r][s] # None
                 /\ s \notin ToWrite(r, acKnown, prevent) =>
                       ~Differs(s, obs[r][s], Goal(r, s, prevent))
<1>1. acKnown /\ Known(r, acKnown) = Settings
  BY DEF Erred, Applied
<1>2. ToWrite(r, acKnown, prevent) = Off(r, acKnown, prevent)
  BY DEF Erred
<1>3. \A s \in Settings : obs[r][s] # None
  BY <1>1 DEF Known
<1>4. \A s \in Settings : s \notin ToWrite(r, acKnown, prevent) =>
         ~Differs(s, obs[r][s], Goal(r, s, prevent))
  BY <1>1, <1>2 DEF Off
<1> QED
  BY <1>1, <1>3, <1>4

LEMMA DecisionHonest ==
    ASSUME TypeOK, Control, Fresh, NEW r \in Runners, Evaluate(r)
    PROVE  Honest'
<1> USE DEF TypeOK, machine, files, inputs, plans, budgets
<1>1. PICK acKnown \in BOOLEAN, prevent \in BOOLEAN :
         Conclude(r, acKnown, prevent)
  BY DEF Evaluate, Prevent
<1>2. /\ pc[r] = "evaluate"
      /\ UNCHANGED <<sys, drifted>>
  BY DEF Evaluate
<1>3. CASE Ended(r)
  BY <1>2, <1>3, EndedHonest
<1>4. CASE ~Ended(r)
  <2> DEFINE write == ToWrite(r, acKnown, prevent)
             drift == {s \in Known(r, acKnown) : Drift(s, mem[r], obs[r][s])}
             draft == [rep[r] EXCEPT !.requested = acKnown /\ prevent,
                                     !.source = acKnown, !.drift = drift]
  <2>1. /\ goal' = [goal EXCEPT ![r] = [s \in Settings |->
                       IF s \in write THEN Goal(r, s, prevent) ELSE None]]
        /\ todo' = [todo EXCEPT ![r] = write]
        /\ rep' = [rep EXCEPT ![r] =
                      IF Erred(r, acKnown, prevent) THEN Failed(draft)
                      ELSE draft]
        /\ Goto(r, AfterSettings(r, write))
        /\ UNCHANGED <<mem, obs>>
    BY <1>1, <1>4 DEF Conclude
  <2>2. /\ draft.requested = (acKnown /\ prevent)
        /\ ~Failed(draft).ok
    BY DEF PlansOK, Report, Failed
  <2> HIDE DEF draft, write
  <2>3. \A q \in Runners \ {r} : pc'[q] = pc[q]
    BY <2>1 DEF Goto, InputsOK
  <2>4. CASE Erred(r, acKnown, prevent)
    <3>1. ~rep'[r].ok
      BY <2>1, <2>2, <2>4 DEF PlansOK
    <3> QED
      BY <1>2, <2>3, <3>1, OtherHonest DEF HonestFor
  <2>5. CASE ~Erred(r, acKnown, prevent)
    <3>1. /\ acKnown
          /\ \A s \in Settings :
                /\ obs[r][s] # None
                /\ s \notin write => ~Differs(s, obs[r][s], Goal(r, s, prevent))
      BY <2>5, SoundDecision DEF write
    <3>2. /\ todo'[r] = write
          /\ write \subseteq Settings
          /\ pc'[r] \in {"intent", "events", "save"}
          /\ write # {} => pc'[r] = "intent"
          /\ pc'[r] \in {"events", "save"} => write = {}
      BY <2>1
      DEF Goto, AfterSettings, InputsOK, PlansOK, write, ToWrite, Off, Known,
          Applied
    <3>3. SleepFor(r)' = (mem[r].base["sleep"] \/ prevent)
      <4>1. rep'[r].requested = prevent
        BY <2>1, <2>2, <2>5, <3>1 DEF PlansOK
      <4> QED
        BY <2>1, <4>1 DEF SleepFor
    <3>4. "sleep" \in todo'[r] => goal'[r]["sleep"] = SleepFor(r)'
      <4>1. "sleep" \in write => goal'[r]["sleep"] = Goal(r, "sleep", prevent)
        BY <2>1, <3>2 DEF PlansOK
      <4> QED
        BY <3>2, <3>3, <4>1 DEF Goal, Target
    <3>5. ASSUME NEW s \in Settings \ drifted', s \notin Unwritten(r)'
          PROVE  /\ Look(s, obs'[r][s]) = Look(s, sys'[s])
                 /\ s = "sleep" => sys'[s] = SleepFor(r)'
      <4>1. s \notin write
        BY <3>2, <3>5 DEF Unwritten
      <4>2. obs[r][s] \in Reading(s, sys[s]) /\ sys[s] \in SystemValue(s)
        BY <1>2, <3>1, <3>5 DEF Fresh, FreshFor, MachineOK
      <4>3. Look(s, obs'[r][s]) = Look(s, sys'[s])
        BY <1>2, <2>1, <4>2, ReadingLooks
      <4>4. ASSUME s = "sleep" PROVE sys'[s] = SleepFor(r)'
        <5>1. Goal(r, s, prevent) \in BOOLEAN
          BY <1>2, <4>4
          DEF Goal, Target, MemoryOK, IsLedger, Ledgers, Observation
        <5>2. obs[r][s] = Goal(r, s, prevent)
          BY <3>1, <4>1, <4>4, <5>1, SettingsAssumption DEF Differs, Same
        <5>3. obs[r][s] = sys[s]
          BY <4>2, <4>4 DEF Reading
        <5> QED
          BY <1>2, <3>3, <4>4, <5>2, <5>3 DEF Goal, Target
      <4> QED
        BY <4>3, <4>4
    <3>6. HonestFor(r)'
      BY <3>2, <3>4, <3>5 DEF HonestFor
    <3> QED
      BY <1>2, <2>3, <3>6, OtherHonest
  <2> QED
    BY <2>4, <2>5
<1> QED
  BY <1>3, <1>4

-----------------------------------------------------------------------------
LEMMA StepHonest ==
    TypeOK /\ Control /\ Fresh /\ Honest /\ [Next]_vars => Honest'
<1> SUFFICES ASSUME TypeOK, Control, Fresh, Honest, [Next]_vars
             PROVE  Honest'
  OBVIOUS
<1> USE DEF machine, files, inputs, plans, budgets, TypeOK
<1>1. ASSUME NEW r \in Runners, NEW d \in BOOLEAN, Start(r, d)
      PROVE  Honest'
  BY <1>1
  DEF Start, Goto, InputsOK, Honest, HonestFor, Decided, Unwritten, SleepFor
<1>2. ASSUME NEW r \in Runners, pc[r] # "idle",
             \E step \in {"config", "observe", "evaluate"} : Goto(r, step)
      PROVE  Honest'
  <2>1. /\ \A q \in Runners \ {r} : pc'[q] = pc[q]
        /\ pc'[r] \notin Decided
    BY <1>2 DEF Goto, InputsOK, Decided
  <2> QED
    BY <1>2, <2>1, OtherHonest DEF HonestFor
<1>3. ASSUME NEW r \in Runners,
             \/ Load(r)
             \/ ReadConfig(r)
             \/ Observe(r)
             \/ WriteStatus(r)
             \/ Crash(r)
      PROVE  Honest'
  <2>1. pc[r] # "idle"
    BY <1>3 DEF Load, ReadConfig, Observe, WriteStatus, Crash
  <2>2. \/ Ended(r)
        \/ \E step \in {"config", "observe", "evaluate"} : Goto(r, step)
    BY <1>3 DEF Load, ReadConfig, Observe, WriteStatus, Crash
  <2> QED
    BY <1>2, <2>1, <2>2, EndedHonest
<1>4. ASSUME NEW r \in Runners, Intent(r) PROVE Honest'
  <2> DEFINE s == First(todo[r])
  <2>1. /\ s \in Settings
        /\ IsLedger(mem[r])
    BY <1>4, FirstIsIn DEF Intent, Control, Working, PlansOK, MemoryOK
  <2> HIDE DEF s
  <2>2. /\ pc[r] = "intent"
        /\ \A q \in Runners \ {r} : pc'[q] = pc[q]
        /\ UNCHANGED <<sys, obs, goal, drifted>>
    BY <1>4 DEF Intent, Finished, Goto, InputsOK
  <2>3. CASE rep' = [rep EXCEPT ![r] = Failed(rep[r])]
    BY <2>2, <2>3, FailedHonest, OtherHonest
  <2>4. CASE /\ mem' = [mem EXCEPT ![r] = WithIntent(mem[r], s, goal[r][s])]
             /\ Goto(r, "write")
             /\ UNCHANGED <<todo, rep>>
    <3>1. mem'[r].base = mem[r].base /\ pc'[r] = "write"
      BY <2>1, <2>4, BaseKept DEF MemoryOK, Goto, InputsOK
    <3>2. HonestFor(r)'
      BY <2>2, <2>4, <3>1 DEF Honest, HonestFor, Decided, Unwritten, SleepFor
    <3> QED
      BY <2>2, <3>2, OtherHonest
  <2> QED
    BY <1>4, <2>3, <2>4 DEF Intent, s
<1>5. ASSUME NEW r \in Runners, Write(r) PROVE Honest'
  <2> DEFINE s == First(todo[r])
             v == goal[r][s]
  <2>1. /\ s \in Settings /\ s \in todo[r] /\ todo[r] \subseteq Settings
        /\ v \in SystemValue(s)
        /\ IsLedger(mem[r])
    BY <1>5, FirstIsIn DEF Write, Control, Working, PlansOK, MemoryOK
  <2>2. /\ pc[r] = "write"
        /\ \A q \in Runners \ {r} : pc'[q] = pc[q]
        /\ goal' = goal
    BY <1>5 DEF Write, Finished, Goto, InputsOK
  <2>3. CASE rep' = [rep EXCEPT ![r] = Failed(rep[r])]
    BY <2>2, <2>3, FailedHonest, OtherHonest
  <2> HIDE DEF v
  <2>4. CASE /\ Verified(s, sys'[s], v)
             /\ mem' = [mem EXCEPT ![r] = Committed(mem[r], s, v)]
             /\ obs' = [obs EXCEPT ![r][s] = v]
             /\ Goto(r, "commit")
             /\ UNCHANGED <<todo, rep>>
    <3> HIDE DEF s
    <3>1. \/ sys' = [sys EXCEPT ![s] = v] /\ drifted' = drifted \ {s}
          \/ UNCHANGED <<sys, drifted>>
      BY <1>5 DEF Write, s, v
    <3>2. /\ sys'[s] \in SystemValue(s)
          /\ \A t \in Settings \ {s} :
                sys'[t] = sys[t] /\ (t \in drifted' <=> t \in drifted)
      BY <2>1, <3>1 DEF MachineOK
    <3>3. /\ obs'[r][s] = v
          /\ \A t \in Settings \ {s} : obs'[r][t] = obs[r][t]
      BY <2>1, <2>4 DEF PlansOK
    <3>4. Look(s, obs'[r][s]) = Look(s, sys'[s])
      BY <2>1, <2>4, <3>2, <3>3, ReadingLooks, SameLooks DEF Verified
    <3>5. mem'[r].base = mem[r].base /\ pc'[r] = "commit"
      BY <2>1, <2>4, BaseKept DEF MemoryOK, Goto, InputsOK
    <3>6. SleepFor(r)' = SleepFor(r)
      BY <2>4, <3>5 DEF SleepFor
    <3>7. ASSUME rep[r].ok, s = "sleep" PROVE sys'[s] = SleepFor(r)'
      <4>1. v = SleepFor(r)
        BY <2>1, <2>2, <3>7 DEF Honest, HonestFor, Decided, v
      <4>2. sys'[s] = v
        BY <2>4, <3>7 DEF Verified, Reading, Same
      <4> QED
        BY <3>6, <4>1, <4>2
    <3>8. \A t \in Settings \ {s} : t \notin Unwritten(r)' => t \notin Unwritten(r)
      BY <2>2, <2>4, <3>5 DEF Unwritten, s
    <3>9. HonestFor(r)'
      <4> SUFFICES ASSUME rep[r].ok
                   PROVE  /\ "sleep" \in todo[r] => goal[r]["sleep"] = SleepFor(r)
                          /\ \A t \in Settings \ drifted' :
                                t \notin Unwritten(r)' =>
                                   /\ Look(t, obs'[r][t]) = Look(t, sys'[t])
                                   /\ t = "sleep" => sys'[t] = SleepFor(r)
        BY <2>2, <2>4, <3>5, <3>6 DEF HonestFor
      <4>1. /\ "sleep" \in todo[r] => goal[r]["sleep"] = SleepFor(r)
            /\ \A t \in Settings \ drifted : t \notin Unwritten(r) =>
                  /\ Look(t, obs[r][t]) = Look(t, sys[t])
                  /\ t = "sleep" => sys[t] = SleepFor(r)
        BY <2>2 DEF Honest, HonestFor, Decided
      <4> QED
        BY <3>2, <3>3, <3>4, <3>6, <3>7, <3>8, <4>1
    <3> QED
      BY <2>2, <3>9, OtherHonest
  <2> QED
    BY <1>5, <2>3, <2>4 DEF Write, s, v
<1>6. ASSUME NEW r \in Runners, Commit(r) PROVE Honest'
  <2> DEFINE s == First(todo[r])
  <2>1. /\ pc[r] = "commit"
        /\ Finished(r, s)
        /\ UNCHANGED <<sys, mem, obs, goal, drifted>>
    BY <1>6 DEF Commit
  <2>2. \A q \in Runners \ {r} : pc'[q] = pc[q]
    BY <2>1 DEF Finished, Goto, InputsOK
  <2>3. CASE rep' = [rep EXCEPT ![r] = Failed(rep[r])]
    BY <2>1, <2>2, <2>3, FailedHonest, OtherHonest
  <2>4. CASE rep' = [rep EXCEPT ![r] = [rep[r] EXCEPT !.dirty = TRUE]]
    <3>1. /\ rep'[r].ok = rep[r].ok
          /\ rep'[r].requested = rep[r].requested
      BY <2>4 DEF PlansOK, Report
    <3>2. /\ todo'[r] = todo[r] \ {s}
          /\ pc'[r] \in {"intent", "events", "save"}
          /\ pc'[r] \in {"events", "save"} => todo'[r] = {}
      BY <2>1 DEF Finished, Goto, AfterSettings, InputsOK, PlansOK
    <3>3. SleepFor(r)' = SleepFor(r) /\ Unwritten(r)' = Unwritten(r)
      BY <2>1, <3>1, <3>2 DEF SleepFor, Unwritten
    <3>4. HonestFor(r)'
      BY <2>1, <3>1, <3>2, <3>3 DEF Honest, HonestFor, Decided
    <3> QED
      BY <2>1, <2>2, <3>4, OtherHonest
  <2> QED
    BY <1>6, <2>3, <2>4 DEF Commit
<1>7. ASSUME NEW r \in Runners, Events(r) \/ Save(r) PROVE Honest'
  <2>1. /\ pc[r] \in {"events", "save"}
        /\ pc'[r] \in {"save", "status"}
        /\ \A q \in Runners \ {r} : pc'[q] = pc[q]
        /\ UNCHANGED <<sys, mem, obs, todo, goal, drifted>>
    BY <1>7 DEF Events, Arrange, Save, Goto, InputsOK
  <2>2. CASE rep' = [rep EXCEPT ![r] = Failed(rep[r])]
    BY <2>1, <2>2, FailedHonest, OtherHonest
  <2>3. CASE rep' = rep
    <3>1. HonestFor(r)'
      BY <2>1, <2>3 DEF Honest, HonestFor, Decided, Unwritten, SleepFor
    <3> QED
      BY <2>1, <3>1, OtherHonest
  <2> QED
    BY <1>7, <2>2, <2>3 DEF Events, Arrange, Save
<1>8. ASSUME NEW s \in Settings, DriftAway(s) PROVE Honest'
  <2>1. /\ \A t \in Settings \ drifted' : t \notin drifted /\ sys'[t] = sys[t]
        /\ UNCHANGED <<pc, mem, obs, todo, goal, rep>>
    BY <1>8 DEF DriftAway, MachineOK
  <2> QED
    BY <2>1 DEF Honest, HonestFor, Unwritten, SleepFor
<1>9. CASE LoseLedger \/ ChangeWorld \/ ChangeConfig \/ UNCHANGED vars
  BY <1>9
  DEF LoseLedger, ChangeWorld, ChangeConfig, vars, Honest, HonestFor, Unwritten,
      SleepFor
<1> QED
  BY <1>1, <1>3, <1>4, <1>5, <1>6, <1>7, <1>8, <1>9, DecisionHonest
  DEF Next, Step, Environment

-----------------------------------------------------------------------------
\* A step that publishes a new status without an error tells the truth.
StatusHonest ==
    status' # status /\ status'.ok =>
       \A s \in Settings \ drifted :
          /\ Look(s, status'.observed[s]) = Look(s, sys[s])
          /\ s = "sleep" /\ disk # None =>
                (sys[s] <=> status'.requested \/ disk.base[s])

\* Only WriteStatus publishes one.
LEMMA PublishedHonest ==
    ASSUME TypeOK, Control, Copies, Honest, [Next]_vars PROVE StatusHonest
<1> USE DEF machine, files, inputs, plans, budgets
<1>1. ASSUME NEW r \in Runners, WriteStatus(r), status' # status
      PROVE  StatusHonest
  <2>1. status' = StatusOf(r) /\ pc[r] = "status"
    BY <1>1 DEF WriteStatus
  <2>2. /\ status'.ok = rep[r].ok
        /\ status'.observed = obs[r]
        /\ status'.requested = rep[r].requested
    BY <2>1 DEF StatusOf
  <2>3. disk # None => mem[r].base = disk.base
    BY <2>1 DEF Copies, CopyOf
  <2>4. ASSUME rep[r].ok
        PROVE  \A s \in Settings \ drifted :
                  /\ Look(s, obs[r][s]) = Look(s, sys[s])
                  /\ s = "sleep" => sys[s] = SleepFor(r)
    BY <2>1, <2>4 DEF Honest, HonestFor, Decided, Unwritten
  <2> QED
    BY <2>2, <2>3, <2>4 DEF StatusHonest, SleepFor
<1>2. ASSUME status' = status PROVE StatusHonest
  BY <1>2 DEF StatusHonest
<1>3. (\A r \in Runners : ~WriteStatus(r)) => status' = status
  BY DEF Next, Step, Environment, vars, Start, Load, ReadConfig, Observe,
         Evaluate, Intent, Write, Commit, Events, Arrange, Save, Crash,
         LoseLedger, DriftAway, ChangeWorld, ChangeConfig
<1> QED
  BY <1>1, <1>2, <1>3

\* A status that says the run went well shows each setting as it is, unless
\* another process has changed it, and sleep is inhibited exactly when
\* schlaflos requests it or the baseline had it inhibited (reconcile.go,
\* writeStatus and the errors that r.record collects before it).
THEOREM StatusAlwaysTruthful == Spec => StatusTruthful
<1> DEFINE Inductive == TypeOK /\ Control /\ Accounting /\ Fresh /\ Copies /\ Honest
<1>1. Init => Inductive
  BY InitControl, InitAccounting, InitFresh, InitPromised, InitHonest
<1>2. Inductive /\ [Next]_vars => Inductive'
  BY StepControl, StepAccounting, StepFresh, StepPromised, StepHonest
<1>3. Inductive /\ [Next]_vars => [StatusHonest]_vars
  BY PublishedHonest
<1> HIDE DEF Inductive
<1> QED
  BY <1>1, <1>2, <1>3, PTL DEF Spec, StatusTruthful, StatusHonest
=============================================================================
