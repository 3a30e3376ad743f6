---------------------------- MODULE ConflictProofs ----------------------------
(***************************************************************************)
(* The proof that a conflict is always somebody else's change, for every   *)
(* set of runners, every configuration, every assignment of labels to      *)
(* schedules and every bound.                                              *)
(*                                                                         *)
(* It rests on the ledger in memory accounting for the settings            *)
(* (Accounting) and on what a run has read of them still being so when it  *)
(* decides.                                                                *)
(***************************************************************************)
EXTENDS ReconcileProofs

-----------------------------------------------------------------------------
\* A schedule whose label is its own name is the only one with that label.
LEMMA OwnLabel ==
    ASSUME NEW v \in Exact, NEW w \in Exact, Label(v) = Label(w),
           Label(v) \notin Lossy
    PROVE  v = w /\ Label(v) = v
BY ScheduleAssumption DEF Label, IsExact

\* A reading of a value that the ledger accounts for, with no write pending,
\* is no conflict.
LEMMA AccountedIsNoDrift ==
    ASSUME NEW l, IsLedger(l), NEW s \in Settings, l.pending[s] = None,
           NEW v \in SystemValue(s), NEW o \in Reading(s, v),
           Accounts(l, s, v), s = "sleep" \/ Label(v) \notin Lossy
    PROVE  ~Drift(s, l, o)
<1>1. Look(s, v) = Look(s, Expected(l, s))
  BY SystemValueIsSome DEF Accounts
<1>2. CASE s = "sleep"
  BY <1>1, <1>2 DEF Look, Reading, Drift
<1>3. CASE s # "sleep" /\ l.last[s] # None
  <2>1. v \in Exact /\ l.last[s] \in Exact
    BY <1>3 DEF IsLedger, SystemValue
  <2>2. v = l.last[s] /\ Label(v) = v
    BY <1>1, <1>3, <2>1, OwnLabel DEF Look, Expected
  <2>3. o = v
    BY <1>3, <2>2 DEF Reading, Current
  <2> QED
    BY <1>3, <2>1, <2>2, <2>3 DEF Drift, Same, Equal
<1>4. CASE s # "sleep" /\ l.last[s] = None
  BY <1>4 DEF Drift
<1> QED
  BY <1>2, <1>3, <1>4

-----------------------------------------------------------------------------
\* What a run has read is still so until it decides.
FreshFor(r) ==
    pc[r] \in {"observe", "evaluate"} =>
       \A s \in Settings \ drifted :
          obs[r][s] # None => obs[r][s] \in Reading(s, sys[s])

Fresh == \A r \in Runners : FreshFor(r)

\* A step that leaves the run in question elsewhere.
LEMMA ElsewhereFresh ==
    ASSUME TypeOK, Control, NEW r \in Runners, pc[r] # "idle",
           \A q \in Runners \ {r} : pc'[q] = pc[q],
           pc'[r] \notin {"observe", "evaluate"}
    PROVE  Fresh'
BY DEF Control, Working, TypeOK, InputsOK, Fresh, FreshFor

LEMMA InitFresh == Init => Fresh
BY DEF Init, Fresh, FreshFor

LEMMA StepFresh ==
    TypeOK /\ Control /\ Accounting /\ Fresh /\ [Next]_vars => Fresh'
<1> SUFFICES ASSUME TypeOK, Control, Accounting, Fresh, [Next]_vars
             PROVE  Fresh'
  OBVIOUS
<1> USE DEF machine, files, inputs, plans, budgets, TypeOK
<1>1. ASSUME NEW r \in Runners, NEW d \in BOOLEAN, Start(r, d)
      PROVE  Fresh'
  BY <1>1 DEF Start, Goto, InputsOK, Fresh, FreshFor
<1>2. ASSUME NEW r \in Runners,
             \/ Load(r)
             \/ WriteStatus(r)
             \/ Crash(r)
      PROVE  Fresh'
  <2>1. pc[r] # "idle"
    BY <1>2 DEF Load, WriteStatus, Crash
  <2>2. CASE Ended(r)
    BY <2>1, <2>2, EndedType DEF Fresh, FreshFor
  <2>3. CASE Goto(r, "config")
    BY <2>1, <2>3, ElsewhereFresh DEF Goto, InputsOK
  <2> QED
    BY <1>2, <2>2, <2>3 DEF Load, WriteStatus, Crash
<1>3. ASSUME NEW r \in Runners, ReadConfig(r) PROVE Fresh'
  <2>1. /\ pc[r] = "config"
        /\ \A q \in Runners \ {r} : pc'[q] = pc[q]
        /\ UNCHANGED obs
    BY <1>3 DEF ReadConfig, Goto, InputsOK
  <2>2. \A s \in Settings : obs'[r][s] = None
    BY <2>1 DEF Accounting, Resolved
  <2> QED
    BY <2>1, <2>2 DEF Control, Working, InputsOK, Fresh, FreshFor
<1>4. ASSUME NEW r \in Runners, Observe(r) PROVE Fresh'
  <2> DEFINE s == First(todo[r])
  <2>1. s \in Settings
    BY <1>4, FirstIsIn DEF Observe, Control, Working, PlansOK
  <2>2. /\ pc[r] = "observe"
        /\ \A q \in Runners \ {r} : pc'[q] = pc[q]
        /\ UNCHANGED <<sys, drifted>>
    BY <1>4 DEF Observe, Goto, InputsOK
  <2> HIDE DEF s
  <2>3. \/ obs' = obs
        \/ \E o \in Reading(s, sys[s]) : obs' = [obs EXCEPT ![r][s] = o]
    BY <1>4 DEF Observe, s
  <2>4. FreshFor(r)'
    BY <2>1, <2>2, <2>3 DEF PlansOK, Fresh, FreshFor
  <2> QED
    BY <2>2, <2>4 DEF Control, Working, InputsOK, Fresh, FreshFor
<1>5. ASSUME NEW r \in Runners, Evaluate(r) PROVE Fresh'
  <2>1. PICK acKnown \in BOOLEAN, prevent \in BOOLEAN :
           Conclude(r, acKnown, prevent)
    BY <1>5 DEF Evaluate, Prevent
  <2>2. CASE Ended(r)
    BY <1>5, <2>2, EndedType DEF Evaluate, Fresh, FreshFor
  <2>3. CASE \E rest : Goto(r, AfterSettings(r, rest))
    BY <1>5, <2>3, ElsewhereFresh
    DEF Evaluate, Goto, AfterSettings, InputsOK
  <2> QED
    BY <2>1, <2>2, <2>3 DEF Conclude
<1>6. ASSUME NEW r \in Runners,
             \/ Intent(r)
             \/ Write(r)
             \/ Commit(r)
             \/ Events(r)
             \/ Save(r)
      PROVE  Fresh'
  <2>1. pc[r] # "idle"
    BY <1>6 DEF Intent, Write, Commit, Events, Arrange, Save
  <2>2. \/ \E step \in {"write", "commit", "save", "status"} : Goto(r, step)
        \/ \E rest : Goto(r, AfterSettings(r, rest))
    BY <1>6 DEF Intent, Write, Commit, Events, Arrange, Save, Finished
  <2> QED
    BY <2>1, <2>2, ElsewhereFresh DEF Goto, AfterSettings, InputsOK
<1>7. ASSUME NEW s \in Settings, DriftAway(s) PROVE Fresh'
  <2>1. /\ \A t \in Settings \ drifted' :
              t \notin drifted /\ sys'[t] = sys[t]
        /\ UNCHANGED <<pc, obs>>
    BY <1>7 DEF DriftAway, MachineOK
  <2> QED
    BY <2>1 DEF Fresh, FreshFor
<1>8. CASE LoseLedger \/ ChangeWorld \/ ChangeConfig \/ UNCHANGED vars
  BY <1>8
  DEF LoseLedger, ChangeWorld, ChangeConfig, vars, Fresh, FreshFor
<1> QED
  BY <1>1, <1>2, <1>3, <1>4, <1>5, <1>6, <1>7, <1>8
  DEF Next, Step, Environment

-----------------------------------------------------------------------------
\* What a step does to the conflicts a report lists, other than a decision.
LEMMA ReportQuiet ==
    ASSUME PlansOK, NEW q \in Runners, NEW r \in Runners,
           \/ rep' = rep
           \/ rep' = [rep EXCEPT ![q] = Failed(rep[q])]
           \/ rep' = [rep EXCEPT ![q] = [rep[q] EXCEPT !.dirty = TRUE]]
           \/ rep' = [rep EXCEPT ![q] = NewReport]
    PROVE  rep'[r].drift \subseteq rep[r].drift
<1>1. rep \in [Runners -> Report] /\ rep[q] \in Report
  BY DEF PlansOK
<1>2. /\ Failed(rep[q]).drift = rep[q].drift
      /\ [rep[q] EXCEPT !.dirty = TRUE].drift = rep[q].drift
      /\ NewReport.drift = {}
  BY <1>1 DEF Report, Failed, NewReport
<1>3. rep'[r] = rep[r] \/ (r = q /\ rep'[q].drift \subseteq rep[q].drift)
  BY <1>1, <1>2
<1> QED
  BY <1>3

\* Only the decision of a run finds conflicts.
LEMMA QuietStep ==
    ASSUME TypeOK, [Next]_vars, \A q \in Runners : ~Evaluate(q),
           NEW r \in Runners
    PROVE  rep'[r].drift \subseteq rep[r].drift
<1> USE DEF machine, files, inputs, plans, budgets, TypeOK
<1>1. ASSUME NEW q \in Runners,
             \/ \E d \in BOOLEAN : Start(q, d)
             \/ ReadConfig(q)
             \/ Observe(q)
             \/ Save(q)
      PROVE  rep'[r].drift \subseteq rep[r].drift
  BY <1>1, ReportQuiet DEF Start, ReadConfig, Observe, Save
<1>2. ASSUME NEW q \in Runners, Load(q) \/ WriteStatus(q) \/ Crash(q)
      PROVE  rep'[r].drift \subseteq rep[r].drift
  BY <1>2, ReportQuiet DEF Load, WriteStatus, Crash, Ended
<1>3. ASSUME NEW q \in Runners,
             Intent(q) \/ Write(q) \/ Commit(q) \/ Events(q)
      PROVE  rep'[r].drift \subseteq rep[r].drift
  BY <1>3, ReportQuiet DEF Intent, Write, Commit, Events, Arrange
<1>4. CASE Environment \/ UNCHANGED vars
  BY <1>2, <1>4, ReportQuiet
  DEF Environment, LoseLedger, DriftAway, ChangeWorld, ChangeConfig, vars
<1> QED
  BY <1>1, <1>2, <1>3, <1>4 DEF Next, Step

\* A conflict is foreign: somebody else has changed the setting, or its days
\* share their label.
Foreign(s) == s \in drifted \/ (s = "wake" /\ Label(sys[s]) \in Lossy)

LEMMA DecisionForeign ==
    ASSUME TypeOK, Control, Accounting, Fresh,
           NEW q \in Runners, Evaluate(q),
           NEW r \in Runners, NEW s \in rep'[r].drift \ rep[r].drift
    PROVE  Foreign(s)
<1> USE DEF TypeOK
<1>1. PICK acKnown \in BOOLEAN, prevent \in BOOLEAN :
         Conclude(q, acKnown, prevent)
  BY DEF Evaluate, Prevent
<1>2. pc[q] = "evaluate"
  BY DEF Evaluate
<1>3. r = q
  BY <1>1 DEF Conclude, Ended, PlansOK
<1>4. rep[q] \in Report
  BY DEF PlansOK
<1>5. ~Ended(q)
  BY <1>3, <1>4 DEF Ended, PlansOK, NewReport
<1>6. s \in Known(q, acKnown) /\ Drift(s, mem[q], obs[q][s])
  <2> DEFINE drift == {t \in Known(q, acKnown) : Drift(t, mem[q], obs[q][t])}
             draft == [rep[q] EXCEPT !.requested = acKnown /\ prevent,
                                     !.source = acKnown, !.drift = drift]
  <2>1. draft.drift = drift /\ Failed(draft).drift = drift
    BY <1>4 DEF Report, Failed
  <2>2. rep'[q] \in {draft, Failed(draft)}
    BY <1>1, <1>5 DEF Conclude, PlansOK
  <2> HIDE DEF draft
  <2>3. s \in drift
    BY <1>3, <2>1, <2>2
  <2> QED
    BY <2>3
<1>7. s \in Settings /\ obs[q][s] # None
  BY <1>6 DEF Known, Applied
<1>8. ASSUME s \notin drifted PROVE s = "wake" /\ Label(sys[s]) \in Lossy
  <2>1. /\ IsLedger(mem[q])
        /\ mem[q].pending[s] = None
        /\ Accounts(mem[q], s, sys[s])
    BY <1>2, <1>7, <1>8
    DEF MemoryOK, Accounting, Resolved, MemoryAccounts
  <2>2. obs[q][s] \in Reading(s, sys[s]) /\ sys[s] \in SystemValue(s)
    BY <1>2, <1>7, <1>8 DEF Fresh, FreshFor, MachineOK
  <2>3. ~(s = "sleep" \/ Label(sys[s]) \notin Lossy)
    BY <1>6, <1>7, <2>1, <2>2, AccountedIsNoDrift
  <2> QED
    BY <1>7, <2>3, SettingsAssumption
<1> QED
  BY <1>8 DEF Foreign

\* A run blames another process only for what another process did, except for
\* a schedule whose days share their label (reconcile.go:269-275 and 312-316).
THEOREM ConflictsAlwaysForeign == Spec => ConflictsAreForeign
<1>1. Init => TypeOK /\ Control /\ Accounting /\ Fresh
  BY InitControl, InitAccounting, InitFresh
<1>2. TypeOK /\ Control /\ Accounting /\ Fresh /\ [Next]_vars
         => (TypeOK /\ Control /\ Accounting /\ Fresh)'
  BY StepControl, StepAccounting, StepFresh
<1>3. TypeOK /\ Control /\ Accounting /\ Fresh /\ [Next]_vars
         => [\A r \in Runners : \A s \in rep'[r].drift \ rep[r].drift :
                s \in drifted \/ (s = "wake" /\ Label(sys[s]) \in Lossy)]_vars
  BY QuietStep, DecisionForeign DEF Foreign
<1> QED
  BY <1>1, <1>2, <1>3, PTL DEF Spec, ConflictsAreForeign
=============================================================================
