---------------------------- MODULE BaselineProofs ----------------------------
(***************************************************************************)
(* The proof that reconciliation never releases a sleep inhibition that    *)
(* was in force before installation, for every set of runners, every       *)
(* configuration and every bound.                                          *)
(*                                                                         *)
(* The ledger on disk may be lost and come back from a run's memory, so    *)
(* the invariant speaks of both, and of what a run has decided to write.   *)
(***************************************************************************)
EXTENDS ReconcileProofs

-----------------------------------------------------------------------------
\* The baseline that ledger l records is respected.
RespectedBy(l) ==
    "sleep" \in Settings \ drifted /\ l.base["sleep"] => sys["sleep"]

\* A run that is writing has not decided to release it.
Spares(r) ==
    /\ pc[r] \in {"intent", "write", "commit"}
    /\ "sleep" \in Settings
    /\ mem[r].base["sleep"]
    => goal[r]["sleep"] \in {TRUE, None}

Respects ==
    /\ disk # None => RespectedBy(disk)
    /\ \A r \in Runners :
          pc[r] \notin {"idle", "load"} => RespectedBy(mem[r]) /\ Spares(r)

\* No operation on a ledger replaces a baseline.
LEMMA SameBase ==
    ASSUME NEW l, IsLedger(l), NEW s, NEW v
    PROVE  /\ WithIntent(l, s, v).base = l.base
           /\ WithoutIntent(l, s).base = l.base
           /\ Committed(l, s, v).base = l.base
           /\ ResolvePending(l, s, v).base = l.base
BY DEF WithIntent, WithoutIntent, Committed, ResolvePending, IsLedger, Ledgers

\* A step of run r that changes no setting and keeps to its baseline.
LEMMA KeepingStep ==
    ASSUME TypeOK, Control, Respects, NEW r \in Runners,
           pc[r] \notin {"idle", "load"},
           UNCHANGED <<sys, drifted>>,
           \A q \in Runners \ {r} : pc'[q] = pc[q],
           mem'[r].base = mem[r].base,
           disk' = disk \/ disk'.base = mem[r].base,
           Spares(r)'
    PROVE  Respects'
<1>1. \A q \in Runners \ {r} : pc'[q] = "idle"
  BY DEF Control, Working, TypeOK, InputsOK
<1>2. disk' # None => RespectedBy(disk)'
  BY DEF Respects, RespectedBy
<1>3. RespectedBy(mem[r])'
  BY DEF Respects, RespectedBy
<1> QED
  BY <1>1, <1>2, <1>3 DEF Respects

\* The goals of a run do not change while it writes.
LEMMA SparesStays ==
    ASSUME Respects, NEW r \in Runners,
           pc[r] \in {"intent", "write", "commit"},
           goal'[r] = goal[r], mem'[r].base = mem[r].base
    PROVE  Spares(r)'
BY DEF Respects, Spares

LEMMA EndedRespects ==
    ASSUME TypeOK, Control, Respects, NEW r \in Runners, pc[r] # "idle",
           Ended(r), UNCHANGED <<sys, disk, drifted>>
    PROVE  Respects'
BY EndedType DEF Respects, RespectedBy

LEMMA InitRespects == Init => Respects
<1> SUFFICES ASSUME Init, "sleep" \in Settings PROVE RespectedBy(disk)
  BY DEF Init, Respects, RespectedBy
<1>1. disk.base["sleep"] = sys["sleep"]
  BY DEF Init, NewLedger, Reading
<1> QED
  BY <1>1 DEF RespectedBy

\* Every step respects the baseline.
LEMMA StepRespects ==
    TypeOK /\ Control /\ Accounting /\ Respects /\ [Next]_vars => Respects'
<1> SUFFICES ASSUME TypeOK, Control, Accounting, Respects, [Next]_vars
             PROVE  Respects'
  OBVIOUS
<1> USE DEF machine, files, inputs, plans, budgets, TypeOK
<1>1. ASSUME NEW r \in Runners, NEW d \in BOOLEAN, Start(r, d)
      PROVE  Respects'
  BY <1>1 DEF Start, Goto, InputsOK, Respects, RespectedBy, Spares
<1>2. ASSUME NEW r \in Runners, Load(r) PROVE Respects'
  <2>1. UNCHANGED <<sys, disk, drifted>> /\ pc[r] = "load"
    BY <1>2 DEF Load
  <2>2. CASE Ended(r)
    BY <2>1, <2>2, EndedRespects
  <2>3. CASE /\ disk # None
             /\ mem' = [mem EXCEPT ![r] = disk]
             /\ Goto(r, "config")
    <3>1. mem'[r] = disk /\ pc'[r] = "config"
      BY <2>3 DEF Goto, InputsOK, MemoryOK
    <3>2. \A q \in Runners \ {r} : pc'[q] = "idle"
      BY <2>1, <2>3 DEF Goto, Control, Working, InputsOK
    <3>3. RespectedBy(disk)' /\ RespectedBy(mem[r])' /\ Spares(r)'
      BY <2>1, <2>3, <3>1 DEF Respects, RespectedBy, Spares
    <3> QED
      BY <3>2, <3>3 DEF Respects
  <2> QED
    BY <1>2, <2>2, <2>3 DEF Load
<1>3. ASSUME NEW r \in Runners, ReadConfig(r) \/ Events(r) \/ Save(r)
      PROVE  Respects'
  <2>1. /\ pc[r] \in {"config", "events", "save"}
        /\ pc'[r] \in {"observe", "save", "status"}
        /\ \A q \in Runners \ {r} : pc'[q] = pc[q]
        /\ UNCHANGED <<sys, mem, drifted>>
        /\ disk' \in {disk, mem[r]}
    BY <1>3
    DEF ReadConfig, Events, Arrange, Save, Saved, SaveFailed, Goto, InputsOK
  <2> QED
    BY <2>1, KeepingStep DEF Spares
<1>4. ASSUME NEW r \in Runners, Observe(r) PROVE Respects'
  <2>1. IsLedger(mem[r])
    BY <1>4 DEF Observe, MemoryOK
  <2>2. mem'[r].base = mem[r].base
    BY <1>4, <2>1, SameBase DEF Observe, MemoryOK
  <2>3. /\ pc[r] = "observe" /\ pc'[r] \in {"observe", "evaluate"}
        /\ \A q \in Runners \ {r} : pc'[q] = pc[q]
        /\ UNCHANGED <<sys, disk, drifted>>
    BY <1>4 DEF Observe, Goto, InputsOK
  <2> QED
    BY <2>2, <2>3, KeepingStep DEF Spares
<1>5. ASSUME NEW r \in Runners, Evaluate(r) PROVE Respects'
  <2>1. pc[r] = "evaluate" /\ UNCHANGED <<sys, disk, drifted>>
    BY <1>5 DEF Evaluate
  <2>2. PICK acKnown \in BOOLEAN, prevent \in BOOLEAN :
           Conclude(r, acKnown, prevent)
    BY <1>5 DEF Evaluate, Prevent
  <2>3. CASE Ended(r)
    BY <2>1, <2>3, EndedRespects
  <2>4. CASE ~Ended(r)
    <3>1. /\ goal' = [goal EXCEPT ![r] = [s \in Settings |->
                         IF s \in ToWrite(r, acKnown, prevent)
                         THEN Goal(r, s, prevent) ELSE None]]
          /\ UNCHANGED mem
          /\ \A q \in Runners \ {r} : pc'[q] = pc[q]
      BY <2>2, <2>4 DEF Conclude, Goto, InputsOK
    <3>2. "sleep" \in Settings /\ mem[r].base["sleep"] =>
             goal'[r]["sleep"] \in {TRUE, None}
      <4>1. ASSUME mem[r].base["sleep"]
            PROVE  Goal(r, "sleep", prevent) = TRUE
        BY <4>1 DEF Goal, Target
      <4> QED
        BY <3>1, <4>1 DEF PlansOK
    <3>3. Spares(r)'
      BY <3>1, <3>2 DEF Spares
    <3> QED
      BY <2>1, <3>1, <3>3, KeepingStep
  <2> QED
    BY <2>3, <2>4
<1>6. ASSUME NEW r \in Runners, Intent(r) PROVE Respects'
  <2> DEFINE s == First(todo[r])
             l == WithIntent(mem[r], s, goal[r][s])
  <2>1. IsLedger(mem[r])
    BY <1>6 DEF Intent, MemoryOK
  <2>2. l.base = mem[r].base /\ WithoutIntent(mem[r], s).base = mem[r].base
    BY <2>1, SameBase
  <2> HIDE DEF s
  <2>3. /\ mem'[r] \in {l, WithoutIntent(mem[r], s)}
        /\ disk' \in {disk, l}
        /\ pc[r] = "intent"
        /\ \A q \in Runners \ {r} : pc'[q] = pc[q]
        /\ UNCHANGED <<sys, goal, drifted>>
    BY <1>6
    DEF Intent, Finished, Goto, Saved, SaveFailed, InputsOK, MemoryOK, s
  <2> HIDE DEF l
  <2>4. mem'[r].base = mem[r].base /\ (disk' = disk \/ disk'.base = mem[r].base)
    BY <2>2, <2>3
  <2> QED
    BY <2>3, <2>4, SparesStays, KeepingStep
<1>7. ASSUME NEW r \in Runners, Write(r) PROVE Respects'
  <2> DEFINE s == First(todo[r])
             v == goal[r][s]
  <2>1. s \in Settings /\ s \in todo[r] /\ v # None
    BY <1>7, FirstIsIn DEF Write, Control, Working, PlansOK
  <2>2. IsLedger(mem[r]) /\ RespectedBy(mem[r]) /\ Spares(r)
    BY <1>7 DEF Write, MemoryOK, Respects
  <2> HIDE DEF s, v
  <2>3. mem'[r] \in {mem[r], Committed(mem[r], s, v)}
    BY <1>7 DEF Write, MemoryOK, s, v
  <2>4. mem'[r].base = mem[r].base
    BY <2>2, <2>3, SameBase
  <2>5. /\ pc[r] = "write"
        /\ \A q \in Runners \ {r} : pc'[q] = pc[q]
        /\ UNCHANGED <<disk, goal>>
    BY <1>7 DEF Write, Finished, Goto, InputsOK
  <2>6. CASE UNCHANGED <<sys, drifted>>
    BY <2>4, <2>5, <2>6, SparesStays, KeepingStep
  <2>7. CASE sys' = [sys EXCEPT ![s] = v] /\ drifted' = drifted \ {s}
    <3>1. CASE s # "sleep"
      BY <2>1, <2>4, <2>5, <2>7, <3>1, SparesStays
      DEF Control, Working, MachineOK, InputsOK, Respects, RespectedBy
    <3>2. CASE s = "sleep"
      <4>1. sys'["sleep"] = v
        BY <2>1, <2>7, <3>2 DEF MachineOK
      <4>2. mem[r].base["sleep"] => v = TRUE
        BY <2>1, <2>2, <2>5, <3>2 DEF Spares, v
      <4>3. RespectedBy(mem[r])' /\ Spares(r)'
        BY <2>4, <2>5, <4>1, <4>2, SparesStays DEF RespectedBy
      <4>4. disk' # None => disk' = mem[r]
        BY <1>7, <2>5 DEF Write, Accounting, Announced
      <4>5. \A q \in Runners \ {r} : pc'[q] = "idle"
        BY <2>5 DEF Control, Working, InputsOK
      <4> QED
        BY <2>4, <4>3, <4>4, <4>5 DEF Respects, RespectedBy
    <3> QED
      BY <3>1, <3>2
  <2> QED
    BY <1>7, <2>6, <2>7 DEF Write, s, v
<1>8. ASSUME NEW r \in Runners, Commit(r) PROVE Respects'
  <2>1. /\ pc[r] = "commit"
        /\ disk' \in {disk, mem[r]}
        /\ UNCHANGED <<sys, mem, goal, drifted>>
        /\ \A q \in Runners \ {r} : pc'[q] = pc[q]
    BY <1>8 DEF Commit, Saved, SaveFailed, Finished, Goto, InputsOK
  <2> QED
    BY <2>1, SparesStays, KeepingStep
<1>9. ASSUME NEW r \in Runners, WriteStatus(r) \/ Crash(r) PROVE Respects'
  BY <1>9, EndedRespects DEF WriteStatus, Crash
<1>10. CASE LoseLedger
  BY <1>10 DEF LoseLedger, Respects, RespectedBy, Spares
<1>11. ASSUME NEW s \in Settings, DriftAway(s) PROVE Respects'
  <2>1. /\ "sleep" \in Settings \ drifted' =>
              "sleep" \notin drifted /\ sys'["sleep"] = sys["sleep"]
        /\ UNCHANGED <<disk, pc, mem, goal>>
    BY <1>11 DEF DriftAway, MachineOK
  <2> QED
    BY <2>1 DEF Respects, RespectedBy, Spares
<1>12. CASE ChangeWorld \/ ChangeConfig \/ UNCHANGED vars
  BY <1>12 DEF ChangeWorld, ChangeConfig, vars, Respects, RespectedBy, Spares
<1> QED
  BY <1>1, <1>2, <1>3, <1>4, <1>5, <1>6, <1>7, <1>8, <1>9, <1>10, <1>11, <1>12
  DEF Next, Step, Environment

\* A sleep inhibition from before installation outlives every run, policy,
\* invalid configuration, failure and lost ledger (reconcile.go:174 and 209).
THEOREM BaselineAlwaysRespected == Spec => []BaselineRespected
<1>1. Init => TypeOK /\ Control /\ Accounting /\ Respects
  BY InitControl, InitAccounting, InitRespects
<1>2. TypeOK /\ Control /\ Accounting /\ Respects /\ [Next]_vars
         => (TypeOK /\ Control /\ Accounting /\ Respects)'
  BY StepControl, StepAccounting, StepRespects
<1>3. Respects => BaselineRespected
  BY DEF Respects, RespectedBy, BaselineRespected
<1> QED
  BY <1>1, <1>2, <1>3, PTL DEF Spec
=============================================================================
