--------------------------- MODULE OwnershipProofs ---------------------------
(***************************************************************************)
(* The proof that Reconcile implements the write-ahead protocol of         *)
(* Ownership, for every set of runners, every configuration, every         *)
(* assignment of labels to schedules and every bound.                      *)
(*                                                                         *)
(* A save replaces the whole ledger by a run's copy of it, so the argument *)
(* is that the copy never strays from the file by more than the protocol   *)
(* allows (CopyOf), whichever of the saves before have failed.             *)
(***************************************************************************)
EXTENDS ReconcileProofs

-----------------------------------------------------------------------------
\* The refinement mapping instantiates the definitions of Ledger again.

LEMMA SameAccounts ==
    ASSUME NEW l, NEW s, NEW v
    PROVE  Promise!Accounts(l, s, v) <=> Accounts(l, s, v)
BY DEF Promise!Accounts, Promise!Look, Promise!Expected, Promise!Label,
       Accounts, Look, Expected, Label

LEMMA SameSystemValue ==
    ASSUME NEW s
    PROVE  Promise!SystemValue(s) = SystemValue(s)
BY DEF Promise!SystemValue, SystemValue

-----------------------------------------------------------------------------
\* Ledger l is a run's copy of ledger d: it has the same baselines, it may have
\* taken over what d announces, and it announces nothing d does not.
CopyOf(l, d) ==
    d # None =>
       /\ l.base = d.base
       /\ \A s \in Settings :
             /\ l.last[s] # d.last[s] => l.last[s] = d.pending[s]
             /\ l.pending[s] # None => l.pending[s] = d.pending[s]

\* The resolution of an interrupted write takes over what is announced, or
\* nothing.
LEMMA ResolveCopies ==
    ASSUME NEW l, IsLedger(l), NEW d, CopyOf(l, d), NEW s \in Settings, NEW o
    PROVE  CopyOf(ResolvePending(l, s, o), d)
BY DEF CopyOf, ResolvePending, Committed, WithoutIntent, IsLedger, Ledgers

\* A withdrawn intent may be on disk.
LEMMA WithdrawnCopies ==
    ASSUME NEW l, IsLedger(l), NEW d, CopyOf(l, d), NEW s \in Settings, NEW v
    PROVE  /\ CopyOf(WithoutIntent(l, s), d)
           /\ CopyOf(WithoutIntent(l, s), WithIntent(l, s, v))
BY DEF CopyOf, WithIntent, WithoutIntent, IsLedger, Ledgers

LEMMA CommittedCopies ==
    ASSUME NEW l, IsLedger(l), NEW s \in Settings
    PROVE  CopyOf(Committed(l, s, l.pending[s]), l)
BY DEF CopyOf, Committed, IsLedger, Ledgers

\* A copy, or a copy that announces one more write, may replace the file.
LEMMA CopyFollows ==
    ASSUME NEW l, IsLedger(l), NEW d, d # None, CopyOf(l, d),
           NEW s \in Settings, NEW v
    PROVE  Promise!Follows(l, d) /\ Promise!Follows(WithIntent(l, s, v), d)
BY DEF CopyOf, Promise!Follows, WithIntent, IsLedger, Ledgers

Copies ==
    \A r \in Runners : pc[r] \notin {"idle", "load"} => CopyOf(mem[r], disk)

LEMMA LedgerIsSome == ASSUME NEW l, IsLedger(l) PROVE l # None
BY LedgerAssumption DEF IsLedger

\* A run saves a ledger that accounts for the settings: it replaces the one on
\* disk, or recovers one that was lost.
LEMMA SavePromised ==
    ASSUME NEW l, IsLedger(l), disk' = l, UNCHANGED <<sys, drifted>>,
           \A s \in Settings \ drifted : Accounts(l, s, sys[s]),
           disk # None => Promise!Follows(l, disk)
    PROVE  Promise!Next
<1>1. disk' # None
  BY LedgerIsSome
<1>2. Promise!Accountable(disk', sys, drifted)
  BY SameAccounts DEF Promise!Accountable
<1>3. CASE disk # None
  BY <1>1, <1>2, <1>3 DEF Promise!Next, Promise!Record
<1>4. CASE disk = None
  BY <1>1, <1>2, <1>4 DEF Promise!Next, Promise!Recover
<1> QED
  BY <1>3, <1>4

LEMMA InitPromised == Init => Promise!Init /\ Copies
<1> SUFFICES ASSUME Init PROVE Promise!Init /\ Copies
  OBVIOUS
<1>1. PICK o \in [Settings -> AnyValue] :
         /\ \A s \in Settings : o[s] \in Reading(s, sys[s])
         /\ disk = NewLedger(o)
  BY DEF Init
<1>2. IsLedger(disk) /\ drifted = {}
  <2>1. \A s \in Settings : o[s] \in Observation(s)
    BY <1>1, ReadingLooks DEF Init
  <2> QED
    BY <1>1, <2>1, NewLedgerType DEF Init
<1>3. \A s \in Settings : disk.last[s] = None /\ disk.pending[s] = None
  BY <1>1 DEF NewLedger
<1>4. Promise!Accountable(disk, sys, drifted)
  BY InitAccounting, SameAccounts, <1>2, LedgerIsSome
  DEF Accounting, LedgerAccounts, Promise!Accountable
<1>5. Copies
  BY DEF Init, Copies
<1> QED
  BY <1>2, <1>3, <1>4, <1>5, LedgerIsSome, SameSystemValue
  DEF Init, Promise!Init

-----------------------------------------------------------------------------
\* While one run is under way the others have no copy.
LEMMA OtherCopies ==
    ASSUME TypeOK, Control, NEW r \in Runners, pc[r] # "idle",
           \A q \in Runners \ {r} : pc'[q] = pc[q],
           pc'[r] \notin {"idle", "load"} => CopyOf(mem'[r], disk')
    PROVE  Copies'
BY DEF Control, Working, TypeOK, InputsOK, Copies

LEMMA EndedCopies ==
    ASSUME TypeOK, Control, NEW r \in Runners, pc[r] # "idle", Ended(r)
    PROVE  Copies'
BY EndedType DEF Copies

\* Every step keeps the copies and is a step of the protocol, or none.
LEMMA StepPromised ==
    TypeOK /\ Control /\ Accounting /\ Copies /\ [Next]_vars
       => Copies' /\ [Promise!Next]_Promise!vars
<1> SUFFICES ASSUME TypeOK, Control, Accounting, Copies, [Next]_vars
             PROVE  Copies' /\ [Promise!Next]_Promise!vars
  OBVIOUS
<1> USE DEF machine, files, inputs, plans, budgets, TypeOK
<1>1. ASSUME NEW r \in Runners, NEW d \in BOOLEAN, Start(r, d)
      PROVE  Copies' /\ [Promise!Next]_Promise!vars
  BY <1>1 DEF Start, Goto, InputsOK, Copies, Promise!vars
<1>2. ASSUME NEW r \in Runners, Load(r)
      PROVE  Copies' /\ [Promise!Next]_Promise!vars
  <2>1. UNCHANGED <<sys, disk, drifted>> /\ pc[r] # "idle"
    BY <1>2 DEF Load
  <2>2. CASE Ended(r)
    BY <2>1, <2>2, EndedCopies DEF Promise!vars
  <2>3. CASE mem' = [mem EXCEPT ![r] = disk] /\ Goto(r, "config")
    <3>1. mem'[r] = disk /\ \A q \in Runners \ {r} : pc'[q] = pc[q]
      BY <2>3 DEF Goto, InputsOK, MemoryOK
    <3>2. CopyOf(mem'[r], disk')
      BY <2>1, <3>1 DEF CopyOf
    <3> QED
      BY <2>1, <3>1, <3>2, OtherCopies DEF Promise!vars
  <2> QED
    BY <1>2, <2>2, <2>3 DEF Load
<1>3. ASSUME NEW r \in Runners,
             pc[r] \notin {"idle", "load"},
             \A q \in Runners \ {r} : pc'[q] = pc[q],
             UNCHANGED <<sys, mem, disk, drifted>>
      PROVE  Copies' /\ [Promise!Next]_Promise!vars
  BY <1>3, OtherCopies DEF Copies, Promise!vars
<1>4. ASSUME NEW r \in Runners, ReadConfig(r) \/ Events(r)
      PROVE  Copies' /\ [Promise!Next]_Promise!vars
  BY <1>3, <1>4 DEF ReadConfig, Events, Arrange, Goto, InputsOK
<1>5. ASSUME NEW r \in Runners, Observe(r)
      PROVE  Copies' /\ [Promise!Next]_Promise!vars
  <2> DEFINE s == First(todo[r])
  <2>1. s \in Settings
    BY <1>5, FirstIsIn DEF Observe, Control, Working, PlansOK
  <2>2. IsLedger(mem[r]) /\ CopyOf(mem[r], disk)
    BY <1>5 DEF Observe, MemoryOK, Copies
  <2>3. /\ UNCHANGED <<sys, disk, drifted>>
        /\ pc[r] # "idle"
        /\ \A q \in Runners \ {r} : pc'[q] = pc[q]
    BY <1>5 DEF Observe, Goto, InputsOK
  <2> HIDE DEF s
  <2>4. \/ mem'[r] = mem[r]
        \/ \E o : mem'[r] = ResolvePending(mem[r], s, o)
    BY <1>5 DEF Observe, MemoryOK, s
  <2>5. CopyOf(mem'[r], disk)
    BY <2>1, <2>2, <2>4, ResolveCopies
  <2> QED
    BY <2>3, <2>5, OtherCopies DEF Promise!vars
<1>6. ASSUME NEW r \in Runners, Evaluate(r)
      PROVE  Copies' /\ [Promise!Next]_Promise!vars
  <2>1. \E acKnown, prevent : Conclude(r, acKnown, prevent)
    BY <1>6 DEF Evaluate
  <2>2. pc[r] = "evaluate" /\ UNCHANGED <<sys, disk, drifted>>
    BY <1>6 DEF Evaluate
  <2>3. CASE Ended(r)
    BY <2>2, <2>3, EndedCopies DEF Promise!vars
  <2>4. CASE ~Ended(r)
    <3>1. mem' = mem /\ \A q \in Runners \ {r} : pc'[q] = pc[q]
      BY <2>1, <2>4 DEF Conclude, Goto, InputsOK
    <3> QED
      BY <1>3, <2>2, <3>1
  <2> QED
    BY <2>3, <2>4
<1>7. ASSUME NEW r \in Runners, Intent(r)
      PROVE  Copies' /\ [Promise!Next]_Promise!vars
  <2> DEFINE s == First(todo[r])
             l == WithIntent(mem[r], s, goal[r][s])
  <2>1. /\ s \in Settings
        /\ goal[r][s] \in SystemValue(s)
    BY <1>7, FirstIsIn DEF Intent, Control, Working, PlansOK
  <2>2. /\ IsLedger(mem[r])
        /\ CopyOf(mem[r], disk)
        /\ \A t \in todo[r] : mem[r].pending[t] = None
        /\ \A t \in Settings \ drifted : Accounts(mem[r], t, sys[t])
        /\ \A t \in Settings : sys[t] \in SystemValue(t)
    BY <1>7
    DEF Intent, MemoryOK, MachineOK, Copies, Accounting, Resolved,
        MemoryAccounts
  <2>3. mem[r].pending[s] = None
    BY <1>7, <2>2, FirstIsIn DEF Intent, Control, Working, PlansOK
  <2>4. /\ UNCHANGED <<sys, drifted>>
        /\ pc[r] # "idle"
        /\ \A q \in Runners \ {r} : pc'[q] = pc[q]
    BY <1>7 DEF Intent, Finished, Goto, InputsOK
  <2> HIDE DEF s
  <2>5. \A t \in Settings \ drifted : Accounts(l, t, sys[t])
    BY <2>1, <2>2, <2>3, IntentAccounts, OtherAccounts
  <2>6. IsLedger(l)
    BY <2>1, <2>2, WithIntentType
  <2>7. disk # None => Promise!Follows(l, disk)
    BY <2>1, <2>2, CopyFollows
  <2>8. \/ disk' = l /\ mem'[r] = l
        \/ disk' \in {disk, l} /\ mem'[r] = WithoutIntent(mem[r], s)
    BY <1>7 DEF Intent, Saved, SaveFailed, MemoryOK, s
  <2>9. CopyOf(mem'[r], disk')
    <3>1. CopyOf(l, l)
      BY DEF CopyOf
    <3> QED
      BY <2>1, <2>2, <2>8, <3>1, WithdrawnCopies
  <2> HIDE DEF l
  <2>10. [Promise!Next]_Promise!vars
    <3>1. CASE disk' = l
      BY <2>4, <2>5, <2>6, <2>7, <3>1, SavePromised
    <3>2. CASE disk' = disk
      BY <2>4, <3>2 DEF Promise!vars
    <3> QED
      BY <2>8, <3>1, <3>2
  <2> QED
    BY <2>4, <2>9, <2>10, OtherCopies
<1>8. ASSUME NEW r \in Runners, Write(r)
      PROVE  Copies' /\ [Promise!Next]_Promise!vars
  <2> DEFINE s == First(todo[r])
             v == goal[r][s]
  <2>1. s \in Settings /\ s \in todo[r] /\ v # None
    BY <1>8, FirstIsIn DEF Write, Control, Working, PlansOK
  <2>2. v \in SystemValue(s)
    BY <2>1 DEF PlansOK
  <2>3. /\ IsLedger(mem[r])
        /\ CopyOf(mem[r], disk)
        /\ mem[r].pending[s] = v
        /\ disk = None \/ disk = mem[r]
    BY <1>8 DEF Write, MemoryOK, Copies, Accounting, Announced
  <2> HIDE DEF s, v
  <2>4. /\ disk' = disk
        /\ pc[r] # "idle"
        /\ \A q \in Runners \ {r} : pc'[q] = pc[q]
    BY <1>8 DEF Write, Finished, Goto, InputsOK
  <2>5. mem'[r] = mem[r] \/ mem'[r] = Committed(mem[r], s, v)
    BY <1>8 DEF Write, MemoryOK, s, v
  <2>6. CopyOf(mem'[r], disk')
    <3>1. CopyOf(Committed(mem[r], s, v), mem[r])
      BY <2>1, <2>3, CommittedCopies
    <3>2. CASE disk = None
      BY <2>4, <3>2 DEF CopyOf
    <3>3. CASE disk = mem[r]
      BY <2>3, <2>4, <2>5, <3>1, <3>3
    <3> QED
      BY <2>3, <3>2, <3>3
  <2>7. \/ sys' = [sys EXCEPT ![s] = v] /\ drifted' = drifted \ {s}
        \/ UNCHANGED <<sys, drifted>>
    BY <1>8 DEF Write, s, v
  <2>8. CASE sys' = [sys EXCEPT ![s] = v] /\ drifted' = drifted \ {s}
    <3>1. disk # None => v = disk.pending[s]
      BY <2>3
    <3>2. v \in Promise!SystemValue(s)
      BY <2>2, SameSystemValue
    <3>3. Promise!Perform(s)
      BY <2>4, <2>8, <3>1, <3>2 DEF Promise!Perform
    <3> QED
      BY <2>1, <2>4, <2>6, <3>3, OtherCopies DEF Promise!Next
  <2>9. CASE UNCHANGED <<sys, drifted>>
    BY <2>4, <2>6, <2>9, OtherCopies DEF Promise!vars
  <2> QED
    BY <2>7, <2>8, <2>9
<1>9. ASSUME NEW r \in Runners, Commit(r) \/ Save(r)
      PROVE  Copies' /\ [Promise!Next]_Promise!vars
  <2>1. /\ pc[r] \in {"commit", "save"}
        /\ disk' \in {disk, mem[r]}
        /\ UNCHANGED <<sys, mem, drifted>>
        /\ \A q \in Runners \ {r} : pc'[q] = pc[q]
    BY <1>9 DEF Commit, Save, Saved, SaveFailed, Finished, Goto, InputsOK
  <2>2. /\ IsLedger(mem[r])
        /\ CopyOf(mem[r], disk)
        /\ \A t \in Settings \ drifted : Accounts(mem[r], t, sys[t])
    BY <2>1 DEF MemoryOK, Copies, Accounting, MemoryAccounts
  <2>3. CASE disk' = disk
    BY <1>3, <2>1, <2>3
  <2>4. CASE disk' = mem[r]
    <3>1. disk # None => Promise!Follows(mem[r], disk)
      BY <2>2 DEF CopyOf, Promise!Follows
    <3>2. Promise!Next
      BY <2>1, <2>2, <2>4, <3>1, SavePromised
    <3>3. CopyOf(mem'[r], disk')
      BY <2>1, <2>4 DEF CopyOf
    <3> QED
      BY <2>1, <3>2, <3>3, OtherCopies
  <2> QED
    BY <2>1, <2>3, <2>4
<1>10. ASSUME NEW r \in Runners, WriteStatus(r) \/ Crash(r)
       PROVE  Copies' /\ [Promise!Next]_Promise!vars
  <2>1. Ended(r) /\ pc[r] # "idle" /\ UNCHANGED <<sys, disk, drifted>>
    BY <1>10 DEF WriteStatus, Crash
  <2> QED
    BY <2>1, EndedCopies DEF Promise!vars
<1>11. CASE LoseLedger
  <2>1. /\ disk' = None
        /\ UNCHANGED <<sys, drifted, pc, mem>>
    BY <1>11 DEF LoseLedger
  <2> QED
    BY <2>1 DEF Copies, CopyOf, Promise!Next, Promise!Lose
<1>12. ASSUME NEW s \in Settings, DriftAway(s)
       PROVE  Copies' /\ [Promise!Next]_Promise!vars
  <2>1. Promise!Interfere(s)
    BY <1>12, SameSystemValue DEF DriftAway, Promise!Interfere
  <2>2. Copies'
    BY <1>12 DEF DriftAway, Copies
  <2> QED
    BY <2>1, <2>2 DEF Promise!Next
<1>13. CASE ChangeWorld \/ ChangeConfig \/ UNCHANGED vars
  BY <1>13 DEF ChangeWorld, ChangeConfig, vars, Copies, Promise!vars
<1> QED
  BY <1>1, <1>2, <1>4, <1>5, <1>6, <1>7, <1>8, <1>9, <1>10, <1>11, <1>12, <1>13
  DEF Next, Step, Environment

\* Every behaviour of reconciliation, seen as settings and a ledger on disk, is
\* one of the write-ahead protocol: whatever fails or is killed, a setting is
\* written only after its value is announced, and a save of the whole ledger
\* never undoes a baseline or an announcement (reconcile.go, applySleep and
\* applyWake; state.go, SaveState).
THEOREM OwnershipImplemented == Spec => ImplementsOwnership
<1>1. Init => TypeOK /\ Control /\ Accounting /\ Copies /\ Promise!Init
  BY InitControl, InitAccounting, InitPromised
<1>2. TypeOK /\ Control /\ Accounting /\ Copies /\ [Next]_vars
         => (TypeOK /\ Control /\ Accounting /\ Copies)'
  BY StepControl, StepAccounting, StepPromised
<1>3. TypeOK /\ Control /\ Accounting /\ Copies /\ [Next]_vars
         => [Promise!Next]_Promise!vars
  BY StepPromised
<1> QED
  BY <1>1, <1>2, <1>3, PTL DEF Spec, ImplementsOwnership, Promise!Spec
=============================================================================
