------------------------------- MODULE Ledger -------------------------------
(***************************************************************************)
(* The private ownership ledger (state.State) and the values it speaks of. *)
(*                                                                         *)
(* schlaflos manages two settings by the same protocol: the disablesleep   *)
(* flag and the recurring wake schedule.  The ledger keeps, for each, the  *)
(* baseline observed before the first mutation, the value last written and *)
(* verified, and the value of a write in progress.  The definitions take   *)
(* the setting as a parameter, so a model may check one setting or both.   *)
(***************************************************************************)
EXTENDS WakeSchedule, FiniteSets

CONSTANTS
    Settings,     \* the settings under management
    None          \* a nil pointer: nothing recorded, nothing observed

ASSUME SettingsAssumption ==
    /\ Settings \subseteq {"sleep", "wake"}
    /\ None \notin BOOLEAN \cup Schedules

\* What a setting can hold in the operating system.
SystemValue(s) == IF s = "sleep" THEN BOOLEAN ELSE Exact

\* What schlaflos can observe of a setting.
Observation(s) == IF s = "sleep" THEN BOOLEAN ELSE Schedules

\* What every observation of a value has in common with the value.
Look(s, v) == IF s = "sleep" THEN v ELSE Label(v)

\* The comparison the code makes between two observations or records.
Same(s, a, b) == IF s = "sleep" THEN a = b ELSE Equal(a, b)

\* The observations a successful read of value v can return.
Reading(s, v) == IF s = "sleep" THEN {v} ELSE Current(v)

\* Adapter.Apply and SetSleepDisabled verify a write of v by reading back what
\* the system holds.
Verified(s, held, v) == \E o \in Reading(s, held) : Same(s, o, v)

\* A value schlaflos may write: applyWake and Adapter.Apply refuse a schedule
\* with unknown days.
Writable(s, v) == s = "sleep" \/ IsExact(v)

-----------------------------------------------------------------------------
AnyValue == BOOLEAN \cup Schedules

\* state.State.
Ledgers == [base    : [Settings -> AnyValue],
            last    : [Settings -> AnyValue \cup {None}],
            pending : [Settings -> AnyValue \cup {None}]]

ASSUME LedgerAssumption == None \notin Ledgers

\* What SaveState accepts: both baselines are present (Validate) and what
\* schlaflos wrote is always exactly known.
IsLedger(l) ==
    /\ l \in Ledgers
    /\ \A s \in Settings :
          /\ l.base[s] \in Observation(s)
          /\ l.last[s] \in SystemValue(s) \cup {None}
          /\ l.pending[s] \in SystemValue(s) \cup {None}

\* state.New with the baselines Install records.
NewLedger(observed) ==
    [base    |-> observed,
     last    |-> [s \in Settings |-> None],
     pending |-> [s \in Settings |-> None]]

\* The value schlaflos expects to find: what it wrote, else the baseline.
Expected(l, s) == IF l.last[s] = None THEN l.base[s] ELSE l.last[s]

\* A ledger accounts for a value of a setting when the value looks like the one
\* schlaflos expects to find or is the one it announced it would write.
Accounts(l, s, v) ==
    \/ Look(s, v) = Look(s, Expected(l, s))
    \/ v = l.pending[s]

\* The intent persisted before a mutation.
WithIntent(l, s, v) == [l EXCEPT !.pending[s] = v]

\* The intent withdrawn: its SaveState failed.
WithoutIntent(l, s) == [l EXCEPT !.pending[s] = None]

\* The write has been verified.
Committed(l, s, v) == [l EXCEPT !.pending[s] = None, !.last[s] = v]

\* Mutants of ResolvePending: an interrupted write is always discarded; it is
\* left as it is.
ResolveDiscarding(l, s, o) ==
    IF l.pending[s] = None THEN l ELSE WithoutIntent(l, s)
ResolveNothing(l, s, o) == l

\* resolvePendingSleep, resolvePendingWake: an interrupted write is adopted
\* when the observed value is the intent, discarded otherwise.
ResolvePending(l, s, o) ==
    IF l.pending[s] = None THEN l
    ELSE IF Same(s, o, l.pending[s]) THEN Committed(l, s, l.pending[s])
    ELSE WithoutIntent(l, s)
=============================================================================
