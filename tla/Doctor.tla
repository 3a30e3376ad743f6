-------------------------------- MODULE Doctor --------------------------------
(***************************************************************************)
(* The doctor command (package doctor): a root operator's look at an       *)
(* installation.  It compares the status and the ledger with what pmset    *)
(* reports and changes nothing, so it is a predicate of the state and of   *)
(* what it reads of the settings.                                          *)
(*                                                                         *)
(* Only the lines that speak of one setting are here: each definition says *)
(* when doctor warns of that setting.  The lines about paths, the age and  *)
(* outcome of the last run, the configuration, launchd, the one-off events *)
(* and a pending write are left out: they tell nothing of a drift.         *)
(***************************************************************************)
EXTENDS Lifecycle

VARIABLE witnessed  \* history: the baseline with which the run that published
                    \* the status compared disablesleep, None when none did

doctorVars == <<allVars, witnessed>>

\* A run publishes its status ...
Published(r) == WriteStatus(r) /\ status' = StatusOf(r)

\* ... and this baseline, if any, is what it compared disablesleep with: it had
\* read the flag and the power source, and nothing had ever been written.
Witness(r) ==
    IF /\ obs[r]["sleep"] # None
       /\ rep[r].source
       /\ mem[r].last["sleep"] = None
    THEN mem[r].base["sleep"]
    ELSE None

DoctorInit == LifecycleInit /\ witnessed = None

DoctorNext ==
    /\ LifecycleNext
    /\ \/ \E r \in Runners : Published(r) /\ witnessed' = Witness(r)
       \/ /\ \A r \in Runners : ~Published(r)
          /\ witnessed' = IF status' = status THEN witnessed ELSE None

DoctorSpec == DoctorInit /\ [][DoctorNext]_doctorVars

\* Nothing runs that could change what doctor looks at.
AtRest == lock = None /\ cmd.step = "idle"

\* A conflict reported by the last reconciliation.
ConflictLine(s) == status # None /\ s \in status.drift

\* disablesleep is compared with what the last run observed, the schedule, as
\* it is printed, with what that run installs.
ReadingBad(s, o) ==
    /\ status # None
    /\ IF s = "sleep"
       THEN status.observed[s] # None /\ o # status.observed[s]
       ELSE status.wake # None /\ o # status.wake

\* Mutant of OwnershipBad: an interrupted write is passed over, and with it the
\* comparison.
OwnershipBadUnlessPending(s, o) ==
    /\ disk # None
    /\ disk.pending[s] = None
    /\ disk.last[s] # None
    /\ ~Same(s, o, disk.last[s])

\* Ownership: the value is not the last one written.
OwnershipBad(s, o) ==
    /\ disk # None
    /\ disk.last[s] # None
    /\ ~Same(s, o, disk.last[s])

\* doctor warns of setting s when it reads observation o of it.  With neither
\* the plist nor the support directory it says "not installed" and stops.
Reports(s, o) ==
    installed /\ (ConflictLine(s) \/ ReadingBad(s, o) \/ OwnershipBad(s, o))

\* The next run will report s as a conflict if it reads observation o of it.
WillReport(s, o) == Drift(s, ResolvePending(disk, s, o), o)

\* Exempt: a disablesleep that schlaflos never wrote, when the status is not
\* that of a run which compared it with the baseline of the ledger there is.
\* doctor itself compares it with that status only, never with the baseline.
Unwitnessed(s) ==
    /\ s = "sleep"
    /\ disk.last[s] = None
    /\ witnessed # disk.base[s]

-----------------------------------------------------------------------------
\* operations.md:136-138 says of a setting changed by others that "`doctor`
\* reports the same drift before the next run".  Whatever failed, was killed or
\* changed before, while schlaflos is installed doctor warns of every setting
\* that the next run will report as a conflict, in a line about that setting.
\* The exceptions are a disablesleep that is Unwitnessed, and a ledger that an
\* uninstall failed to remove with all the rest gone.
DriftForetold ==
    AtRest /\ installed /\ disk # None =>
       \A s \in Settings : \A o \in Reading(s, sys[s]) :
          WillReport(s, o) /\ ~Unwitnessed(s) => Reports(s, o)
=============================================================================
