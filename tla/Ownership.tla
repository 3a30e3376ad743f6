------------------------------ MODULE Ownership ------------------------------
(***************************************************************************)
(* What the ownership ledger promises, whoever keeps it: a write-ahead     *)
(* protocol between the settings and the ledger on disk.                   *)
(*                                                                         *)
(* A setting is only ever given a value that the ledger announces.  The    *)
(* ledger only ever takes over as last written what it had announced, it   *)
(* never forgets a baseline, and it is only rewritten to something that    *)
(* still accounts for every setting nobody else has changed.  Processes,   *)
(* their memory, failures and crashes do not appear: Reconcile is shown to *)
(* implement this specification.                                           *)
(***************************************************************************)
EXTENDS Ledger

VARIABLES
    value,        \* the settings as the operating system holds them
    ledger,       \* the ledger on disk, None when it is lost
    foreign       \* the settings changed by others since the last write

vars == <<value, ledger, foreign>>

Accountable(l, val, others) ==
    \A s \in Settings \ others : Accounts(l, s, val[s])

\* Ledger m may replace ledger l.
Follows(m, l) ==
    /\ m.base = l.base
    /\ \A s \in Settings :
          m.last[s] # l.last[s] => m.last[s] = l.pending[s]

-----------------------------------------------------------------------------
\* Announce a write, take a completed one over or withdraw one, for any number
\* of settings at once: the file is replaced as a whole.
Record ==
    /\ ledger # None
    /\ ledger' # None
    /\ Follows(ledger', ledger)
    /\ Accountable(ledger', value, foreign)
    /\ UNCHANGED <<value, foreign>>

\* The announced value is written.  Only a ledger lost after the announcement
\* does not show it.
Perform(s) ==
    /\ \E v \in SystemValue(s) :
          /\ ledger # None => v = ledger.pending[s]
          /\ value' = [value EXCEPT ![s] = v]
    /\ foreign' = foreign \ {s}
    /\ UNCHANGED ledger

\* Somebody else changes a setting.
Interfere(s) ==
    /\ \E v \in SystemValue(s) : value' = [value EXCEPT ![s] = v]
    /\ foreign' = foreign \cup {s}
    /\ UNCHANGED ledger

\* The ledger is lost, and comes back with the copy a run has in memory.
Lose == ledger' = None /\ UNCHANGED <<value, foreign>>

Recover ==
    /\ ledger = None
    /\ ledger' # None
    /\ Accountable(ledger', value, foreign)
    /\ UNCHANGED <<value, foreign>>

Init ==
    /\ \A s \in Settings : value[s] \in SystemValue(s)
    /\ ledger # None
    /\ \A s \in Settings : ledger.last[s] = None /\ ledger.pending[s] = None
    /\ foreign = {}
    /\ Accountable(ledger, value, foreign)

Next ==
    \/ Record
    \/ \E s \in Settings : Perform(s) \/ Interfere(s)
    \/ Lose
    \/ Recover

Spec == Init /\ [][Next]_vars
=============================================================================
